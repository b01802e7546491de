---------------------------- MODULE Notifications ----------------------------
(***************************************************************************)
(* The digests an organisation sends to where its people work: channels    *)
(* are created, edited and deleted; a test send loads a channel, builds    *)
(* each digest it subscribes to, delivers it to a webhook or by SMTP and   *)
(* logs what became of it, while others edit or delete the channel; a      *)
(* preview builds one without sending it.                                  *)
(*                                                                         *)
(* A day is a tick of "today"; a channel's label, its "enabled" and its    *)
(* schedule are stored and nothing reads them again: no code sends a       *)
(* digest but the test.  Wording and escaping are left out of a payload,   *)
(* what evidence it shows is not.                                          *)
(***************************************************************************)
EXTENDS Integers, Sequences, FiniteSets, FiniteSetsExt, SequencesExt

CONSTANTS
  Channel,          \* rows of notification_channels over time
  ChannelKind,      \* of the kinds validChannelKind accepts
  Subscriptions,    \* the sets of digests a request may ask for
  Send,             \* test sends
  FactsAtStart,     \* the day and the rows a behaviour begins with
  MaxWork,          \* rows of pull requests, issues and commits
  AwayEntry,             \* leave entries
  AwayBy, AwayFrom, AwayTo,    \* whose they are, their first and their last day
  WeekDays,         \* 7 in the code
  StaleDays,        \* staleThresholdDays: 7 in the code
  EndOfTime,        \* the last day modelled
  Target,           \* the forms a target may have
  MaxPreviews       \* previews logged

DigestKind == {"weeklyStatus", "stalePRs", "ooo"}
AwayState == {"pending", "approved", "rejected"}

\* What is stored by a day is of that day or before it.
PullOf(day) ==
  {p \in [state : {"open", "merged", "closed"}, created : 1 .. day, merged : 0 .. day] :
     p.state = "merged" <=> p.merged # 0}
IssueOf(day) ==
  [state : {"open", "in_progress", "done", "closed"}, updated : 1 .. day]
WorkBy(w, day) ==
  /\ w = [pulls |-> w.pulls, issues |-> w.issues, commits |-> w.commits]
  /\ w.pulls \in Seq(PullOf(day))
  /\ w.issues \in Seq(IssueOf(day))
  /\ w.commits \in Seq(1 .. day)

ASSUME NotificationAssumption ==
  /\ ChannelKind \subseteq {"slack", "webhook", "discord", "google_chat", "teams", "email"}
  /\ Subscriptions \subseteq SUBSET DigestKind
  /\ IsFiniteSet(Send)
  /\ WeekDays \in Nat \ {0} /\ StaleDays \in Nat /\ EndOfTime \in Nat /\ MaxPreviews \in Nat
  /\ Target \subseteq {"https", "http", "address", "other"}
  /\ AwayFrom \in [AwayEntry -> Int] /\ AwayTo \in [AwayEntry -> Int]
  /\ \A l \in AwayEntry : AwayFrom[l] <= AwayTo[l]
  /\ \A facts0 \in FactsAtStart :
       /\ facts0.today \in 1 .. EndOfTime
       /\ WorkBy(facts0.work, facts0.today)
       /\ facts0.away \in [AwayEntry -> AwayState]

VARIABLES
  channels,   \* notification_channels: channel -> row
  log,        \* notification_log: how many rows there are of each kind and status
  sends,      \* what each test send is doing
  inbox,      \* what arrived where the channels point
  smtp,       \* whether the server has SMTP_HOST
  today,
  work,       \* pull requests, issues and commits, as stored
  away,       \* leave_entries: their status
  reading      \* the reads of a weekly status being built

notificationVars == <<channels, log, sends, inbox, smtp, today, work, away, reading>>

LogRow == [kind : DigestKind, status : {"sent", "failed", "preview"}]

NoSend ==
  [phase |-> "idle", channel |-> {}, asked |-> <<>>, left |-> <<>>, digest |-> <<>>,
   outcome |-> "", results |-> <<>>, unlogged |-> {}, unsure |-> {}]
NoWork == [pulls |-> <<>>, issues |-> <<>>, commits |-> <<>>]
NoStatus == [got |-> <<>>, torn |-> FALSE]

NotificationTypeOK ==
  /\ DOMAIN channels \subseteq Channel
  /\ \A c \in DOMAIN channels :
       channels[c] \in [kind : ChannelKind, target : Target, digests : SUBSET DigestKind,
                        gone : BOOLEAN]
  /\ log \in [LogRow -> Nat]
  /\ \A s \in Send : sends[s].phase \in
       {"idle", "build", "deliver", "log", "done", "refused", "not found"}
  /\ \A m \in inbox : m.send \in Send /\ m.kind \in DigestKind
  /\ smtp \in BOOLEAN
  /\ today \in 1 .. EndOfTime
  /\ WorkBy(work, today)
  /\ away \in [AwayEntry -> AwayState]
  /\ Len(reading.got) <= 4 /\ reading.torn \in BOOLEAN

NotificationInit ==
  /\ channels = <<>> /\ log = [row \in LogRow |-> 0] /\ inbox = {}
  /\ sends = [s \in Send |-> NoSend]
  /\ smtp \in BOOLEAN
  /\ \E facts0 \in FactsAtStart :
       today = facts0.today /\ work = facts0.work /\ away = facts0.away
  /\ reading = NoStatus

-----------------------------------------------------------------------------
\* Reading the evidence.  A week begins on day 1, 1 + WeekDays, ...

DayOfWeek(d) == d % WeekDays
startOfWeek(d) == d - ((DayOfWeek(d) + WeekDays - 1) % WeekDays)

Merged(p) == p.merged # 0
ListStalePRs ==
  {n \in DOMAIN work.pulls :
     LET p == work.pulls[n]
     IN p.state = "open" /\ ~Merged(p) /\ p.created < today - StaleDays}

\* The window of ListOOOInPeriod is half open; the entry's own dates are not.
ListOOOInPeriod(from, to) ==
  {l \in AwayEntry : away[l] = "approved" /\ AwayFrom[l] < to /\ AwayTo[l] >= from}
countDistinctPeople(ls) == Cardinality({AwayBy[l] : l \in ls})

IsOver(i) == i.state \in {"done", "closed"}
Between(day, from, to) == from <= day /\ day < to
CountRows(rows, Test(_)) == Cardinality({n \in DOMAIN rows : Test(rows[n])})

WeeklyShippedCounts(from, to) ==
  [issues |-> CountRows(work.issues, LAMBDA i : IsOver(i) /\ Between(i.updated, from, to)),
   pulls |-> CountRows(work.pulls, LAMBDA p : Merged(p) /\ Between(p.merged, from, to)),
   commits |-> CountRows(work.commits, LAMBDA c : Between(c, from, to))]
IssueStateRollup ==
  [s \in {"open", "in_progress", "done"} |-> CountRows(work.issues, LAMBDA i : i.state = s)]
\* The last n weeks back from this instant, per calendar week.
WeeklyThroughput(weeks) ==
  LET recent == {n \in DOMAIN work.issues :
                   /\ IsOver(work.issues[n])
                   /\ work.issues[n].updated >= today - weeks * WeekDays}
      WeekOf(n) == startOfWeek(work.issues[n].updated)
  IN [w \in {WeekOf(n) : n \in recent} |-> Cardinality({n \in recent : WeekOf(n) = w})]
\* The latest eight rows of all three tables: that there are any is what counts.
RecentActivity == Len(work.pulls) + Len(work.issues) + Len(work.commits)

\* A digest: its metrics and its lines; empty, it is but its reason.
Digest(kind, metrics, lines, empty) ==
  [kind |-> kind, metrics |-> metrics, lines |-> lines, empty |-> empty]

StalePRs ==
  Digest("stalePRs", <<Cardinality(ListStalePRs)>>, ListStalePRs, ListStalePRs = {})
OOO ==
  LET from == startOfWeek(today) + WeekDays
      entries == ListOOOInPeriod(from, from + WeekDays)
  IN Digest("ooo", <<countDistinctPeople(entries)>>, entries, entries = {})

StatusRead(n) ==
  LET from == startOfWeek(today)
  IN CASE n = 1 -> WeeklyShippedCounts(from, from + WeekDays)
       [] n = 2 -> IssueStateRollup
       [] n = 3 -> WeeklyThroughput(6)
       [] n = 4 -> RecentActivity
WeeklyStatus(got) ==
  LET shipped == got[1]
      counts == got[2]
  IN Digest("weeklyStatus", <<shipped.issues, shipped.pulls, shipped.commits>>,
            {counts, got[3]},
            /\ shipped.issues = 0 /\ shipped.pulls = 0 /\ shipped.commits = 0
            /\ counts["open"] = 0 /\ counts["in_progress"] = 0
            /\ got[4] = 0)

Build(kind) ==
  CASE kind = "weeklyStatus" -> WeeklyStatus([n \in 1 .. 4 |-> StatusRead(n)])
    [] kind = "stalePRs" -> StalePRs
    [] kind = "ooo" -> OOO

\* A payload shows the metrics and the lines of a digest that has any; Discord's leaves
\* the period out where there is nothing to report.
Shown(form, d, period) ==
  [form |-> form, period |-> period,
   metrics |-> IF d.empty THEN <<>> ELSE d.metrics,
   lines |-> IF d.empty THEN {} ELSE d.lines]
renderText(d) == Shown("text", d, TRUE)
renderSlack(d) == Shown("blocks", d, TRUE)
renderDiscord(d) == Shown("embed", d, ~d.empty)
renderGoogleChat(d) == Shown("chat", d, TRUE)
renderTeams(d) == Shown("card", d, TRUE)
PayloadFor(kind, d) ==
  CASE kind \in {"slack", "webhook"} -> renderSlack(d)
    [] kind = "discord" -> renderDiscord(d)
    [] kind = "google_chat" -> renderGoogleChat(d)
    [] kind = "teams" -> renderTeams(d)
    [] kind = "email" -> renderText(d)

-----------------------------------------------------------------------------
\* The channels.  Every request of this part is a manager's.

isWebhookKind(k) == k # "email"
ChannelLive(c) == c \in DOMAIN channels /\ ~channels[c].gone

CreateChannel(c, kind, target, digests) ==
  /\ c \notin DOMAIN channels
  /\ isWebhookKind(kind) => target = "https"
  /\ kind = "email" => target = "address"
  /\ channels' = [x \in DOMAIN channels \cup {c} |->
                    IF x = c THEN [kind |-> kind, target |-> target, digests |-> digests,
                                   gone |-> FALSE]
                    ELSE channels[x]]
  /\ UNCHANGED <<log, sends, inbox, smtp, today, work, away, reading>>

\* The target's form is not asked for again.
PatchChannel(c, target, digests) ==
  /\ ChannelLive(c)
  /\ channels' = [channels EXCEPT ![c].target = target, ![c].digests = digests]
  /\ UNCHANGED <<log, sends, inbox, smtp, today, work, away, reading>>

\* The log keeps its rows, whose channel is set to NULL.
DeleteChannel(c) ==
  /\ ChannelLive(c)
  /\ channels' = [channels EXCEPT ![c].gone = TRUE]
  /\ UNCHANGED <<log, sends, inbox, smtp, today, work, away, reading>>

WriteNotificationLog(kind, status_) ==
  log' = [log EXCEPT ![[kind |-> kind, status |-> status_]] = @ + 1]

\* A preview is logged under no channel, if it can be.
Preview(kind) ==
  /\ MapThenSumSet(LAMBDA row : log[row], LogRow) < MaxPreviews
  /\ WriteNotificationLog(kind, "preview")
  /\ UNCHANGED <<channels, sends, inbox, smtp, today, work, away, reading>>

-----------------------------------------------------------------------------
\* The test send.

\* A request that ends before the work does (its client left) makes the step it is in
\* fail, and those after it.
IfAsked(kind, digests) == IF kind \in digests THEN <<kind>> ELSE <<>>
enabledKinds(digests) ==
  IfAsked("weeklyStatus", digests) \o IfAsked("stalePRs", digests) \o IfAsked("ooo", digests)

LoadChannel(s, c) ==
  /\ sends[s].phase = "idle"
  /\ c \in DOMAIN channels
  /\ LET row == channels[c]
         kinds == enabledKinds(row.digests)
     IN sends' = [sends EXCEPT ![s] =
          IF row.gone THEN [@ EXCEPT !.phase = "not found"]
          ELSE IF kinds = <<>> THEN [@ EXCEPT !.phase = "refused"]
          ELSE [@ EXCEPT !.phase = "build", !.asked = kinds, !.left = kinds,
                         !.channel = {[id |-> c, kind |-> row.kind, target |-> row.target]}]]
  /\ UNCHANGED <<channels, log, inbox, smtp, today, work, away, reading>>

Loaded(s) == CHOOSE row \in sends[s].channel : TRUE
Now(s) == Head(sends[s].left)
Outcome(s, outcome) ==
  [sends EXCEPT ![s].phase = "log", ![s].outcome = outcome, ![s].digest = <<>>]

BuildDigest(s) ==
  /\ sends[s].phase = "build"
  /\ sends' = IF Loaded(s).kind = "email" /\ ~smtp
              THEN Outcome(s, "skipped")
              ELSE [sends EXCEPT ![s].phase = "deliver", ![s].digest = <<Build(Now(s))>>]
  /\ UNCHANGED <<channels, log, inbox, smtp, today, work, away, reading>>

BuildFails(s) ==
  /\ sends[s].phase = "build"
  /\ sends' = Outcome(s, "failed")
  /\ UNCHANGED <<channels, log, inbox, smtp, today, work, away, reading>>

\* Whether a delivery to the loaded target can get anywhere.
Reachable(row) ==
  IF isWebhookKind(row.kind) THEN row.target \in {"http", "https"} ELSE row.target = "address"
Arrival(s) ==
  [send |-> s, kind |-> Now(s), payload |-> PayloadFor(Loaded(s).kind, Head(sends[s].digest))]

Deliver(s) ==
  /\ sends[s].phase = "deliver" /\ Reachable(Loaded(s))
  /\ inbox' = inbox \cup {Arrival(s)}
  /\ sends' = Outcome(s, "sent")
  /\ UNCHANGED <<channels, log, smtp, today, work, away, reading>>

\* Refused up front, not answered with a 2xx, or never there.
DeliverFails(s) ==
  /\ sends[s].phase = "deliver"
  /\ sends' = Outcome(s, "failed")
  /\ UNCHANGED <<channels, log, inbox, smtp, today, work, away, reading>>

\* It arrived, but the answer was lost or took more than deliveryTimeout.
DeliverUnanswered(s) ==
  /\ sends[s].phase = "deliver" /\ Reachable(Loaded(s))
  /\ inbox' = inbox \cup {Arrival(s)}
  /\ sends' = [Outcome(s, "failed") EXCEPT ![s].unsure = @ \cup {Arrival(s)}]
  /\ UNCHANGED <<channels, log, smtp, today, work, away, reading>>

\* SendMail goes on after the deadline of its caller, and the mail may arrive then.
DeliverTimesOut(s) ==
  /\ sends[s].phase = "deliver" /\ Reachable(Loaded(s)) /\ Loaded(s).kind = "email"
  /\ sends' = [Outcome(s, "failed") EXCEPT ![s].unsure = @ \cup {Arrival(s)}]
  /\ UNCHANGED <<channels, log, inbox, smtp, today, work, away, reading>>

MailArrivesLate(s) ==
  /\ sends[s].unsure \ inbox # {}
  /\ \E m \in sends[s].unsure : inbox' = inbox \cup {m}
  /\ UNCHANGED <<channels, log, sends, smtp, today, work, away, reading>>

\* The row names the loaded channel, which has to be there still.
MutantLogStatus(outcome) == IF outcome = "failed" THEN "failed" ELSE "sent"
LogStatus(outcome) == IF outcome = "sent" THEN "sent" ELSE "failed"
NextKind(s, logged) ==
  [sends EXCEPT
     ![s].phase = IF Len(sends[s].left) = 1 THEN "done" ELSE "build",
     ![s].left = Tail(@),
     ![s].results = Append(@, [kind |-> Now(s), status |-> sends[s].outcome]),
     ![s].outcome = "",
     ![s].unlogged = IF logged THEN @ ELSE @ \cup {Now(s)}]

logSend(s) ==
  /\ sends[s].phase = "log"
  /\ ChannelLive(Loaded(s).id)
  /\ WriteNotificationLog(Now(s), LogStatus(sends[s].outcome))
  /\ sends' = NextKind(s, TRUE)
  /\ UNCHANGED <<channels, inbox, smtp, today, work, away, reading>>

logSendFails(s) ==
  /\ sends[s].phase = "log"
  /\ sends' = NextKind(s, FALSE)
  /\ UNCHANGED <<channels, log, inbox, smtp, today, work, away, reading>>

SendNext ==
  \/ \E c \in Channel, kind \in ChannelKind, target \in Target, ds \in Subscriptions :
       CreateChannel(c, kind, target, ds)
  \/ \E c \in DOMAIN channels, target \in Target :
       PatchChannel(c, target, channels[c].digests)
  \/ \E c \in DOMAIN channels, ds \in Subscriptions :
       PatchChannel(c, channels[c].target, ds)
  \/ \E c \in Channel : DeleteChannel(c)
  \/ \E s \in Send, c \in Channel : LoadChannel(s, c)
  \/ \E s \in Send :
       \/ BuildDigest(s)
       \/ BuildFails(s)
       \/ Deliver(s)
       \/ DeliverFails(s)
       \/ DeliverUnanswered(s)
       \/ DeliverTimesOut(s)
       \/ MailArrivesLate(s)
       \/ logSend(s)
       \/ logSendFails(s)

SendSpec == NotificationInit /\ [][SendNext]_notificationVars

-----------------------------------------------------------------------------
\* The evidence changes.  now() is an instant of the transaction, so a digest is built
\* on one day; its statements read what is committed when each begins.

Torn ==
  reading' = IF Len(reading.got) \in {0, 4} THEN NoStatus
             ELSE [reading EXCEPT !.torn = TRUE]
MoreWork == Len(work.pulls) + Len(work.issues) + Len(work.commits) < MaxWork

\* A sync or a delivery may come late: the dates are the platform's.
MergeDate(state, created) == IF state = "merged" THEN created .. today ELSE {0}

StorePull(state, created, merged) ==
  /\ MoreWork /\ created <= today /\ merged \in MergeDate(state, created)
  /\ work' = [work EXCEPT !.pulls =
                 Append(@, [state |-> state, created |-> created, merged |-> merged])]
  /\ Torn
  /\ UNCHANGED <<channels, log, sends, inbox, smtp, today, away>>

\* The row takes what the platform says now: it was merged or closed, or is open again.
ChangePull(n, state, merged) ==
  /\ work.pulls[n].state # "merged" /\ merged \in MergeDate(state, work.pulls[n].created)
  /\ work' = [work EXCEPT !.pulls[n].state = state, !.pulls[n].merged = merged]
  /\ Torn
  /\ UNCHANGED <<channels, log, sends, inbox, smtp, today, away>>

\* updated_at is the platform's too, but of a person's or an import's write it is today.
StoreIssue(state, day) ==
  /\ MoreWork /\ day <= today
  /\ work' = [work EXCEPT !.issues = Append(@, [state |-> state, updated |-> day])]
  /\ Torn
  /\ UNCHANGED <<channels, log, sends, inbox, smtp, today, away>>

ChangeIssue(n, state, day) ==
  /\ day <= today
  /\ work' = [work EXCEPT !.issues[n] = [state |-> state, updated |-> day]]
  /\ Torn
  /\ UNCHANGED <<channels, log, sends, inbox, smtp, today, away>>

StoreCommit(day) ==
  /\ MoreWork /\ day <= today
  /\ work' = [work EXCEPT !.commits = Append(@, day)]
  /\ Torn
  /\ UNCHANGED <<channels, log, sends, inbox, smtp, today, away>>

DecideAway(l, verdict) ==
  /\ away[l] # verdict
  /\ away' = [away EXCEPT ![l] = verdict]
  /\ UNCHANGED <<channels, log, sends, inbox, smtp, today, work, reading>>

NextDay ==
  /\ today < EndOfTime /\ Len(reading.got) \in {0, 4}
  /\ today' = today + 1 /\ reading' = NoStatus
  /\ UNCHANGED <<channels, log, sends, inbox, smtp, work, away>>

ReadStatus ==
  /\ Len(reading.got) < 4
  /\ reading' = [reading EXCEPT !.got = Append(@, StatusRead(Len(@) + 1))]
  /\ UNCHANGED <<channels, log, sends, inbox, smtp, today, work, away>>

\* No digest reads the date of an issue that is not over: one will do.
DatesOf(state) == IF state = "done" THEN 1 .. EndOfTime ELSE {today}

DigestNext ==
  \/ \E state \in {"open", "merged", "closed"}, created \in 1 .. EndOfTime,
        merged \in 0 .. EndOfTime : StorePull(state, created, merged)
  \/ \E n \in DOMAIN work.pulls, state \in {"open", "merged", "closed"},
        merged \in 0 .. EndOfTime : ChangePull(n, state, merged)
  \/ \E state \in {"open", "done"} : \E day \in DatesOf(state) : StoreIssue(state, day)
  \/ \E n \in DOMAIN work.issues, state \in {"open", "in_progress", "done"} :
        \E day \in DatesOf(state) : ChangeIssue(n, state, day)
  \/ \E day \in 1 .. EndOfTime : StoreCommit(day)
  \/ \E l \in AwayEntry, verdict \in {"approved", "rejected"} : DecideAway(l, verdict)
  \/ NextDay
  \/ ReadStatus
  \/ \E kind \in DigestKind : Preview(kind)

DigestSpec == NotificationInit /\ [][DigestNext]_notificationVars

-----------------------------------------------------------------------------
\* What a digest says, told without windows.

WeekNo(d) == (d - 1) \div WeekDays
ThisWeek(d) == WeekNo(d) = WeekNo(today)
NextWeek == {d \in 1 .. (EndOfTime + 2 * WeekDays) : WeekNo(d) = WeekNo(today) + 1}
OutNextWeek ==
  {l \in AwayEntry : away[l] = "approved" /\ NextWeek \cap (AwayFrom[l] .. AwayTo[l]) # {}}
LongOpen ==
  {n \in DOMAIN work.pulls :
     work.pulls[n].state = "open" /\ today \notin
       work.pulls[n].created .. (work.pulls[n].created + StaleDays)}
ShippedThisWeek ==
  [issues |-> CountRows(work.issues, LAMBDA i : IsOver(i) /\ ThisWeek(i.updated)),
   pulls |-> CountRows(work.pulls, LAMBDA p : p.state = "merged" /\ ThisWeek(p.merged)),
   commits |-> CountRows(work.commits, LAMBDA c : ThisWeek(c))]

\* A digest lists who is away on some day of the coming week and the pull requests open
\* for longer than StaleDays; a weekly status whose rows stood still while it was read
\* counts what this calendar week shipped; and whatever was written in between, it says
\* there is nothing to report only where nothing is tracked at all
\* (internal/notifications/digest.go, internal/store/notifications.go).
DigestsTrue ==
  /\ OOO.lines = OutNextWeek
  /\ StalePRs.lines = LongOpen
  /\ Len(reading.got) = 4 =>
       LET d == WeeklyStatus(reading.got)
       IN /\ ~reading.torn => d.metrics = <<ShippedThisWeek.issues, ShippedThisWeek.pulls,
                                            ShippedThisWeek.commits>>
          /\ d.empty => work = NoWork
          /\ (~reading.torn /\ work = NoWork) => d.empty

ResultsOf(s, status_) ==
  {k \in DigestKind : \E n \in DOMAIN sends[s].results :
     sends[s].results[n] = [kind |-> k, status |-> status_]}
ArrivedOf(s) == {m.kind : m \in {m \in inbox : m.send = s}}
LogRows(kind, status_) == log[[kind |-> kind, status |-> status_]]
Concluded(s) == {sends[s].results[n].kind : n \in DOMAIN sends[s].results}

\* A test send answers once for each digest its channel subscribed to when it was
\* loaded, in their order; one it calls sent has arrived, and one that arrived was called
\* sent or lost its answer; the log counts as sent exactly those the answers do, less
\* the rows that could not be written; what arrived shows the evidence there was.
\* Edits and the deletion of the channel meanwhile change none of this
\* (internal/api/notifications.go, testSend).
SendsTold ==
  /\ \A s \in Send :
       /\ sends[s].phase = "done" =>
            [n \in DOMAIN sends[s].results |-> sends[s].results[n].kind] = sends[s].asked
       /\ ResultsOf(s, "sent") \subseteq ArrivedOf(s)
       /\ ArrivedOf(s) \cap Concluded(s) \subseteq
            ResultsOf(s, "sent") \cup {m.kind : m \in sends[s].unsure}
  /\ \A k \in DigestKind :
       LogRows(k, "sent") =
         Cardinality({s \in Send : k \in ResultsOf(s, "sent") \ sends[s].unlogged})
  /\ \A m \in inbox :
       m.kind # "weeklyStatus" =>
         m.payload.lines = IF m.kind = "ooo" THEN OutNextWeek ELSE LongOpen

NotificationsSound == DigestsTrue /\ SendsTold

\* "Every send/preview writes a notification_log row" (api/notifications.go, the package
\* comment) does not hold: the row is lost with the channel it names, or with the
\* request's context.
EverySendLogged == \A s \in Send : sends[s].unlogged = {}
\* Nor does the https rule of createChannel outlive a patch of the target.
HttpsTargets ==
  \A c \in DOMAIN channels : isWebhookKind(channels[c].kind) => channels[c].target = "https"
=============================================================================
