------------------------------- MODULE Leave -------------------------------
(***************************************************************************)
(* Leave requests of one member: how deciding on them keeps the balance of *)
(* days used per year (src/internal/api/capacity.go, createLeave and       *)
(* approveLeave; src/internal/store/leave.go) and mirrors approved leave   *)
(* as events on the member's calendars (src/internal/api/calendar.go,      *)
(* PushApprovedLeave; src/internal/calendar).                              *)
(*                                                                         *)
(* A decision is one READ COMMITTED transaction: it updates the entry,     *)
(* which locks its row, counts the approved days of the year the entry     *)
(* starts in, and writes the count; what others commit between the count   *)
(* and the write is not in it.  The push is a series of calls and          *)
(* transactions after it, any of which may fail without failing the        *)
(* decision.  All entries carry the same leave type.                       *)
(***************************************************************************)
EXTENDS Integers, FiniteSets, FiniteSetsExt

CONSTANTS
  Entry,       \* leave_entries of the member
  Approver,    \* requests that decide on one
  Year,        \* years whose balances matter
  Days,        \* [Entry -> [Year -> Nat]]: the days of an entry within a year
  StartYear,   \* [Entry -> Year]
  PushTo,      \* calendars of the member with push_leave set
  MaxEvents    \* calendar events ever inserted (bound)

ASSUME LeaveAssumption ==
  /\ Days \in [Entry -> [Year -> Nat]]
  /\ StartYear \in [Entry -> Year]
  /\ PushTo \subseteq {"google", "microsoft"}
  /\ MaxEvents \in Nat

VARIABLES
  entry,       \* [Entry -> status]
  taken,       \* [Year -> Nat]: leave_balances.used_days
  unseen,      \* [Year -> entries a balance does not reflect, and cannot]
  decision,    \* [Approver -> where the request stands]
  event,       \* events on the calendars
  inserted,        \* how many were ever inserted
  link,        \* [Entry -> calendar_event_id with calendar_provider]
  loose        \* events no link was or stays recorded for, for a known reason

leaveVars == <<entry, taken, unseen, decision, event, inserted, link, loose>>

Verdict == {"approved", "rejected"}
Event == [id : 1 .. MaxEvents, at : PushTo, of : Entry]
NoEvent == [id |-> 0]
Waiting == [step |-> "none"]

Decisions ==
  [step : {"decided"}, of : Entry, to : Verdict]
    \cup [step : {"counted"}, of : Entry, to : Verdict, days : Nat, past : SUBSET Entry]
    \cup [step : {"committed"}, of : Entry]
    \cup [step : {"push"}, of : Entry, prev : Event \cup {NoEvent}, todo : SUBSET PushTo]
    \cup [step : {"pushed"}, of : Entry, prev : Event \cup {NoEvent}, todo : SUBSET PushTo,
          got : Event]

LeaveTypeOK ==
  /\ entry \in [Entry -> Verdict \cup {"none", "pending"}]
  /\ taken \in [Year -> Nat]
  /\ unseen \in [Year -> SUBSET Entry]
  /\ \A a \in Approver : decision[a] = Waiting \/ decision[a] \in Decisions
  /\ event \subseteq Event
  /\ inserted \in 0 .. MaxEvents
  /\ link \in [Entry -> Event \cup {NoEvent}]
  /\ loose \subseteq Event

LeaveInit ==
  /\ entry = [e \in Entry |-> "none"]
  /\ taken = [y \in Year |-> 0]
  /\ unseen = [y \in Year |-> {}]
  /\ decision = [a \in Approver |-> Waiting]
  /\ event = {}
  /\ inserted = 0
  /\ link = [e \in Entry |-> NoEvent]
  /\ loose = {}

-----------------------------------------------------------------------------
\* countApprovedLeaveDays, over the statuses a transaction sees: the approved entries
\* that overlap the year.
ApprovedIn(status, y) == {e \in Entry : status[e] = "approved" /\ Days[e][y] > 0}

SumDays(es, y) == MapThenSumSet(LAMBDA e : Days[e][y], es)

CountApproved(status, y) == SumDays(ApprovedIn(status, y), y)

EntryLocked(e) ==
  \E a \in Approver : decision[a].step \in {"decided", "counted"} /\ decision[a].of = e

Decided(a, d) == decision' = [decision EXCEPT ![a] = d]

\* What follows the calendar just dealt with.
Onward(a, todo) ==
  IF todo = {} THEN Waiting
  ELSE [step |-> "push", of |-> decision[a].of, prev |-> decision[a].prev, todo |-> todo]

\* ListCalendarConnectionsForUser orders by provider.
Turn(todo) == IF "google" \in todo THEN "google" ELSE "microsoft"

-----------------------------------------------------------------------------
Submit(e) ==
  /\ entry[e] = "none"
  /\ entry' = [entry EXCEPT ![e] = "pending"]
  /\ UNCHANGED <<taken, unseen, decision, event, inserted, link, loose>>

\* ApproveLeaveEntry: whatever was decided before may be decided again.
Decide(a, e, to) ==
  /\ decision[a] = Waiting
  /\ entry[e] # "none"
  /\ ~EntryLocked(e)
  /\ Decided(a, [step |-> "decided", of |-> e, to |-> to])
  /\ UNCHANGED <<entry, taken, unseen, event, inserted, link, loose>>

\* RecomputeUsedDays reads: what is committed, and the transaction's own verdict.
\* Mutant: the count is taken before the entry is updated.
MutantSeen(d) == entry
Seen(d) == [entry EXCEPT ![d.of] = d.to]

Count(a) ==
  /\ decision[a].step = "decided"
  /\ LET d == decision[a]
     IN Decided(a, [step |-> "counted", of |-> d.of, to |-> d.to, past |-> {},
                 days |-> CountApproved(Seen(d), StartYear[d.of])])
  /\ UNCHANGED <<entry, taken, unseen, event, inserted, link, loose>>

\* RecomputeUsedDays writes and the transaction commits.  The balances of the other
\* years the entry reaches into are not recomputed, and counts already taken by
\* others miss it.
Recompute(d) ==
  /\ taken' = [taken EXCEPT ![StartYear[d.of]] = d.days]
  /\ unseen' = [y \in Year |->
                  IF y = StartYear[d.of] THEN d.past
                  ELSE IF Days[d.of][y] > 0 THEN unseen[y] \cup {d.of} ELSE unseen[y]]

CommitDecision(a) ==
  /\ decision[a].step = "counted"
  /\ LET d == decision[a]
     IN /\ entry' = [entry EXCEPT ![d.of] = d.to]
        /\ Recompute(d)
        /\ decision' =
             [b \in Approver |->
                CASE b = a -> IF d.to = "approved" THEN [step |-> "committed", of |-> d.of]
                                                   ELSE Waiting
                  [] b # a /\ decision[b].step = "counted" ->
                       [decision[b] EXCEPT !.past = @ \cup {d.of}]
                  [] b # a /\ decision[b].step # "counted" -> decision[b]]
  /\ UNCHANGED <<event, inserted, link, loose>>

\* The transaction fails and rolls back.
Abort(a) ==
  /\ decision[a].step \in {"decided", "counted"}
  /\ Decided(a, Waiting)
  /\ UNCHANGED <<entry, taken, unseen, event, inserted, link, loose>>

-----------------------------------------------------------------------------
\* PushApprovedLeave loads the entry, its link and the calendars again, and goes on
\* only for an entry that is still approved.  The load may fail.
Load(a) ==
  /\ decision[a].step = "committed"
  /\ LET e == decision[a].of
     IN \/ /\ entry[e] = "approved"
           /\ PushTo # {}
           /\ Decided(a, [step |-> "push", of |-> e, prev |-> link[e], todo |-> PushTo])
        \/ Decided(a, Waiting)
  /\ UNCHANGED <<entry, taken, unseen, event, inserted, link, loose>>

\* The event a push passes on to be updated in place: the linked one, when it lies on
\* the calendar at hand.
Existing(d, c) ==
  IF d.prev # NoEvent /\ d.prev.at = c THEN d.prev ELSE NoEvent

NewEvent(a, c) == [id |-> inserted + 1, at |-> c, of |-> decision[a].of]

\* The call for a calendar went through, with the event it answers.
PushedTo(d, c, got) ==
  [step |-> "pushed", of |-> d.of, prev |-> d.prev, todo |-> d.todo \ {c}, got |-> got]

\* PushLeave: the event is updated, or inserted when there is none or it vanished.
Push(a) ==
  /\ decision[a].step = "push"
  /\ LET d    == decision[a]
         c    == Turn(d.todo)
         old  == Existing(d, c)
     IN \/ /\ old \in event
           /\ Decided(a, PushedTo(d, c, old))
           /\ UNCHANGED <<event, inserted>>
        \/ /\ old \notin event
           /\ inserted < MaxEvents
           /\ inserted' = inserted + 1
           /\ event' = event \cup {NewEvent(a, c)}
           /\ Decided(a, PushedTo(d, c, NewEvent(a, c)))
  /\ UNCHANGED <<entry, taken, unseen, link, loose>>

\* The call fails, or its answer is lost after an event was inserted; the next
\* calendar is tried all the same.
PushFails(a) ==
  /\ decision[a].step = "push"
  /\ LET d == decision[a]
         c == Turn(d.todo)
     IN /\ Decided(a, Onward(a, d.todo \ {c}))
        /\ \/ UNCHANGED <<event, inserted, loose>>
           \/ /\ Existing(d, c) \notin event
              /\ inserted < MaxEvents
              /\ inserted' = inserted + 1
              /\ event' = event \cup {NewEvent(a, c)}
              /\ loose' = loose \cup {NewEvent(a, c)}
  /\ UNCHANGED <<entry, taken, unseen, link>>

\* SetLeaveCalendarEvent.  The link holds one event: one of another calendar, or one
\* recorded since this push loaded the link, is forgotten.
Record(a) ==
  /\ decision[a].step = "pushed"
  /\ LET d   == decision[a]
         was == link[d.of]
     IN /\ ~EntryLocked(d.of)
        /\ link' = [link EXCEPT ![d.of] = d.got]
        /\ loose' = IF was # NoEvent /\ (was # d.prev \/ was.at # d.got.at)
                    THEN loose \cup {was} ELSE loose
        /\ Decided(a, Onward(a, d.todo))
  /\ UNCHANGED <<entry, taken, unseen, event, inserted>>

\* Recording fails: the event, if it is new, is known to nobody.
RecordFails(a) ==
  /\ decision[a].step = "pushed"
  /\ loose' = IF link[decision[a].of] = decision[a].got THEN loose
              ELSE loose \cup {decision[a].got}
  /\ Decided(a, Onward(a, decision[a].todo))
  /\ UNCHANGED <<entry, taken, unseen, event, inserted, link>>

\* The member deletes an event on the calendar.
Vanish(v) ==
  /\ v \in event
  /\ event' = event \ {v}
  /\ UNCHANGED <<entry, taken, unseen, decision, inserted, link, loose>>

LeaveNext ==
  \/ \E e \in Entry : Submit(e)
  \/ \E a \in Approver, e \in Entry, to \in Verdict : Decide(a, e, to)
  \/ \E a \in Approver :
       \/ Count(a) \/ CommitDecision(a) \/ Abort(a)
       \/ Load(a) \/ Push(a) \/ PushFails(a) \/ Record(a) \/ RecordFails(a)
  \/ \E v \in event : Vanish(v)

LeaveSpec == LeaveInit /\ [][LeaveNext]_leaveVars

-----------------------------------------------------------------------------
\* The balance of a year is the number of approved days in it, through approvals,
\* rejections and changed minds in any order, unless a decision on another entry
\* committed between its count and its write, or the entry decided starts in another
\* year: "recompute the affected balance so remaining-days stays accurate"
\* (approveLeave).
UsedDaysExact ==
  \A y \in Year : unseen[y] = {} => taken[y] = CountApproved(entry, y)

\* Every event on a calendar is the one its leave entry links to, so that a further
\* push updates it in place, or is just being recorded, unless its answer or its
\* record was lost, another push of the entry ran at the same time, or the link went
\* to another calendar of the member: "safe to call multiple times (idempotent on the
\* stored event id)" (PushApprovedLeave).
EventsTracked ==
  \A v \in event :
    \/ v \in loose
    \/ link[v.of] = v
    \/ \E a \in Approver : decision[a].step = "pushed" /\ decision[a].got = v

\* Both: what follows from a decision, the balance and the events, is settled with it.
LeaveSettled == UsedDaysExact /\ EventsTracked
=============================================================================
