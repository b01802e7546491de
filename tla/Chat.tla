-------------------------------- MODULE Chat --------------------------------
(***************************************************************************)
(* One turn of the chat assistant (POST /api/chat in                       *)
(* src/internal/api/chat.go): the engine asks the model, reads its answer  *)
(* as a stream, runs the tools it calls, tells it their results and asks   *)
(* again (src/internal/chat/engine.go, src/internal/llm/openai.go), while  *)
(* the client is sent an event of each step and may leave at any of them.  *)
(*                                                                         *)
(* A call of a tool is what one frame of the stream holds of it: a         *)
(* provider that sends a call in pieces makes a call of each piece.  The   *)
(* result of a read tool and the contents of the action are left out.      *)
(***************************************************************************)
EXTENDS Integers, Sequences, FiniteSets

CONSTANTS
  MaxIterations, \* times the model is asked
  MaxFrames      \* frames of an answer (bound)

ASSUME ChatAssumption == MaxIterations \in Nat \ {0} /\ MaxFrames \in Nat

VARIABLES
  engine,   \* where Run stands
  convo,    \* the messages the model is shown, from the user's on
  answer,   \* what of the model's answer has been read
  calls,    \* the calls of the answer that are still to run
  events,   \* what the client was sent
  client    \* "there", "missed" when an event could not be sent, "left"

chatVars == <<engine, convo, answer, calls, events, client>>

\* The arguments of a call may be absent, which reads {}, or be no JSON at all.
Call == [tool : {"read", "propose", "unknown"}, args : {"none", "json", "broken"}]
NoCall == [tool |-> "unknown", args |-> "none"]
NoAnswer == [frames |-> 0, calls |-> <<>>]

Message ==
  [role : {"user"}] \cup [role : {"assistant"}, calls : Seq(Call)]
    \cup [role : {"tool"}, call : Call, ok : BOOLEAN]
Event ==
  [type : {"token", "tool_call", "tool_result", "action", "done", "error"},
   call : Call, ok : BOOLEAN]

ToolMessage(c, ok) == [role |-> "tool", call |-> c, ok |-> ok]
AssistantMessage(cs) == [role |-> "assistant", calls |-> cs]
Told(type, c) == [type |-> type, call |-> c, ok |-> TRUE]
Result(c, ok) == [type |-> "tool_result", call |-> c, ok |-> ok]

ChatTypeOK ==
  /\ engine \in {"reading", "calling", "running", "proposing", "ended"}
  /\ convo \in Seq(Message) /\ convo # <<>>
  /\ answer \in [frames : 0 .. MaxFrames, calls : Seq(Call)] /\ calls \in Seq(Call)
  /\ events \in Seq(Event)
  /\ client \in {"there", "missed", "left"}

ChatInit ==
  /\ engine = "reading"
  /\ convo = <<[role |-> "user"]>>
  /\ answer = NoAnswer
  /\ calls = <<>>
  /\ events = <<>>
  /\ client = "there"

-----------------------------------------------------------------------------
\* The client goes away: what is emitted from here on is not sent.
ClientLeaves ==
  /\ engine # "ended"
  /\ client = "there"
  /\ client' = "left"
  /\ UNCHANGED <<engine, convo, answer, calls, events>>

\* An event is sent and the engine goes on to the next step, or it is not and Run
\* returns.
Emit(told, next) ==
  IF client = "there" THEN events' = Append(events, told) /\ engine' = next
  ELSE engine' = "ended" /\ UNCHANGED events

\* A frame of the answer: some text, which is not emitted once one was not sent.
ReadToken ==
  /\ engine = "reading"
  /\ answer.frames < MaxFrames
  /\ answer' = [answer EXCEPT !.frames = @ + 1]
  /\ IF client = "there" THEN events' = Append(events, Told("token", NoCall)) /\ UNCHANGED client
     ELSE client' = "missed" /\ UNCHANGED events
  /\ UNCHANGED <<engine, convo, calls>>

\* A frame that calls a tool.
ReadCall(c) ==
  /\ engine = "reading"
  /\ answer.frames < MaxFrames
  /\ answer' = [answer EXCEPT !.frames = @ + 1, !.calls = Append(@, c)]
  /\ UNCHANGED <<engine, convo, calls, events, client>>

\* The request or the reading of the answer fails.
ModelFails ==
  /\ engine = "reading"
  /\ engine' = "ended"
  /\ events' = IF client = "there" THEN Append(events, Told("error", NoCall)) ELSE events
  /\ UNCHANGED <<convo, answer, calls, client>>

\* The end of the stream, said or not.  An answer without calls is the last one.
EndOfAnswer ==
  /\ engine = "reading"
  /\ answer' = NoAnswer
  /\ IF client = "missed"
     THEN engine' = "ended" /\ UNCHANGED <<convo, calls, events>>
     ELSE IF answer.calls = <<>>
     THEN Emit(Told("done", NoCall), "ended") /\ UNCHANGED <<convo, calls>>
     ELSE /\ convo' = Append(convo, AssistantMessage(answer.calls))
          /\ calls' = answer.calls
          /\ engine' = "calling"
          /\ UNCHANGED events
  /\ UNCHANGED client

-----------------------------------------------------------------------------
\* runToolCall: the call is announced, with its arguments, which must be JSON.
AnnounceCall ==
  /\ engine = "calling"
  /\ calls # <<>>
  /\ IF Head(calls).args = "broken" THEN engine' = "ended" /\ UNCHANGED events
     ELSE Emit(Told("tool_call", Head(calls)), "running")
  /\ UNCHANGED <<convo, answer, calls, client>>

\* A failure is told the client only: a plausible slip.
MutantAnswer(ok) ==
  /\ convo' = IF ok THEN Append(convo, ToolMessage(Head(calls), ok)) ELSE convo
  /\ calls' = Tail(calls)

\* The message of a call goes to the model, and the next one is run.
Answer(ok) ==
  /\ convo' = Append(convo, ToolMessage(Head(calls), ok))
  /\ calls' = Tail(calls)

\* The handler ends.  An unknown tool, or one that proposes and lacks its
\* arguments, has failed, and a read may fail; either way the model is told.
RunCall(ok) ==
  LET c == Head(calls)
      proposed == ok /\ c.tool = "propose"
  IN /\ engine = "running"
     /\ ok => c.tool # "unknown" /\ (c.tool = "propose" => c.args = "json")
     /\ Emit(Result(c, ok), IF proposed THEN "proposing" ELSE "calling")
     /\ IF proposed \/ client # "there" THEN UNCHANGED <<convo, calls>> ELSE Answer(ok)
     /\ UNCHANGED <<answer, client>>

\* The button of a proposed action.
Propose ==
  /\ engine = "proposing"
  /\ Emit(Told("action", Head(calls)), "calling")
  /\ IF client = "there" THEN Answer(TRUE) ELSE UNCHANGED <<convo, calls>>
  /\ UNCHANGED <<answer, client>>

Iterations == Cardinality({i \in DOMAIN convo : convo[i].role = "assistant"})

\* Every call has run: the model is asked again, unless this was the last time.
AskAgain ==
  /\ engine = "calling"
  /\ calls = <<>>
  /\ IF Iterations < MaxIterations THEN engine' = "reading" /\ UNCHANGED events
     ELSE Emit(Told("done", NoCall), "ended")
  /\ UNCHANGED <<convo, answer, calls, client>>

ChatNext ==
  \/ ClientLeaves
  \/ ReadToken
  \/ \E c \in Call : ReadCall(c)
  \/ ModelFails
  \/ EndOfAnswer
  \/ AnnounceCall
  \/ \E ok \in BOOLEAN : RunCall(ok)
  \/ Propose
  \/ AskAgain

ChatSpec == ChatInit /\ [][ChatNext]_chatVars

-----------------------------------------------------------------------------
\* Whenever the model is asked, each of its turns is followed by one message for
\* each call of it, in their order, before its next turn: a provider refuses
\* anything else, and the answer would be lost.
CallsAnswered ==
  engine = "reading" =>
    \A i \in DOMAIN convo : convo[i].role = "assistant" =>
      LET n == Len(convo[i].calls)
      IN /\ i + n <= Len(convo)
         /\ \A k \in 1 .. n : convo[i + k].role = "tool" /\ convo[i + k].call = convo[i].calls[k]
         /\ i + n < Len(convo) => convo[i + n + 1].role = "assistant"

\* The messages of calls among the first n, and the results among the first n events.
Replies(n) == {i \in 1 .. n : convo[i].role = "tool"}
Results(n) == {e \in 1 .. n : events[e].type = "tool_result"}

Proposed(e) == events[e].type = "tool_result" /\ events[e].ok /\ events[e].call.tool = "propose"
EndsAnswer(e) == events[e].type \in {"done", "error"}

\* What the model is told of its nth call, the client was told before: the nth result.
ToldAlike ==
  \A i \in Replies(Len(convo)) : \E e \in Results(Len(events)) :
    /\ Cardinality(Results(e)) = Cardinality(Replies(i))
    /\ events[e].call = convo[i].call /\ events[e].ok = convo[i].ok

\* The result of each proposal is followed by its button, and no other button is shown.
ButtonsShown ==
  /\ client = "there" /\ engine # "proposing" =>
       \A e \in DOMAIN events : Proposed(e) =>
         e + 1 \in DOMAIN events /\ events[e + 1] = Told("action", events[e].call)
  /\ \A e \in DOMAIN events : events[e].type = "action" =>
       e > 1 /\ Proposed(e - 1) /\ events[e - 1].call = events[e].call

\* A client that stays is told at the end, once and last, that the answer is done or
\* that it failed; or a call's arguments were no JSON, which ends the stream without a
\* word.
EndTold ==
  /\ \A e \in DOMAIN events : EndsAnswer(e) => e = Len(events) /\ engine = "ended"
  /\ engine = "ended" /\ client = "there" =>
       \/ events # <<>> /\ EndsAnswer(Len(events))
       \/ \E i \in DOMAIN calls : calls[i].args = "broken"

ChatSound == CallsAnswered /\ ToldAlike /\ ButtonsShown /\ EndTold

\* What Run's comment says (engine.go:111): a failure is told as an error event
\* before Run returns.  False of the code: arguments that are no JSON cannot be
\* told, and the stream ends there.
FailureTold ==
  engine = "ended" /\ client = "there" => events # <<>> /\ EndsAnswer(Len(events))
=============================================================================
