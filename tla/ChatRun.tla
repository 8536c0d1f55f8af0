------------------------------- MODULE ChatRun -------------------------------
(***************************************************************************)
(* The agentic loop of internal/llm/chat for one chat, with the stored     *)
(* history it replays and the Telegram handler that shows its outcome.     *)
(*                                                                         *)
(* A turn is one call of Service.run: a user's message (Reply) or a fired  *)
(* cron task (ExecuteScheduled). Turns of one chat run concurrently, each  *)
(* in its handler's goroutine, and /clear_context runs beside them. A      *)
(* history item names its turn, the step that made it and, when a response *)
(* holds several calls, which one.                                         *)
(***************************************************************************)
EXTENDS Naturals, Sequences, FiniteSets

CONSTANTS
  Replies,    \* turns started by a user's message
  Scheduled,  \* turns started by a cron task
  MaxSteps,   \* Service.maxSteps
  MaxActive,  \* bound: turns of the chat in progress at once
  Fails,      \* whether requests, tools, the database and Telegram may fail
  Clears,     \* whether the user may send /clear_context
  Tools,      \* kinds of function calls the model may make
  NoTool

ASSUME StepsAssumption == MaxSteps \in Nat \ {0} /\ MaxActive \in Nat
ASSUME FlagsAssumption == Fails \in BOOLEAN /\ Clears \in BOOLEAN
ASSUME TurnsAssumption == Replies \cap Scheduled = {}

Turns == Replies \cup Scheduled

\* A tool that returns a text, or a name nothing answers to.
ASSUME ToolsAssumption == Tools \subseteq {"plain", "unknown"} /\ NoTool \notin Tools

Item(type, t, step, n) == [type |-> type, turn |-> t, step |-> step, n |-> n]
Items == [type : {"user", "text", "call", "output"}, turn : Turns,
          step : 0..MaxSteps, n : 0..2]

VARIABLES
  history,   \* inputs_outputs rows of the chat, in id order
  replayed,  \* per turn in progress: the history its session read
  own,       \* per turn in progress: its user item and the items added to its input
  turn       \* per turn: the local state of run and of the handler

vars == <<history, replayed, own, turn>>

Pcs == {"new", "request", "storeUser", "storeItems", "notify", "tool", "storeOutput",
        "deliver", "failed", "done"}

\* text, calls, tool: the last response, until it is used. result: the text of
\* the Result. seen: the chat's last message; "status" is the placeholder.
Results == {"none", "blank", "model", "default"}
Seen == {"nothing", "status", "error"} \cup (Results \ {"none"})
TurnStates == [pc : Pcs, step : 0..MaxSteps, text : BOOLEAN, calls : 0..2,
               tool : Tools \cup {NoTool}, stored : BOOLEAN, used : BOOLEAN,
               result : Results, seen : Seen]

NewTurn == [pc |-> "new", step |-> 0, text |-> FALSE, calls |-> 0, tool |-> NoTool,
            stored |-> FALSE, used |-> FALSE, result |-> "none", seen |-> "nothing"]

Init ==
  /\ history = <<>>
  /\ replayed = [t \in Turns |-> <<>>]
  /\ own = [t \in Turns |-> <<>>]
  /\ turn = [t \in Turns |-> NewTurn]

Persists(t) == t \in Replies
Active(t) == turn[t].pc \notin {"new", "done"}

\* One transaction of InputsOutputsRepo.Append; scheduled turns skip it.
Append_(t, items) == history' = IF Persists(t) THEN history \o items ELSE history

To(t, record) == turn' = [turn EXCEPT ![t] = record]

\* The handler or job returns; the session's input is garbage.
End(t, shown) ==
  /\ To(t, [NewTurn EXCEPT !.pc = "done", !.seen = shown])
  /\ replayed' = [replayed EXCEPT ![t] = <<>>]
  /\ own' = [own EXCEPT ![t] = <<>>]

-----------------------------------------------------------------------------
\* prepareExecutionSession: list the history (replies only), read the memory,
\* open the tool session.
Prepare(t) ==
  /\ turn[t].pc = "new" /\ Cardinality({u \in Turns : Active(u)}) < MaxActive
  /\ replayed' = [replayed EXCEPT ![t] = IF Persists(t) THEN history ELSE <<>>]
  /\ own' = [own EXCEPT ![t] = <<Item("user", t, 0, 0)>>]
  /\ To(t, [turn[t] EXCEPT !.pc = "request"])
  /\ UNCHANGED history

\* createStepResponse: with parallel calls disabled a provider returns at most
\* one call; returning two is one of its failures.
Respond(t, text, calls, tool) ==
  /\ turn[t].pc = "request"
  /\ calls = 2 \/ tool = "unknown" => Fails
  /\ (calls = 0) = (tool = NoTool)
  /\ To(t, [turn[t] EXCEPT !.pc = "storeUser", !.text = text, !.calls = calls, !.tool = tool])
  /\ UNCHANGED <<history, replayed, own>>

\* Mutant: the user item is stored again after every answer.
StoreUserAgain(t) ==
  /\ turn[t].pc = "storeUser"
  /\ Append_(t, <<Item("user", t, 0, 0)>>)
  /\ To(t, [turn[t] EXCEPT !.pc = "storeItems"])
  /\ UNCHANGED <<replayed, own>>

\* appendStoredUserItem: once, and only after the first answer.
StoreUser(t) ==
  /\ turn[t].pc = "storeUser"
  /\ IF turn[t].stored \/ ~Persists(t) THEN UNCHANGED history
     ELSE Append_(t, <<Item("user", t, 0, 0)>>)
  /\ To(t, [turn[t] EXCEPT !.pc = "storeItems", !.stored = Persists(t)])
  /\ UNCHANGED <<replayed, own>>

\* buildHistoryItems: the text, when there is one, then the calls.
ResponseItems(t) ==
  LET s == turn[t].step
  IN  (IF turn[t].text THEN <<Item("text", t, s, 0)>> ELSE <<>>)
        \o [n \in 1..turn[t].calls |-> Item("call", t, s, n)]

\* Mutant: an empty text is always delivered as it is.
FinalText(t) == IF turn[t].text THEN "model" ELSE "blank"

\* buildFinalResult: an empty text gets the default only if no tool was used.
FinalResult(t) == IF turn[t].text THEN "model"
                  ELSE IF turn[t].used THEN "blank" ELSE "default"

\* Mutant: an empty answer is asked for again, and not counted as a step.
StoreItemsRetry(t) ==
  /\ turn[t].pc = "storeItems"
  /\ Append_(t, ResponseItems(t))
  /\ own' = [own EXCEPT ![t] = @ \o ResponseItems(t)]
  /\ LET used == [turn[t] EXCEPT !.text = FALSE, !.calls = 0]
     IN  \/ turn[t].calls = 2 /\ To(t, [used EXCEPT !.pc = "failed"])
         \/ turn[t].calls = 1 /\ To(t, [used EXCEPT !.pc = "notify"])
         \/ turn[t].calls = 0 /\ To(t, IF turn[t].text
                                       THEN [used EXCEPT !.pc = "deliver", !.result = "model"]
                                       ELSE [used EXCEPT !.pc = "request"])
  /\ UNCHANGED replayed

\* appendResponseHistory, then the three ways on: too many calls, none, one.
StoreItems(t) ==
  /\ turn[t].pc = "storeItems"
  /\ Append_(t, ResponseItems(t))
  /\ own' = [own EXCEPT ![t] = @ \o ResponseItems(t)]
  /\ LET used == [turn[t] EXCEPT !.text = FALSE, !.calls = 0]
     IN  \/ turn[t].calls = 2 /\ To(t, [used EXCEPT !.pc = "failed"])
         \/ turn[t].calls = 0 /\ To(t, [used EXCEPT !.pc = "deliver", !.result = FinalResult(t)])
         \/ turn[t].calls = 1 /\ To(t, [used EXCEPT !.pc = "notify"])
  /\ UNCHANGED replayed

\* handleFunctionCall, first part: NotifyToolCall sends the placeholder or edits
\* the one there is; a scheduled turn has no NotifyToolCall.
Notify(t) ==
  /\ turn[t].pc = "notify"
  /\ To(t, IF Persists(t)
           THEN [turn[t] EXCEPT !.pc = "tool", !.used = TRUE, !.seen = "status"]
           ELSE [turn[t] EXCEPT !.pc = "tool", !.used = TRUE])
  /\ UNCHANGED <<history, replayed, own>>

\* executeToolCall: a dispatch on the name alone. A name no tool has is an error, as
\* is a search, a database call or an MCP call that fails.
RunTool(t, fails) ==
  /\ turn[t].pc = "tool"
  /\ turn[t].tool = "unknown" => fails
  /\ fails => Fails \/ turn[t].tool = "unknown"
  /\ To(t, [turn[t] EXCEPT !.pc = IF fails THEN "failed" ELSE "storeOutput", !.tool = NoTool])
  /\ UNCHANGED <<history, replayed, own>>

\* Mutant: the output joins the next request and is not stored.
StoreOutputUnsaved(t) ==
  /\ turn[t].pc = "storeOutput"
  /\ LET next == turn[t].step + 1
     IN  /\ own' = [own EXCEPT ![t] = Append(@, Item("output", t, turn[t].step, 1))]
         /\ To(t, IF next < MaxSteps
                  THEN [turn[t] EXCEPT !.pc = "request", !.step = next]
                  ELSE [turn[t] EXCEPT !.pc = "deliver", !.step = next, !.result = "default"])
  /\ UNCHANGED <<history, replayed>>

\* Mutant: the loop makes one request more.
StoreOutputOneMore(t) ==
  /\ turn[t].pc = "storeOutput"
  /\ LET output == <<Item("output", t, turn[t].step, 1)>>
         next == turn[t].step + 1
     IN  /\ Append_(t, output)
         /\ own' = [own EXCEPT ![t] = @ \o output]
         /\ To(t, IF next <= MaxSteps
                  THEN [turn[t] EXCEPT !.pc = "request", !.step = next]
                  ELSE [turn[t] EXCEPT !.pc = "deliver", !.step = next, !.result = "default"])
  /\ UNCHANGED replayed

\* handleFunctionCall, last part, and the loop of run: after the last step the
\* result is the default text if a tool was used, empty otherwise.
StoreOutput(t) ==
  /\ turn[t].pc = "storeOutput"
  /\ LET output == <<Item("output", t, turn[t].step, 1)>>
         next == turn[t].step + 1
     IN  /\ Append_(t, output)
         /\ own' = [own EXCEPT ![t] = @ \o output]
         /\ To(t, IF next < MaxSteps
                  THEN [turn[t] EXCEPT !.pc = "request", !.step = next]
                  ELSE [turn[t] EXCEPT !.pc = "deliver", !.step = next,
                          !.result = IF turn[t].used THEN "default" ELSE "blank"])
  /\ UNCHANGED replayed

\* deliverChatReply: a new message, or an edit of the placeholder, where an
\* empty text becomes the default. A cron job sends a text unless it is empty.
Deliver(t) ==
  /\ turn[t].pc = "deliver"
  /\ LET r == turn[t].result
         shown == IF Persists(t) /\ turn[t].seen = "status" /\ r = "blank" THEN "default"
                  ELSE IF ~Persists(t) /\ r = "blank" THEN "nothing" ELSE r
     IN  End(t, shown)
  /\ UNCHANGED history

\* Any other call of a step fails or meets the turn's expired context; run returns.
Fail(t) ==
  /\ Fails /\ Active(t) /\ turn[t].pc \notin {"tool", "failed"}
  /\ To(t, [turn[t] EXCEPT !.pc = "failed", !.text = FALSE, !.calls = 0, !.tool = NoTool,
                           !.result = "none"])
  /\ UNCHANGED <<history, replayed, own>>

\* The bot's error handler tells the chat, unless the bot may not write there or
\* the message is refused; a cron job only logs.
Report(t) ==
  /\ turn[t].pc = "failed"
  /\ \/ Persists(t) /\ End(t, "error")
     \/ (Persists(t) => Fails) /\ End(t, turn[t].seen)
  /\ UNCHANGED history

\* /clear_context, at any time: Clear deletes the rows with a context of its own.
Clear ==
  /\ Clears /\ history # <<>>
  /\ history' = <<>>
  /\ UNCHANGED <<replayed, own, turn>>

\* The process dies: the turns in progress are gone; the history, and what the
\* chat was shown, stay.
Die ==
  /\ Fails /\ \E t \in Turns : Active(t)
  /\ turn' = [t \in Turns |-> IF Active(t) THEN [NewTurn EXCEPT !.pc = "done", !.seen = turn[t].seen]
                          ELSE turn[t]]
  /\ replayed' = [t \in Turns |-> <<>>] /\ own' = [t \in Turns |-> <<>>]
  /\ UNCHANGED history

TurnNext(t) ==
  \/ Prepare(t)
  \/ \E text \in BOOLEAN, calls \in 0..2, tool \in Tools \cup {NoTool} :
       Respond(t, text, calls, tool)
  \/ StoreUser(t) \/ StoreItems(t) \/ Notify(t) \/ StoreOutput(t)
  \/ \E fails \in BOOLEAN : RunTool(t, fails)
  \/ Deliver(t) \/ Fail(t) \/ Report(t)

Next == Clear \/ Die \/ \E t \in Turns : TurnNext(t)

Spec == Init /\ [][Next]_vars

\* Every call of a reply's turn ends, for its context has a deadline. A job's
\* context has none: a tool of a scheduled turn may keep it waiting for ever.
FairSpec == Spec /\ \A t \in Replies : WF_vars(TurnNext(t))

-----------------------------------------------------------------------------
(* Properties.                                                             *)

TypeOK ==
  /\ history \in Seq(Items)
  /\ replayed \in [Turns -> Seq(Items)]
  /\ own \in [Turns -> Seq(Items)]
  /\ turn \in [Turns -> TurnStates]

\* The rows of turn t are the last part of seq: each has a place in it after which
\* both go on with the same items, so no row is missing, doubled or out of order.
IsTail(rows, t, seq) ==
  \A i \in DOMAIN rows : rows[i].turn = t =>
    \E k \in DOMAIN seq :
      /\ seq[k] = rows[i]
      /\ \A l \in (k + 1)..Len(seq) : \E j \in (i + 1)..Len(rows) : rows[j] = seq[l]
      /\ \A j \in (i + 1)..Len(rows) : rows[j].turn = t =>
           \E l \in (k + 1)..Len(seq) : seq[l] = rows[j]

\* What is stored of a turn is the last part of what its own requests held, in
\* that order: other turns, a clearing or a failure never leave a gap in it.
StoredIsSuffix == \A t \in Turns : Active(t) => IsTail(history, t, own[t])

\* The call at i is answered later in the sequence by its output.
HasOutput(seq, i) == \E k \in (i + 1)..Len(seq) : seq[k] = [seq[i] EXCEPT !.type = "output"]

\* A turn that delivered an answer leaves no call of its own unanswered in the
\* history, whatever ran or was cleared beside it. A turn that failed may: the call
\* of a tool that failed stays there without an output.
DeliveredAnswered ==
  \A t \in Replies : turn[t].pc = "done" /\ turn[t].seen \in {"model", "default"} =>
    \A i \in DOMAIN history : history[i].turn = t /\ history[i].type = "call" =>
      HasOutput(history, i)

\* Nobody is shown an empty message: a turn whose final text is empty has used
\* a tool, so the placeholder the default text replaces is there.
NeverBlank == \A t \in Turns : turn[t].seen # "blank"

\* Every reply that is begun comes to an end, within MaxSteps requests, whatever
\* the scheduled turns beside it do.
TurnsEnd == \A t \in Replies : Active(t) ~> turn[t].pc = "done"

=============================================================================
