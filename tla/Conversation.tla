---------------------------- MODULE Conversation ----------------------------
(***************************************************************************)
(* One chat's turns from the update to the answer, as far as they do not   *)
(* touch the stored history (that is ChatRun): whom the bot answers, what  *)
(* the request says, the typing indicator, and the tools a turn calls, with *)
(* the memory text that the turns of the chat share.                       *)
(*                                                                         *)
(* An update's turn runs in the goroutine telebot gives its handler, the   *)
(* typing indicator in one of its own, a scheduled turn in that of its job. *)
(* None of them recovers from a panic.                                     *)
(***************************************************************************)
EXTENDS Prompt, FiniteSets

CONSTANTS
  Updates,     \* turns started by a message
  Jobs,        \* turns started by a cron task of the chat
  Messages,    \* the messages that may arrive
  Calls,       \* the function calls the model may make
  Enabled,     \* which of the search tools are enabled
  MCPTools,    \* names that lead back to the MCP server that listed the tool
  MaxCalls,    \* bound: calls of a turn (maxSteps of the service)
  MaxActive,   \* bound: turns in progress at once
  Fails        \* whether calls may fail and the process may die

Turns == Updates \cup Jobs
SearchTools == {"x-search", "web-search"}
MemoryTools == {"memory-get", "memory-set"}
CronTools == {"list-cron-tasks", "add-cron-task", "delete-cron-task"}

\* How a call's arguments read: they do not decode ("bad"), what they must say
\* is blank or not positive ("blank"), they say what the tool refuses
\* ("invalid": two filters at once, too many domains, no date, no cron
\* expression), or "good".
Arguments == {"bad", "blank", "invalid", "good"}

ASSUME BoundsAssumption == MaxCalls \in Nat /\ MaxActive \in Nat /\ Fails \in BOOLEAN
ASSUME TurnsAssumption == Updates \cap Jobs = {}
ASSUME MessagesAssumption == Absent \notin Messages /\ \A m \in Messages : IsMessage(m)
ASSUME EnabledAssumption == Enabled \subseteq SearchTools
\* The name of an MCP tool has a separator, that of no other has one; when the name of
\* its server has one too it leads nowhere (McpBridge), and is a name nothing has.
ASSUME MCPToolsAssumption == MCPTools \cap (SearchTools \cup MemoryTools \cup CronTools) = {}
ASSUME CallsAssumption ==
  \A call \in Calls : /\ call.args \in Arguments
                     /\ call.name = "memory-set" => call.args # "invalid"

VARIABLES
  turn,      \* per turn: where it is and what it holds
  typist,    \* per update: its typing goroutine
  stop,      \* per update: stopCh is closed
  memory,    \* chats.memory_text: the facts the text holds
  panicked,  \* a panic has ended the process
  saved,     \* the facts whose turns were answered that the memory is updated
  unaware    \* fact -> the turns in progress that have not read it since it was written

vars == <<turn, typist, stop, memory, panicked, saved, unaware>>

\* A turn is asked to remember one fact, which bears its name.
Facts == Turns
Pcs == {"new", "gate", "typing", "build", "prepare", "model", "tool", "search",
        "deliver", "failed", "done"}
NoCall == [name |-> "", args |-> "good"]
Idle == [pc |-> "new", message |-> Absent, text |-> <<>>, prompt |-> <<>>, image |-> FALSE,
         call |-> NoCall, calls |-> 0, known |-> {}]

Init ==
  /\ turn = [t \in Turns |-> Idle]
  /\ typist = [t \in Updates |-> "none"]
  /\ stop = [t \in Updates |-> FALSE]
  /\ memory = {}
  /\ panicked = FALSE
  /\ saved = {} /\ unaware = [f \in Facts |-> {}]

Active(t) == turn[t].pc \notin {"new", "done"}
RoomForOne == Cardinality({t \in Turns : Active(t)}) < MaxActive

To(t, record) == turn' = [turn EXCEPT ![t] = record]
remembered == <<memory, saved, unaware>>

\* Mutant: stopTyping is called once the reply is delivered, and not deferred.
EndUndeferred(t, pc) ==
  /\ To(t, [Idle EXCEPT !.pc = pc])
  /\ stop' = IF t \in Updates THEN [stop EXCEPT ![t] = @ \/ turn[t].pc = "deliver"] ELSE stop
  /\ UNCHANGED <<typist, panicked>>

\* The handler returns: stopTyping, deferred since the goroutine was started,
\* closes the channel. What the turn held is garbage.
End(t, pc) ==
  /\ To(t, [Idle EXCEPT !.pc = pc])
  /\ stop' = IF t \in Updates THEN [stop EXCEPT ![t] = TRUE] ELSE stop
  /\ UNCHANGED <<typist, panicked>>

-----------------------------------------------------------------------------
(* Whom the bot answers                                                    *)

\* The photo of the message, of the one it replies to, or of an external one.
HasPhoto(message) ==
  \/ message.photo
  \/ message.replyTo # Absent /\ message.replyTo.photo
  \/ message.external # Absent /\ message.external.photo

\* isDirectReplyToBot: the sender replied to is a bot, and this one by id or name.
IsDirectReplyToBot(message) == message.replyTo # Absent /\ message.replyTo.fromBot

Punctuation == {"nl", ",", ".", ":", ";", "!", "-"}

\* The text of a group message from its mention on, when it begins with it.
TrimLeadingBotMention(text, mention) ==
  IF mention = <<>> \/ ~IsPrefix(mention, text) THEN text
  ELSE LET rest == SubSeq(text, Len(mention) + 1, Len(text))
           first == SelectInSeq(rest, LAMBDA token : token \notin Punctuation)
       IN  IF first = 0 THEN <<>> ELSE TrimSpace(SubSeq(rest, first, Len(rest)))

\* normalizeIncomingMessage: a mention is Absent when no entity names the bot.
Addressed(message) ==
  ~message.group \/ IsDirectReplyToBot(message) \/ message.mention # Absent

IncomingText(message) ==
  LET text == TrimSpace(message.text)
  IN  IF ~message.group \/ IsDirectReplyToBot(message) THEN text
      ELSE TrimLeadingBotMention(text, message.mention)

\* resolveIncomingChatRequest, with its two looks at what is left.
ShouldRespond(message) ==
  /\ TrimSpace(message.text) # <<>> \/ HasPhoto(message)
  /\ Addressed(message)
  /\ IncomingText(message) # <<>> \/ HasPhoto(message)

Receive(t) ==
  /\ turn[t].pc = "new" /\ RoomForOne
  /\ \E message \in Messages :
       \/ message.sender = Absent /\ End(t, "failed")
       \/ /\ message.sender # Absent /\ ~ShouldRespond(message)
          /\ End(t, "done")
       \/ /\ message.sender # Absent /\ ShouldRespond(message)
          /\ To(t, [Idle EXCEPT !.pc = "gate", !.message = message,
                                !.text = IncomingText(message)])
          /\ UNCHANGED <<typist, stop, panicked>>
  /\ UNCHANGED remembered

\* ensureResolvedActiveChat (ChatAccess): the chat is served, or was told why not.
Gate(t) ==
  /\ turn[t].pc = "gate"
  /\ \/ To(t, [turn[t] EXCEPT !.pc = "typing"]) /\ UNCHANGED <<typist, stop, panicked>>
     \/ End(t, "done")
  /\ UNCHANGED remembered

-----------------------------------------------------------------------------
(* The typing indicator                                                    *)

\* startTyping: no goroutine when the first notification fails.
StartTyping(t) ==
  /\ turn[t].pc = "typing"
  /\ \/ typist' = [typist EXCEPT ![t] = "waiting"]
     \/ Fails /\ UNCHANGED typist
  /\ To(t, [turn[t] EXCEPT !.pc = "build"])
  /\ UNCHANGED <<stop, panicked, remembered>>

\* The ticker fires; the notification takes its time, and its error is dropped.
Tick(t) ==
  /\ typist[t] = "waiting"
  /\ typist' = [typist EXCEPT ![t] = "notifying"]
  /\ UNCHANGED <<turn, stop, panicked, remembered>>

Notified(t) ==
  /\ typist[t] = "notifying"
  /\ typist' = [typist EXCEPT ![t] = "waiting"]
  /\ UNCHANGED <<turn, stop, panicked, remembered>>

StopTyping(t) ==
  /\ typist[t] = "waiting" /\ stop[t]
  /\ typist' = [typist EXCEPT ![t] = "none"]
  /\ UNCHANGED <<turn, stop, panicked, remembered>>

-----------------------------------------------------------------------------
(* The request                                                             *)

\* Mutant: a message without its photo is asked about whatever is left of it.
LoadRequestImageAnyway(t, image) == image => HasPhoto(turn[t].message)

\* loadRequestImage, where it returns: the photo could be loaded, there is none,
\* or there is a text to answer without it.
LoadRequestImage(t, image) ==
  /\ image => HasPhoto(turn[t].message)
  /\ ~image => turn[t].text # <<>>

\* What the model is sent of each message that the bot answers.
UserItem ==
  [message \in {m \in Messages : m.sender # Absent /\ ShouldRespond(m)} |->
     BuildLLMMessage(message, IncomingText(message))]

\* buildChatRequest.
BuildChatRequest(t) ==
  /\ turn[t].pc = "build"
  /\ \/ \E image \in BOOLEAN :
          /\ LoadRequestImage(t, image)
          /\ ~image /\ HasPhoto(turn[t].message) => Fails
          /\ To(t, [turn[t] EXCEPT !.pc = "prepare", !.image = image,
                       !.prompt = UserItem[turn[t].message]])
          /\ UNCHANGED <<typist, stop, panicked>>
     \/ Fails /\ HasPhoto(turn[t].message) /\ turn[t].text = <<>> /\ End(t, "failed")
  /\ UNCHANGED remembered

\* The turn has read the memory as it is now.
HasRead(t) == unaware' = [f \in Facts |-> unaware[f] \ {t}]

\* Mutant: a memory that cannot be read is taken for an empty one.
PrepareForgetful(t) ==
  /\ \/ turn[t].pc = "prepare"
     \/ t \in Jobs /\ turn[t].pc = "new" /\ RoomForOne
  /\ \E known \in {memory, {}} : To(t, [Idle EXCEPT !.pc = "model", !.known = known])
  /\ HasRead(t)
  /\ UNCHANGED <<typist, stop, panicked, memory, saved>>

\* prepareExecutionSession: the memory becomes part of the system message.
Prepare(t) ==
  /\ \/ turn[t].pc = "prepare"
     \/ t \in Jobs /\ turn[t].pc = "new" /\ RoomForOne
  /\ To(t, [Idle EXCEPT !.pc = "model", !.known = memory])
  /\ HasRead(t)
  /\ UNCHANGED <<typist, stop, panicked, memory, saved>>

-----------------------------------------------------------------------------
(* Tools                                                                   *)

\* Mutant: the calls are counted from zero.
RespondOneMore(t) ==
  /\ turn[t].pc = "model"
  /\ \/ \E call \in Calls :
          /\ turn[t].calls <= MaxCalls
          /\ To(t, [turn[t] EXCEPT !.pc = "tool", !.call = call, !.calls = @ + 1])
     \/ To(t, [turn[t] EXCEPT !.pc = "deliver"])
  /\ UNCHANGED <<typist, stop, panicked, remembered>>

\* A call by any name: the model may write one it was not offered, having seen
\* it in the history or made it up. Or the turn's text.
Respond(t) ==
  /\ turn[t].pc = "model"
  /\ \/ \E call \in Calls :
          /\ turn[t].calls < MaxCalls
          /\ To(t, [turn[t] EXCEPT !.pc = "tool", !.call = call, !.calls = @ + 1])
     \/ To(t, [turn[t] EXCEPT !.pc = "deliver"])
  /\ UNCHANGED <<typist, stop, panicked, remembered>>

Calling(t, names, args) ==
  turn[t].pc = "tool" /\ turn[t].call.name \in names /\ turn[t].call.args \in args

\* The call's text joins the input, and the model is asked again.
Continue(t, known) ==
  /\ To(t, [turn[t] EXCEPT !.pc = "model", !.call = NoCall, !.known = known])
  /\ UNCHANGED <<typist, stop, panicked>>

\* The errors: arguments that do not decode, a blank schedule or prompt, an id
\* that is not positive, a search its service refuses, a name nothing has.
Errs(t) ==
  \/ Calling(t, SearchTools \cup {"memory-set", "add-cron-task", "delete-cron-task"}
                 \cup MCPTools, {"bad"})
  \/ Calling(t, {"add-cron-task", "delete-cron-task"}, {"blank"})
  \/ Calling(t, SearchTools, {"invalid"}) /\ turn[t].call.name \in Enabled
  \/ turn[t].pc = "tool" /\ turn[t].call.name \notin
       SearchTools \cup MemoryTools \cup CronTools \cup MCPTools

\* Search of a nil service: its first statement reads a field.
Panics(t) ==
  Calling(t, SearchTools, {"invalid", "good"}) /\ turn[t].call.name \notin Enabled

\* Texts that tell the model what was wrong, and tools whose effects are
\* modelled elsewhere (CronJobs, McpBridge).
Texts(t) ==
  \/ Calling(t, SearchTools, {"blank"})
  \/ Calling(t, {"add-cron-task"}, {"invalid", "good"})
  \/ Calling(t, {"delete-cron-task"}, {"invalid", "good"})
  \/ Calling(t, {"list-cron-tasks"}, Arguments)
  \/ Calling(t, MCPTools, Arguments \ {"bad"})

ToolErrs(t) == Errs(t) /\ End(t, "failed") /\ UNCHANGED remembered
ToolTexts(t) == Texts(t) /\ Continue(t, turn[t].known) /\ UNCHANGED remembered

\* The process ends, and what it held is gone; it is started again.
Down ==
  /\ turn' = [t \in Turns |-> IF Active(t) THEN [Idle EXCEPT !.pc = "done"] ELSE turn[t]]
  /\ typist' = [t \in Updates |-> "none"]
  /\ stop' = [t \in Updates |-> stop[t] \/ Active(t)]
  /\ UNCHANGED remembered

Panic(t) == Panics(t) /\ Down /\ panicked' = TRUE

\* A validated request to the provider.
StartSearch(t) ==
  /\ Calling(t, Enabled, {"good"})
  /\ To(t, [turn[t] EXCEPT !.pc = "search"])
  /\ UNCHANGED <<typist, stop, panicked, remembered>>

Found(t) ==
  /\ turn[t].pc = "search"
  /\ Continue(t, turn[t].known) /\ UNCHANGED remembered

GetMemory(t) ==
  /\ Calling(t, {"memory-get"}, Arguments)
  /\ Continue(t, memory)
  /\ HasRead(t)
  /\ UNCHANGED <<memory, saved>>

\* The UPDATE of SetMemory: the text as a whole replaces the one there was.
Store(t, facts, kept) ==
  /\ memory' = facts /\ saved' = kept
  /\ unaware' = [f \in Facts |->
       IF f \notin kept THEN {}
       ELSE (IF f = t THEN {u \in Turns : Active(u)} ELSE unaware[f]) \ {t}]

StillKnown(t) == {f \in saved : t \notin unaware[f]}

\* The model writes what it knows of with its fact, or clears it ("blank"): the
\* tool descriptions ask for the full text. The result names the new text.
SetMemory(t) ==
  \/ /\ Calling(t, {"memory-set"}, {"good"})
     /\ Store(t, turn[t].known \cup {t}, StillKnown(t) \cup {t})
     /\ Continue(t, turn[t].known \cup {t})
  \/ /\ Calling(t, {"memory-set"}, {"blank"})
     /\ Store(t, {}, {})
     /\ Continue(t, {})

\* The row is written, the answer is lost with the turn's context.
SetMemoryLost(t) ==
  /\ Fails /\ Calling(t, {"memory-set"}, {"good"})
  /\ Store(t, turn[t].known \cup {t}, StillKnown(t))
  /\ End(t, "failed")

-----------------------------------------------------------------------------
(* The end of a turn                                                       *)

\* deliverChatReply (Delivery); a job's text is sent by its scheduler.
Deliver(t) ==
  /\ turn[t].pc = "deliver"
  /\ End(t, "done") /\ UNCHANGED remembered

\* Any other error on the way, the turn's deadline among them.
Fail(t) ==
  /\ Fails /\ Active(t) /\ turn[t].pc # "failed"
  /\ End(t, "failed") /\ UNCHANGED remembered

\* telebot hands the handler's error to OnError, a job logs it.
Report(t) ==
  /\ turn[t].pc = "failed"
  /\ End(t, "done") /\ UNCHANGED remembered

Die == Fails /\ (\E t \in Turns : Active(t)) /\ Down /\ UNCHANGED panicked

ToolNext(t) ==
  \/ ToolErrs(t) \/ ToolTexts(t) \/ Panic(t) \/ StartSearch(t) \/ Found(t)
  \/ GetMemory(t) \/ SetMemory(t) \/ SetMemoryLost(t)

UpdateNext(t) ==
  Receive(t) \/ Gate(t) \/ StartTyping(t) \/ BuildChatRequest(t)

TurnNext(t) ==
  \/ t \in Updates /\ UpdateNext(t)
  \/ Prepare(t) \/ Respond(t) \/ ToolNext(t) \/ Deliver(t) \/ Fail(t) \/ Report(t)

Next ==
  \/ \E t \in Turns : TurnNext(t)
  \/ \E t \in Updates : Tick(t) \/ Notified(t) \/ StopTyping(t)
  \/ Die

Spec == Init /\ [][Next]_vars

\* Everything an update's turn waits for has a deadline, and so has Notify. The
\* ticker fires every four seconds, but a select with both channels ready takes
\* either: the closed one is taken at last.
FairSpec ==
  /\ Spec
  /\ \A t \in Updates : /\ WF_vars(Active(t) /\ TurnNext(t))
                        /\ WF_vars(Notified(t)) /\ SF_vars(StopTyping(t))

-----------------------------------------------------------------------------
(* Properties.                                                             *)

TypeOK ==
  /\ \A t \in Turns :
       /\ turn[t].pc \in Pcs
       /\ turn[t].message \in Messages \cup {Absent}
       /\ turn[t].image \in BOOLEAN
       /\ turn[t].call \in Calls \cup {NoCall}
       /\ turn[t].calls \in 0..MaxCalls
       /\ turn[t].known \subseteq Facts
  /\ typist \in [Updates -> {"none", "waiting", "notifying"}]
  /\ stop \in [Updates -> BOOLEAN]
  /\ memory \subseteq Facts
  /\ panicked \in BOOLEAN
  /\ saved \subseteq Facts /\ unaware \in [Facts -> SUBSET Turns]

\* The model can tell who speaks and what is quoted from what the user says:
\* whatever the message, its names and the texts it refers to hold, the blocks
\* of a request are the ones written, and the user's words can be read back.
PromptReadsBack ==
  \A t \in Updates : turn[t].pc = "prepare" =>
    ReadsBack(turn[t].prompt, turn[t].message, turn[t].text)

\* No turn is run about nothing: what is left of a message once the mention is
\* cut off and the photo could or could not be loaded is a text or an image. The
\* service cannot tell, because the context makes every request a non-empty one.
NeverEmptyRequest ==
  \A t \in Updates : turn[t].pc = "prepare" =>
    turn[t].image \/ turn[t].text # <<>>

\* What the chat was told is remembered stays in its memory, through failures,
\* deaths and lost answers, until it is cleared or a turn that was in progress
\* when it was saved, and has not read the memory since, writes the text it knew.
FactsKept == saved \subseteq memory

\* The indicator goes out: no goroutine outlives its turn for ever.
TypingEnds == \A t \in Updates : typist[t] # "none" ~> typist[t] = "none"

\* README: "If a handler fails, the bot logs the error server-side and sends an
\* error message back to Telegram." No call of the model in a handler's turn ends the
\* process.
NeverPanics == ~panicked

=============================================================================
