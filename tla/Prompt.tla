------------------------------- MODULE Prompt -------------------------------
(***************************************************************************)
(* The user item a Telegram message becomes: a block of context fields (who *)
(* speaks, what is replied to, quoted or forwarded) and a block with the    *)
(* message, each between markers on lines of their own.                     *)
(*                                                                         *)
(* A text is a sequence of tokens: words, "nl" (a line break), backslashes *)
(* and markers.  A part of a message that is not there is Absent, a text   *)
(* that is not there is empty.                                             *)
(***************************************************************************)
EXTENDS Naturals, Sequences, SequencesExt

CONSTANTS
  Absent,
  Words        \* the words of people, and the names of media

Markers == {"[telegram-context]", "[/telegram-context]", "[user-message]", "[/user-message]"}

Labels == <<"sender:", "reply_to_author:", "reply_to_text:", "quote_text:",
            "message_origin:", "forward_origin:", "sender_chat:">>

Tokens ==
  Words \cup Markers \cup {"nl", "\\", "n"} \cup {Labels[k] : k \in DOMAIN Labels}
    \cup {"(@", ")", "@", "id", "chat", "channel", "post", "from", "message",
          "forwarded", "sender_chat", "direct"}
Text == Seq(Tokens)

\* The parts of a Telegram message that hold texts.
IsUser(user) == user.name \in Text /\ user.username \in Text
IsChat(chat) == chat.title \in Text /\ chat.name \in Text /\ chat.username \in Text
AUser(user) == user = Absent \/ IsUser(user)
AChat(chat) == chat = Absent \/ IsChat(chat)

IsOrigin(origin) ==
  /\ AUser(origin.sender) /\ origin.username \in Text /\ AChat(origin.senderChat)
  /\ AChat(origin.chat) /\ origin.signature \in Text
AnOrigin(origin) == origin = Absent \/ IsOrigin(origin)

\* Of a message that another one replies to no more is used than this.
IsContent(message) ==
  /\ AUser(message.sender) /\ AChat(message.senderChat)
  /\ message.text \in Text /\ message.media \in Text
  /\ AChat(message.forward.chat) /\ AUser(message.forward.sender)
  /\ message.forward.name \in Text /\ AnOrigin(message.forward.origin)

IsMessage(message) ==
  /\ IsContent(message)
  /\ message.quote \in Text /\ (message.mention = Absent \/ message.mention \in Text)
  /\ message.replyTo = Absent \/ IsContent(message.replyTo)
  /\ message.external = Absent \/
       /\ AnOrigin(message.external.origin) /\ AChat(message.external.chat)
       /\ message.external.media \in Text

\* strings.TrimSpace: the line breaks at both ends go.
TrimSpace(text) ==
  LET first == SelectInSeq(text, LAMBDA token : token # "nl")
      last == SelectLastInSeq(text, LAMBDA token : token # "nl")
  IN  IF first = 0 THEN <<>> ELSE SubSeq(text, first, last)

-----------------------------------------------------------------------------
(* Who and what a message refers to                                        *)

\* "name (@username)", or the one there is, or the id, or nothing.
Called(name, username, id) ==
  IF name # <<>> /\ username # <<>> THEN name \o <<"(@">> \o username \o <<")">>
  ELSE IF name # <<>> THEN name
  ELSE IF username # <<>> THEN <<"@">> \o username
  ELSE IF id # 0 THEN <<"id">> ELSE <<>>

SenderName(user) ==
  IF user = Absent THEN <<>> ELSE Called(TrimSpace(user.name), TrimSpace(user.username), user.id)

ChatName(chat) ==
  IF chat = Absent THEN <<>>
  ELSE LET title == TrimSpace(chat.title)
       IN  Called(IF title # <<>> THEN title ELSE TrimSpace(chat.name),
                  TrimSpace(chat.username), chat.id)

\* A chat with the word for what it is; nothing for one without a name.
Place(chat, isChannel, channel, other) ==
  LET name == ChatName(chat)
  IN  IF name = <<>> THEN <<>>
      ELSE (IF isChannel THEN channel ELSE other) \o name

IsForwarded(message) ==
  LET f == message.forward
  IN  f.chat # Absent \/ f.sender # Absent \/ TrimSpace(f.name) # <<>> \/ f.origin # Absent

DescribeMessageOrigin(origin) ==
  IF origin = Absent THEN <<>>
  ELSE IF origin.sender # Absent THEN SenderName(origin.sender)
  ELSE IF TrimSpace(origin.username) # <<>> THEN TrimSpace(origin.username)
  ELSE IF origin.senderChat # Absent THEN ChatName(origin.senderChat)
  ELSE IF origin.chat # Absent
       THEN Place(origin.chat, origin.post, <<"channel">>, <<"chat">>)
  ELSE TrimSpace(origin.signature)

DescribeForwardOrigin(message) ==
  LET f == message.forward
  IN  IF f.chat # Absent
      THEN Place(f.chat, f.post \/ f.chat.channel, <<"channel">>, <<"chat">>)
      ELSE IF f.sender # Absent THEN SenderName(f.sender)
      ELSE IF TrimSpace(f.name) # <<>> THEN TrimSpace(f.name)
      ELSE DescribeMessageOrigin(f.origin)

\* A post without a user is its chat's.
ReplyAuthor(message) ==
  IF IsForwarded(message) /\ DescribeForwardOrigin(message) # <<>>
  THEN DescribeForwardOrigin(message)
  ELSE IF message.sender # Absent THEN SenderName(message.sender)
  ELSE IF message.senderChat = Absent THEN <<>>
  ELSE Place(message.senderChat, message.senderChat.channel,
             <<"channel", "post", "from">>, <<"message", "from", "chat">>)

\* The text, or the word for what was sent in place of one.
Content(message) ==
  IF TrimSpace(message.text) # <<>> THEN TrimSpace(message.text) ELSE message.media

ExternalAuthor(external) ==
  LET origin == external.origin
  IN  IF origin = Absent THEN <<>>
      ELSE IF origin.sender # Absent THEN SenderName(origin.sender)
      ELSE IF TrimSpace(origin.username) # <<>> THEN TrimSpace(origin.username)
      ELSE ChatName(IF origin.senderChat # Absent THEN origin.senderChat
                    ELSE IF origin.chat # Absent THEN origin.chat ELSE external.chat)

ReplyReference(message) ==
  IF message.replyTo # Absent
  THEN <<ReplyAuthor(message.replyTo), Content(message.replyTo)>>
  ELSE IF message.external # Absent
       THEN <<ExternalAuthor(message.external), message.external.media>>
       ELSE <<<<>>, <<>>>>

\* message_origin, forward_origin and sender_chat.
CurrentOrigin(message) ==
  IF IsForwarded(message) THEN <<<<"forwarded">>, DescribeForwardOrigin(message), <<>>>>
  ELSE IF message.senderChat # Absent
       THEN <<<<"sender_chat">>, <<>>, ChatName(message.senderChat)>>
       ELSE <<<<"direct">>, <<>>, <<>>>>

\* The value of each field, in the order of Labels.
Context(message) ==
  LET reply == ReplyReference(message)
      origin == CurrentOrigin(message)
  IN  <<SenderName(message.sender), reply[1], reply[2], TrimSpace(message.quote),
        origin[1], origin[2], origin[3]>>

-----------------------------------------------------------------------------
(* Writing it down                                                         *)

Backslashes(n) == [k \in 1..n |-> "\\"]
Held(s) == IF s.held THEN <<"\\">> ELSE <<>>

\* structuredPromptMarkerEscaper takes one token more: two backslashes become
\* four, a marker gets one. A backslash is held until it is known to be alone.
EscapeToken(s, token) ==
  CASE token = "\\" /\ s.held -> [out |-> s.out \o Backslashes(4), held |-> FALSE]
    [] token = "\\" /\ ~s.held -> [out |-> s.out, held |-> TRUE]
    [] token \in Markers -> [out |-> s.out \o Held(s) \o <<"\\", token>>, held |-> FALSE]
    [] OTHER -> [out |-> s.out \o Held(s) \o <<token>>, held |-> FALSE]

\* What is written, and whether a backslash is held, after the first n tokens.
EscapedUpTo(text) ==
  LET after[n \in 0..Len(text)] ==
        IF n = 0 THEN [out |-> <<>>, held |-> FALSE] ELSE EscapeToken(after[n - 1], text[n])
  IN  after

EscapeBlock(text) ==
  LET trimmed == TrimSpace(text)
      end == EscapedUpTo(trimmed)[Len(trimmed)]
  IN  end.out \o Held(end)

\* Mutant: the line breaks of a field stay.
EscapeBreaking(text) == EscapeBlock(text)

\* A field is one line: its line breaks are spelled out.
Spelled(token) == IF token = "nl" THEN <<"\\", "n">> ELSE <<token>>

SpelledUpTo(block) ==
  LET line[n \in 0..Len(block)] ==
        IF n = 0 THEN <<>> ELSE line[n - 1] \o Spelled(block[n])
  IN  line

EscapeField(text) ==
  LET block == EscapeBlock(text)
  IN  SpelledUpTo(block)[Len(block)]

\* The line of a field, if it is there.
Field(label, value) == IF value = <<>> THEN <<>> ELSE <<"nl", label>> \o EscapeField(value)

\* telegramContext.render: a line per field.
Render(context) ==
  LET line(k) == Field(Labels[k], context[k])
  IN  line(1) \o line(2) \o line(3) \o line(4) \o line(5) \o line(6) \o line(7)

\* The blocks; there is always a context, since every message has an origin.
BuildLLMMessage(message, text) ==
  <<"[telegram-context]">>
    \o Render(Context(message))
    \o <<"nl", "[/telegram-context]", "nl", "nl", "[user-message]", "nl">>
    \o EscapeBlock(text) \o <<"nl", "[/user-message]">>

-----------------------------------------------------------------------------
(* Reading it                                                              *)

\* The escapes of a message undone: of every four backslashes two go, and of a
\* marker's one. `run` counts those that are not yet one of four.
UnescapeToken(s, token) ==
  CASE token = "\\" /\ s.run = 3 -> [out |-> s.out \o Backslashes(2), run |-> 0]
    [] token = "\\" /\ s.run # 3 -> [s EXCEPT !.run = @ + 1]
    [] token \in Markers -> [out |-> s.out \o Backslashes(s.run - 1) \o <<token>>, run |-> 0]
    [] OTHER -> [out |-> s.out \o Backslashes(s.run) \o <<token>>, run |-> 0]

UnescapedUpTo(text) ==
  LET after[n \in 0..Len(text)] ==
        IF n = 0 THEN [out |-> <<>>, run |-> 0] ELSE UnescapeToken(after[n - 1], text[n])
  IN  after

Unescape(text) ==
  LET end == UnescapedUpTo(text)[Len(text)]
  IN  end.out \o Backslashes(end.run)

\* The lines of a prompt that are this marker, by where they are.
At(prompt, marker) ==
  {i \in DOMAIN prompt : /\ prompt[i] = marker
                         /\ i = 1 \/ prompt[i - 1] = "nl"
                         /\ i = Len(prompt) \/ prompt[i + 1] = "nl"}

\* The lines before place `end`, but the first, are the fields of the context that
\* are there, in their order.
FieldLines(prompt, end, context) ==
  LET starts == {i \in 2..(end - 1) : prompt[i - 1] = "nl"}
  IN  /\ \A i \in starts : \E k \in DOMAIN Labels : context[k] # <<>> /\ prompt[i] = Labels[k]
      /\ \A k \in DOMAIN Labels : context[k] # <<>> => \E i \in starts : prompt[i] = Labels[k]
      /\ \A i, j \in starts : \A k, l \in DOMAIN Labels :
           i < j /\ prompt[i] = Labels[k] /\ prompt[j] = Labels[l] => k < l

\* A reader that knows only the markers finds, in the prompt of a message, one
\* line for each field that is there and then the user's own words.
ReadsBack(prompt, message, text) ==
  /\ At(prompt, "[telegram-context]") = {1}
  /\ At(prompt, "[/user-message]") = {Len(prompt)}
  /\ \E end, begin \in DOMAIN prompt :
       /\ At(prompt, "[/telegram-context]") = {end}
       /\ At(prompt, "[user-message]") = {begin}
       /\ end < begin
       /\ FieldLines(prompt, end, Context(message))
       /\ Unescape(SubSeq(prompt, begin + 2, Len(prompt) - 2)) = TrimSpace(text)

=============================================================================
