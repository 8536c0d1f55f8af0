------------------------------- MODULE Message -------------------------------
(***************************************************************************)
(* What a chat is promised about one reply: it is shown at most once, with *)
(* all its readable words, and a delivery that failed after all may still  *)
(* have shown it, because Telegram's answer can be lost.                   *)
(***************************************************************************)
EXTENDS Sequences

VARIABLES
  words,    \* the readable words of the reply
  status,   \* "pending", "done" or "failed"
  chat      \* what the chat was shown

Init == status = "pending" /\ chat = <<>>

Show ==
  /\ status = "pending"
  /\ chat' = Append(chat, words)
  /\ status' \in {"done", "failed"}
  /\ UNCHANGED words

Drop ==
  /\ status = "pending"
  /\ status' = "failed"
  /\ UNCHANGED <<words, chat>>

Next == Show \/ Drop

Spec == Init /\ [][Next]_<<words, status, chat>>

=============================================================================
