---------------------------- MODULE MCDelivery -----------------------------
(* Replies of Delivery for TLC: words and line breaks, tags in plain and in *)
(* escaped form, a synonym, a tag that lacks its attribute, two that        *)
(* Telegram has not, and one that never ends.                               *)
EXTENDS Delivery

Piece(kind, name) == [kind |-> kind, name |-> name, full |-> name # "span"]

ReplyPieces ==
  {Piece(kind, "") : kind \in {"word", "break", "stray", "lone", "half"}}
    \cup {Piece(kind, name) : kind \in {"eopen", "eclose"}, name \in {"b", "i"}}
    \cup {Piece(kind, name) : kind \in {"open", "close"}, name \in {"strong", "code", "span"}}
    \cup {Piece("open", "table"), Piece("open", "tg-spoiler"), Piece("open", "p")}

\* Words around a tag that never ends.
PlainPieces == {Piece("word", ""), Piece("half", "")}

=============================================================================
