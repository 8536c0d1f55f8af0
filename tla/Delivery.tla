------------------------------ MODULE Delivery ------------------------------
(***************************************************************************)
(* How one reply reaches Telegram: the text is normalized (escaped tags    *)
(* that Telegram supports become tags), and when Telegram cannot parse     *)
(* what it is given, sanitized and then escaped texts are tried.           *)
(*                                                                         *)
(* A text is a sequence of pieces: a word, a line break, a tag, a tag      *)
(* written with &lt; and &gt;, a lone &lt;, a stray < that starts no tag   *)
(* or a half of a tag: a < that starts a tag which never ends, because no  *)
(* > follows it or because it leaves a quote open.  A piece of kind        *)
(* "shown" is any of these after html.EscapeString: it carries no markup   *)
(* any more.  What stands inside a tag is left out: it has the attributes  *)
(* it needs ("full") or not.                                               *)
(*                                                                         *)
(* The same three attempts are written three times in the code: for a      *)
(* reply (sendReply), for the edit of a placeholder (editPlaceholderReply) *)
(* and for a scheduled result (TelegramSender.Send).                       *)
(***************************************************************************)
EXTENDS Naturals, Sequences

CONSTANTS
  Pieces,      \* the pieces a reply is made of
  MaxLen       \* bound: the pieces of one reply

\* A piece is of one of these kinds, under any name.
ASSUME PiecesAssumption ==
  Pieces \subseteq [kind : {"word", "break", "open", "close", "comment", "eopen", "eclose",
                            "lone", "stray", "half"},
                    name : {p.name : p \in Pieces}, full : BOOLEAN]
ASSUME MaxLenAssumption == MaxLen \in Nat

VARIABLES
  text,        \* the reply to deliver
  phase,       \* the attempt that comes next, or "done" or "failed"
  sent,        \* the texts handed to Telegram, in order
  answer,      \* what the last attempt came back with
  shown        \* the texts that Telegram shows in the chat

vars == <<text, phase, sent, answer, shown>>

-----------------------------------------------------------------------------
(* Tags                                                                    *)

\* The name a tag is written with.
Canonical(name) ==
  CASE name \in {"b", "strong"} -> "b"
    [] name \in {"i", "em"} -> "i"
    [] name \in {"u", "ins"} -> "u"
    [] name \in {"s", "strike", "del"} -> "s"
    [] name \in {"span", "tg-spoiler"} -> "tg-spoiler"
    [] OTHER -> name

NeedsAttribute == {"span", "a", "tg-emoji", "tg-time"}

EndAllowed(p) ==
  Canonical(p.name) \in {"b", "i", "u", "s", "tg-spoiler", "a", "code", "pre",
                         "blockquote", "tg-emoji", "tg-time"}

StartAllowed(p) == EndAllowed(p) /\ (p.name \in NeedsAttribute => p.full)

RawNames == {"pre", "code"}

\* The pieces that the tokenizer reads as one text token when they are adjacent.
IsText(p) == p.kind \notin {"open", "close", "comment", "half"}

\* What the tokenizer reads of t: at a tag that never ends it stops.
UpToHalf(t) ==
  LET halves == {n \in 1..Len(t) : t[n].kind = "half"}
      first == CHOOSE n \in halves : \A k \in halves : n <= k
  IN  IF halves = {} THEN t ELSE SubSeq(t, 1, first - 1)

Tag(kind, name) == [kind |-> kind, name |-> Canonical(name), full |-> TRUE]

Last(s) == s[Len(s)]

\* The stack without its last `name` and what was opened after it.
CutAt(stack, name) ==
  LET at == {k \in 1..Len(stack) : stack[k] = name}
  IN  IF at = {} THEN stack
      ELSE SubSeq(stack, 1, (CHOOSE k \in at : \A j \in at : j <= k) - 1)

-----------------------------------------------------------------------------
(* Normalize                                                               *)

\* The pre and code tags open after the first n pieces of t.
RawOpen(t) ==
  LET open[n \in 0..Len(t)] ==
        IF n = 0 THEN <<>>
        ELSE LET stack == open[n - 1]
             IN  IF t[n].name \notin RawNames THEN stack
                 ELSE CASE t[n].kind = "open" -> Append(stack, t[n].name)
                        [] t[n].kind = "close" -> CutAt(stack, t[n].name)
                        [] OTHER -> stack
  IN  open

SameText(t, i, j) == \A k \in i..j : IsText(t[k])

IsEscapedTag(p) == p.kind \in {"eopen", "eclose"}

\* The escaped tag n is read as a tag: no lone &lt; before it takes its &gt;.
Read(t, n) ==
  \A j \in 1..(n - 1) :
    t[j].kind = "lone" /\ SameText(t, j, n)
      => \E k \in (j + 1)..(n - 1) : IsEscapedTag(t[k])

HasEnd(t, n) ==
  \E j \in (n + 1)..Len(t) :
    /\ SameText(t, n, j)
    /\ t[j].kind = "eclose"
    /\ Read(t, j)
    /\ Canonical(t[j].name) = Canonical(t[n].name)

\* The escaped opening tag n is rendered.
RendersOpen(t, n) ==
  /\ t[n].kind = "eopen"
  /\ StartAllowed(t[n])
  /\ Read(t, n)
  /\ HasEnd(t, n)

\* So is the escaped closing tag n, where `stack` holds the rendered tags.
RendersClose(t, n, stack) ==
  /\ t[n].kind = "eclose"
  /\ EndAllowed(t[n])
  /\ Read(t, n)
  /\ stack # <<>>
  /\ Last(stack) = Canonical(t[n].name)

\* The rendered tags open after the first n pieces, within one text token.
RenderedOpen(t) ==
  LET raw == RawOpen(t)
      open[n \in 0..Len(t)] ==
        IF n = 0 THEN <<>>
        ELSE LET stack == open[n - 1]
             IN  CASE ~IsText(t[n]) -> <<>>
                   [] raw[n] # <<>> -> stack
                   [] RendersOpen(t, n) -> Append(stack, Canonical(t[n].name))
                   [] RendersClose(t, n, stack) -> SubSeq(stack, 1, Len(stack) - 1)
                   [] OTHER -> stack
  IN  open

\* Every piece of t with the escaped tags rendered.
NormalizeTokens(t) ==
  LET raw == RawOpen(t)
      open == RenderedOpen(t)
  IN  [n \in 1..Len(t) |->
         CASE raw[n] # <<>> -> t[n]
           [] RendersOpen(t, n) -> Tag("open", t[n].name)
           [] RendersClose(t, n, open[n - 1]) -> Tag("close", t[n].name)
           [] OTHER -> t[n]]

Normalize(t) == NormalizeTokens(UpToHalf(t))

-----------------------------------------------------------------------------
(* Sanitize and html.EscapeString                                          *)

Break == [kind |-> "break", name |-> "", full |-> TRUE]
Dash == [kind |-> "dash", name |-> "", full |-> TRUE]
Lone == [kind |-> "lone", name |-> "", full |-> TRUE]

\* `out` with at least `count` line breaks at its end.
WithBreaks(out, count) ==
  LET has(n) == n <= Len(out) /\ \A k \in 0..(n - 1) : out[Len(out) - k] = Break
  IN  CASE count = 0 \/ has(count) -> out
        [] count = 1 \/ has(1) -> Append(out, Break)
        [] OTHER -> out \o <<Break, Break>>

\* The closing tags of `stack`, innermost first.
Closings(stack) ==
  [k \in 1..Len(stack) |-> Tag("close", stack[Len(stack) + 1 - k])]

HandleStart(s, p) ==
  CASE p.name \in {"br", "div", "ul", "ol"} ->
         [s EXCEPT !.out = WithBreaks(@, 1)]
    [] p.name = "p" -> [s EXCEPT !.out = WithBreaks(@, 2)]
    [] p.name = "li" -> [s EXCEPT !.out = Append(WithBreaks(@, 1), Dash)]
    [] StartAllowed(p) ->
         [out |-> Append(s.out, Tag("open", p.name)),
          stack |-> Append(s.stack, Canonical(p.name))]
    [] OTHER -> s

\* Mutant: what was opened inside the tag is not closed with it.
HandleEndAlone(s, p) ==
  LET cut == CutAt(s.stack, Canonical(p.name))
  IN  IF EndAllowed(p) /\ cut # s.stack
      THEN [out |-> Append(s.out, Tag("close", p.name)), stack |-> cut]
      ELSE s

HandleEnd(s, p) ==
  LET cut == CutAt(s.stack, Canonical(p.name))
  IN  CASE p.name \in {"div", "ul", "ol", "li"} ->
             [s EXCEPT !.out = WithBreaks(@, 1)]
        [] p.name = "p" -> [s EXCEPT !.out = WithBreaks(@, 2)]
        [] EndAllowed(p) ->
             [out |-> s.out \o Closings(SubSeq(s.stack, Len(cut) + 1, Len(s.stack))),
              stack |-> cut]
        [] OTHER -> s

\* Mutant: what stands inside a code tag is left out.
SanitizePieceOutside(s, p) ==
  CASE p.kind = "open" -> HandleStart(s, p)
    [] p.kind = "close" -> HandleEnd(s, p)
    [] \E k \in 1..Len(s.stack) : s.stack[k] \in RawNames -> s
    [] p.kind = "stray" -> [s EXCEPT !.out = Append(@, Lone)]
    [] OTHER -> [s EXCEPT !.out = Append(@, p)]

SanitizePiece(s, p) ==
  CASE p.kind = "open" -> HandleStart(s, p)
    [] p.kind = "close" -> HandleEnd(s, p)
    [] p.kind \in {"comment", "half"} -> s
    [] p.kind = "stray" -> [s EXCEPT !.out = Append(@, Lone)]
    [] OTHER -> [s EXCEPT !.out = Append(@, p)]

TrimSpace(out) ==
  LET solid == {k \in 1..Len(out) : out[k].kind # "break"}
      first == CHOOSE k \in solid : \A j \in solid : k <= j
      last == CHOOSE k \in solid : \A j \in solid : j <= k
  IN  IF solid = {} THEN <<>> ELSE SubSeq(out, first, last)

\* What is written and what is open after the first n pieces of t.
SanitizedUpTo(t) ==
  LET after[n \in 0..Len(t)] ==
        IF n = 0 THEN [out |-> <<>>, stack |-> <<>>]
        ELSE SanitizePiece(after[n - 1], t[n])
  IN  after

Sanitize(t) ==
  LET read == UpToHalf(t)
      end == SanitizedUpTo(read)[Len(read)]
  IN  TrimSpace(end.out \o Closings(end.stack))

EscapeString(t) ==
  [n \in 1..Len(t) |-> IF t[n].kind \in {"word", "break", "dash"} THEN t[n]
                       ELSE [t[n] EXCEPT !.kind = "shown"]]

-----------------------------------------------------------------------------
(* Telegram (external)                                                     *)

\* A text that is not HTML to Telegram, whatever follows.
Bad == <<"bad">>

\* The open tags once p is read: the supported ones, and nested.
Reads(stack, p) ==
  CASE stack = Bad \/ p.kind \in {"stray", "comment", "half"} -> Bad
    [] p.kind = "open" -> IF StartAllowed(p) THEN Append(stack, p.name) ELSE Bad
    [] p.kind = "close" ->
         IF stack # <<>> /\ Last(stack) = p.name
         THEN SubSeq(stack, 1, Len(stack) - 1) ELSE Bad
    [] OTHER -> stack

\* The tags open after the first n pieces of t.
OpenTags(t) ==
  LET open[n \in 0..Len(t)] == IF n = 0 THEN <<>> ELSE Reads(open[n - 1], t[n])
  IN  open

\* Telegram reads t as HTML.
Parses(t) == OpenTags(t)[Len(t)] = <<>>

HasContent(t) == \E n \in 1..Len(t) : t[n].kind \notin {"open", "close", "break"}

\* What a call that sends t comes back with.  "lost": Telegram shows the text
\* and the answer does not arrive.
Answers(t) ==
  CASE ~Parses(t) -> {"parse", "unreachable"}
    [] ~HasContent(t) -> {"empty", "unreachable"}
    [] OTHER -> {"ok", "refused", "lost", "unreachable"}

-----------------------------------------------------------------------------
(* The attempts                                                            *)

Normalized == Normalize(text)
Sanitized == Sanitize(Normalized)
Escaped == EscapeString(Normalized)

Init ==
  /\ text \in UNION {[1..n -> Pieces] : n \in 1..MaxLen}
  /\ phase = "normalized"
  /\ sent = <<>>
  /\ answer = "none"
  /\ shown = <<>>

\* Mutant: any error is followed by the next text.
AttemptAnyError(t, afterParse) ==
  \E a \in Answers(t) :
    /\ sent' = Append(sent, t)
    /\ answer' = a
    /\ shown' = IF a \in {"ok", "lost"} THEN Append(shown, t) ELSE shown
    /\ phase' = IF a = "ok" THEN "done" ELSE afterParse
    /\ UNCHANGED text

\* Mutant: a refused text is sent again.
AttemptAgain(t, afterParse) ==
  \E a \in Answers(t) :
    /\ sent' = Append(sent, t)
    /\ answer' = a
    /\ shown' = IF a \in {"ok", "lost"} THEN Append(shown, t) ELSE shown
    /\ phase' = CASE a = "ok" -> "done"
                  [] a = "parse" -> afterParse
                  [] a = "refused" -> phase
                  [] OTHER -> "failed"
    /\ UNCHANGED text

\* Hand t to Telegram.  Only a text that Telegram could not parse is followed
\* by another one.
Attempt(t, afterParse) ==
  \E a \in Answers(t) :
    /\ sent' = Append(sent, t)
    /\ answer' = a
    /\ shown' = IF a \in {"ok", "lost"} THEN Append(shown, t) ELSE shown
    /\ phase' = CASE a = "ok" -> "done"
                  [] a = "parse" -> afterParse
                  [] OTHER -> "failed"
    /\ UNCHANGED text

\* With nothing to escape, the last error is returned.
ToEscaped == IF Escaped = Normalized THEN "failed" ELSE "escaped"

SendNormalized ==
  /\ phase = "normalized"
  /\ Attempt(Normalized, "sanitized")

SendSanitized ==
  /\ phase = "sanitized"
  /\ Sanitized # <<>>
  /\ Sanitized # Normalized
  /\ Attempt(Sanitized, ToEscaped)

SkipSanitized ==
  /\ phase = "sanitized"
  /\ Sanitized = <<>> \/ Sanitized = Normalized
  /\ phase' = ToEscaped
  /\ UNCHANGED <<text, sent, answer, shown>>

SendEscaped ==
  /\ phase = "escaped"
  /\ Attempt(Escaped, "failed")

Next == SendNormalized \/ SendSanitized \/ SkipSanitized \/ SendEscaped

Spec == Init /\ [][Next]_vars

-----------------------------------------------------------------------------
(* Properties                                                              *)

\* Every variable has its type.
TypeOK ==
  /\ text \in Seq(Pieces)
  /\ phase \in {"normalized", "sanitized", "escaped", "done", "failed"}
  /\ Len(sent) <= 3
  /\ answer \in {"none", "ok", "parse", "empty", "refused", "lost", "unreachable"}
  /\ Len(shown) <= Len(sent)

\* A reply is shown at most once: an attempt that Telegram may have shown,
\* because only its answer was lost, is not followed by another text.
ShownOnce == Len(shown) <= 1

\* Markup never costs the reply: after the first text Telegram can parse what it
\* is given, whatever tags the model wrote, and no delivery ends because it
\* could not.
MarkupNeverFatal == Len(sent) > 1 \/ phase = "failed" => answer # "parse"

\* The words among the first n pieces of t, in their order.
WordsUpTo(t) ==
  LET words[n \in 0..Len(t)] ==
        IF n = 0 THEN <<>>
        ELSE IF t[n].kind = "word" THEN Append(words[n - 1], t[n]) ELSE words[n - 1]
  IN  words

Words(t) == WordsUpTo(t)[Len(t)]

\* Whatever is tried and whatever Telegram answers, the chat sees a delivery as
\* Message promises it: once, with all the words the reply has before a tag that
\* never ends, or not at all.
Promised == INSTANCE Message WITH
  words <- Words(UpToHalf(text)),
  status <- CASE phase = "done" -> "done" [] phase = "failed" -> "failed" [] OTHER -> "pending",
  chat <- [k \in 1..Len(shown) |-> Words(shown[k])]

KeepsPromise == Promised!Spec

\* Normalize restores the escaped tags, "leaving all other content unchanged"
\* (normalize.go): a reply that is shown has all its words.
ShownWhole == \A k \in 1..Len(shown) : Words(shown[k]) = Words(text)

=============================================================================
