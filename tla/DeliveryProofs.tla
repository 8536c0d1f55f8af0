--------------------------- MODULE DeliveryProofs ---------------------------
(***************************************************************************)
(* Theorems of Delivery for every reply of every length, and whatever the  *)
(* pieces are: three attempts at most, one shown text at most, no reply    *)
(* lost to its markup, and the promise of Message.                         *)
(*                                                                         *)
(* The last two need what the texts say: Sanitize leaves nothing open that *)
(* it opened, and no text of a reply has other words than the reply.  Both *)
(* are recursions over a text, and proved with LeftFolds.                  *)
(***************************************************************************)
EXTENDS Delivery, LeftFolds

-----------------------------------------------------------------------------
(* The attempts, whatever the texts are                                    *)

\* The three texts that are made of a reply.
Variants == {Normalized, Sanitized, Escaped}

Phases == {"normalized", "sanitized", "escaped", "done", "failed"}

\* How many texts may have been sent by the time a phase begins.
SentBefore(p) ==
  CASE p = "normalized" -> 0
    [] p = "sanitized" -> 1
    [] p = "escaped" -> 2
    [] OTHER -> 3

Typing ==
  /\ text \in Seq(Pieces)
  /\ phase \in Phases
  /\ sent \in Seq(Variants)
  /\ shown \in Seq(Variants)
  /\ answer \in {"none", "ok", "parse", "empty", "refused", "lost", "unreachable"}
  /\ Len(sent) <= SentBefore(phase)
  /\ Len(shown) <= Len(sent)

\* A delivery goes on only while nothing is shown.
Unshown ==
  /\ phase \in {"normalized", "sanitized", "escaped"} => shown = <<>>
  /\ Len(shown) <= 1

AttemptInv == Typing /\ Unshown

\* A text Telegram could not parse is not shown, and every answer is a known one.
LEMMA AnswersKnown ==
  ASSUME NEW t, NEW a \in Answers(t)
  PROVE  a \in {"ok", "parse", "empty", "refused", "lost", "unreachable"}
  BY DEF Answers

\* A reply is a sequence of pieces and nothing has been sent yet.
LEMMA StartsUnsent == Init => AttemptInv
<1> SUFFICES ASSUME Init PROVE AttemptInv
  OBVIOUS
<1>1. PICK n \in 1..MaxLen : text \in [1..n -> Pieces]
  BY DEF Init
<1>2. n \in Nat
  BY MaxLenAssumption
<1>3. text \in Seq(Pieces)
  BY <1>1, <1>2
<1>4. QED
  BY <1>3 DEF Init, AttemptInv, Typing, Unshown, Phases, SentBefore

\* An attempt with one of the three texts, from a phase that has one more text
\* to send than the phase after a parse error has behind it.
LEMMA AttemptKeeps ==
  ASSUME AttemptInv, NEW t \in Variants, NEW after \in Phases,
         phase \in {"normalized", "sanitized", "escaped"},
         SentBefore(phase) + 1 <= SentBefore(after),
         Attempt(t, after)
  PROVE  AttemptInv'
<1>1. PICK a \in Answers(t) :
        /\ sent' = Append(sent, t)
        /\ answer' = a
        /\ shown' = IF a \in {"ok", "lost"} THEN Append(shown, t) ELSE shown
        /\ phase' = CASE a = "ok" -> "done"
                      [] a = "parse" -> after
                      [] OTHER -> "failed"
        /\ UNCHANGED text
  BY Zenon DEF Attempt
<1>2. a \in {"ok", "parse", "empty", "refused", "lost", "unreachable"}
  BY <1>1, AnswersKnown
<1>3. Variants' = Variants
  BY <1>1 DEF Variants, Normalized, Sanitized, Escaped
<1>4. shown = <<>> /\ Len(shown) = 0
  BY DEF AttemptInv, Unshown
<1>5. sent' \in Seq(Variants) /\ Len(sent') = Len(sent) + 1
  BY <1>1 DEF AttemptInv, Typing
<1>6. shown' \in Seq(Variants) /\ Len(shown') <= 1
  BY <1>1, <1>4 DEF AttemptInv, Typing
<1>7. a = "parse" => shown' = <<>> /\ phase' = after
  BY <1>1, <1>4
<1>8. a # "parse" => phase' \in {"done", "failed"}
  BY <1>1
<1>9. Len(sent') <= SentBefore(phase')
  BY <1>5, <1>7, <1>8 DEF AttemptInv, Typing, SentBefore, Phases
<1>10. Typing'
  <2>1. text' \in Seq(Pieces)
    BY <1>1 DEF AttemptInv, Typing
  <2>2. phase' \in Phases
    BY <1>7, <1>8 DEF Phases
  <2>3. sent' \in Seq(Variants') /\ shown' \in Seq(Variants')
    BY <1>3, <1>5, <1>6
  <2>4. Len(shown') <= Len(sent')
    BY <1>4, <1>5, <1>6 DEF AttemptInv, Typing
  <2>5. QED
    BY <1>1, <1>2, <1>9, <2>1, <2>2, <2>3, <2>4 DEF Typing
<1>11. Unshown'
  BY <1>6, <1>7, <1>8 DEF Unshown
<1>12. QED
  BY <1>10, <1>11 DEF AttemptInv

\* After sanitizing, either the escaped text follows or the delivery fails.
LEMMA EscapedFollows ==
  ToEscaped \in {"escaped", "failed"}
  BY DEF ToEscaped

\* Every step keeps the invariant.
LEMMA StepKeeps == AttemptInv /\ [Next]_vars => AttemptInv'
<1> SUFFICES ASSUME AttemptInv, [Next]_vars PROVE AttemptInv'
  OBVIOUS
<1>1. CASE SendNormalized
  <2>1. SentBefore(phase) + 1 <= SentBefore("sanitized")
    BY <1>1 DEF SendNormalized, SentBefore
  <2>2. QED
    BY <1>1, <2>1, AttemptKeeps DEF SendNormalized, Variants, Phases
<1>2. CASE SendSanitized
  <2>1. SentBefore(phase) + 1 <= SentBefore(ToEscaped)
    BY <1>2, EscapedFollows DEF SendSanitized, SentBefore
  <2>2. QED
    BY <1>2, <2>1, EscapedFollows, AttemptKeeps DEF SendSanitized, Variants, Phases
<1>3. CASE SkipSanitized
  <2>1. /\ phase = "sanitized" /\ phase' \in {"escaped", "failed"}
        /\ UNCHANGED <<text, sent, answer, shown>>
    BY <1>3, EscapedFollows DEF SkipSanitized
  <2>2. Variants' = Variants
    BY <2>1 DEF Variants, Normalized, Sanitized, Escaped
  <2>3. Len(sent') <= SentBefore(phase')
    BY <2>1 DEF AttemptInv, Typing, SentBefore
  <2>4. QED
    BY <2>1, <2>2, <2>3 DEF AttemptInv, Typing, Unshown, Phases
<1>4. CASE SendEscaped
  <2>1. SentBefore(phase) + 1 <= SentBefore("failed")
    BY <1>4 DEF SendEscaped, SentBefore
  <2>2. QED
    BY <1>4, <2>1, AttemptKeeps DEF SendEscaped, Variants, Phases
<1>5. CASE UNCHANGED vars
  <2>1. Variants' = Variants
    BY <1>5 DEF vars, Variants, Normalized, Sanitized, Escaped
  <2>2. QED
    BY <1>5, <2>1 DEF vars, AttemptInv, Typing, Unshown
<1>6. QED
  BY <1>1, <1>2, <1>3, <1>4, <1>5 DEF Next

LEMMA AttemptsInvariant == Spec => []AttemptInv
  BY StartsUnsent, StepKeeps, PTL DEF Spec

\* No reply takes more than three attempts, whatever Telegram answers.
THEOREM ThreeAttempts == Spec => []TypeOK
<1>1. AttemptInv => TypeOK
  BY DEF AttemptInv, Typing, TypeOK, SentBefore, Phases
<1>2. QED
  BY <1>1, AttemptsInvariant, PTL

\* A reply is shown at most once, even when the answer to an attempt is lost.
THEOREM Once == Spec => []ShownOnce
<1>1. AttemptInv => ShownOnce
  BY DEF AttemptInv, Unshown, ShownOnce
<1>2. QED
  BY <1>1, AttemptsInvariant, PTL

-----------------------------------------------------------------------------
(* What is open and which words there are after a text                     *)

Rendered == {"b", "i", "u", "s", "tg-spoiler", "a", "code", "pre", "blockquote", "tg-emoji",
             "tg-time"}
TagNames == {p.name : p \in Pieces} \cup Rendered \cup {"", "bad"}
Kinds == {"word", "break", "open", "close", "comment", "eopen", "eclose", "lone", "stray",
          "half", "dash", "shown"}
PieceSet == [kind : Kinds, name : TagNames, full : BOOLEAN]
Names == Seq(TagNames)
WordLists == Seq(PieceSet)

ReadStep == [sp \in Names \X PieceSet |-> Reads(sp[1], sp[2])]

WordStep ==
  [wp \in WordLists \X PieceSet |->
     IF wp[2].kind = "word" THEN Append(wp[1], wp[2]) ELSE wp[1]]

\* The tags open at the end of a text, and its words.
OpenAtEnd(t) == LeftFold(ReadStep, <<>>, t)
WordsOf(t) == LeftFold(WordStep, <<>>, t)

\* The steps make what they are given.
LEMMA StepsTyped ==
  /\ <<>> \in Names /\ <<>> \in WordLists
  /\ StepOn(ReadStep, PieceSet, Names)
  /\ StepOn(WordStep, PieceSet, WordLists)
<1>1. ASSUME NEW s \in Names, NEW p \in PieceSet PROVE Reads(s, p) \in Names
  <2>1. "bad" \in TagNames /\ p.name \in TagNames
    BY DEF TagNames, PieceSet
  <2> HIDE DEF PieceSet, TagNames
  <2>2. Bad \in Names /\ Append(s, p.name) \in Names
    BY <2>1 DEF Bad, Names
  <2>3. s # <<>> => SubSeq(s, 1, Len(s) - 1) \in Names
    BY DEF Names
  <2> QED
    BY <2>2, <2>3 DEF Reads
<1>2. StepOn(ReadStep, PieceSet, Names)
  BY <1>1 DEF ReadStep, StepOn
<1> HIDE DEF PieceSet
<1>3. ASSUME NEW s \in Seq(PieceSet), NEW p \in PieceSet PROVE Append(s, p) \in Seq(PieceSet)
  OBVIOUS
<1>4. StepOn(WordStep, PieceSet, WordLists)
  BY <1>3 DEF WordStep, StepOn, WordLists
<1> QED
  BY <1>2, <1>4 DEF Names, WordLists

\* Telegram parses a text when nothing is open at its end.
LEMMA ParsesOpen ==
  ASSUME NEW t \in Seq(PieceSet)
  PROVE  Parses(t) <=> OpenAtEnd(t) = <<>>
<1>1. PICK f \in [0..Len(t) -> Names] : IsFold(f, ReadStep, <<>>, t)
  BY StepsTyped, FoldExists
<1>2. Len(t) \in Nat /\ \A n \in 1..Len(t) : t[n] \in PieceSet /\ n - 1 \in 0..Len(t)
  OBVIOUS
<1>3. \A n \in 1..Len(t) : f[n] = Reads(f[n - 1], t[n])
  BY <1>1, <1>2 DEF IsFold, ReadStep
<1>4. f = [n \in 0..Len(t) |-> IF n = 0 THEN <<>> ELSE Reads(f[n - 1], t[n])]
  BY <1>1, <1>2, <1>3 DEF IsFold
<1> DEFINE g == OpenTags(t)
<1>5. g = [n \in 0..Len(t) |-> IF n = 0 THEN <<>> ELSE Reads(g[n - 1], t[n])]
  BY <1>4 DEF OpenTags
<1> HIDE DEF g
<1>6. Follows(g, f, Len(t))
  <2>1. \A n \in 1..Len(t) : n \in 0..Len(t) /\ n # 0
    BY <1>2
  <2>2. f[0] = <<>> /\ g[0] = <<>>
    BY <1>1, <1>2, <1>5 DEF IsFold
  <2> QED
    BY <1>3, <1>5, <2>1, <2>2 DEF Follows
<1>7. Agree(f, g, 0..Len(t))
  BY <1>2, <1>6, SameSteps
<1>8. g[Len(t)] = f[Len(t)]
  BY <1>2, <1>7 DEF Agree
<1> QED
  BY <1>1, <1>8, FoldIs DEF Parses, OpenAtEnd, g

\* Words is the fold of the words.
LEMMA WordsFold ==
  ASSUME NEW t \in Seq(PieceSet)
  PROVE  Words(t) = WordsOf(t)
<1> DEFINE Grown(v, p) == IF p.kind = "word" THEN Append(v, p) ELSE v
<1>1. PICK f \in [0..Len(t) -> WordLists] : IsFold(f, WordStep, <<>>, t)
  BY StepsTyped, FoldExists
<1>2. Len(t) \in Nat /\ \A n \in 1..Len(t) : t[n] \in PieceSet /\ n - 1 \in 0..Len(t)
  OBVIOUS
<1>3. \A n \in 1..Len(t) : f[n] = Grown(f[n - 1], t[n])
  <2> HIDE DEF PieceSet
  <2> QED
    BY <1>1, <1>2 DEF IsFold, WordStep
<1>4. f = [n \in 0..Len(t) |-> IF n = 0 THEN <<>> ELSE Grown(f[n - 1], t[n])]
  <2> HIDE DEF Grown
  <2> QED
    BY <1>1, <1>2, <1>3 DEF IsFold
<1> DEFINE g == WordsUpTo(t)
<1>5. g = [n \in 0..Len(t) |-> IF n = 0 THEN <<>> ELSE Grown(g[n - 1], t[n])]
  BY <1>4 DEF WordsUpTo
<1> HIDE DEF g, Grown
<1>6. Follows(g, f, Len(t))
  <2>1. \A n \in 1..Len(t) : n \in 0..Len(t) /\ n # 0
    BY <1>2
  <2>2. f[0] = <<>> /\ g[0] = <<>>
    BY <1>1, <1>2, <1>5 DEF IsFold
  <2> QED
    BY <1>3, <1>5, <2>1, <2>2 DEF Follows
<1>7. Agree(f, g, 0..Len(t))
  BY <1>2, <1>6, SameSteps
<1>8. g[Len(t)] = f[Len(t)]
  BY <1>2, <1>7 DEF Agree
<1> QED
  BY <1>1, <1>8, FoldIs DEF Words, WordsOf, g

\* Over nothing, nothing; and one piece more.
LEMMA NothingRead ==
  OpenAtEnd(<<>>) = <<>> /\ WordsOf(<<>>) = <<>>
<1> HIDE DEF PieceSet, Names, WordLists
<1> QED
  BY StepsTyped, FoldEmpty DEF OpenAtEnd, WordsOf

LEMMA ReadTyped ==
  ASSUME NEW t \in Seq(PieceSet)
  PROVE  OpenAtEnd(t) \in Names /\ WordsOf(t) \in WordLists
<1> HIDE DEF PieceSet, Names, WordLists
<1> QED
  BY StepsTyped, FoldTyped DEF OpenAtEnd, WordsOf

LEMMA OneMore ==
  ASSUME NEW t \in Seq(PieceSet), NEW p \in PieceSet
  PROVE  /\ OpenAtEnd(Append(t, p)) = Reads(OpenAtEnd(t), p)
         /\ WordsOf(Append(t, p)) = IF p.kind = "word" THEN Append(WordsOf(t), p) ELSE WordsOf(t)
<1> HIDE DEF PieceSet, Names, WordLists
<1>1. OpenAtEnd(t) \in Names /\ WordsOf(t) \in WordLists
  BY ReadTyped
<1>2. OpenAtEnd(Append(t, p)) = ReadStep[<<OpenAtEnd(t), p>>]
  BY StepsTyped, FoldAppend DEF OpenAtEnd
<1>3. WordsOf(Append(t, p)) = WordStep[<<WordsOf(t), p>>]
  BY StepsTyped, FoldAppend DEF WordsOf
<1> QED
  BY <1>1, <1>2, <1>3 DEF ReadStep, WordStep

-----------------------------------------------------------------------------
(* Normalize and html.EscapeString                                         *)

\* What two texts have in common place by place: their words.
LEMMA SameWords ==
  ASSUME NEW t \in Seq(PieceSet), NEW u \in Seq(PieceSet), Len(u) = Len(t),
         \A n \in 1..Len(t) : /\ u[n].kind = "word" <=> t[n].kind = "word"
                              /\ t[n].kind = "word" => u[n] = t[n]
  PROVE  WordsOf(u) = WordsOf(t)
<1>1. PICK f \in [0..Len(t) -> WordLists] : IsFold(f, WordStep, <<>>, t)
  BY StepsTyped, FoldExists
<1>2. PICK g \in [0..Len(u) -> WordLists] : IsFold(g, WordStep, <<>>, u)
  BY StepsTyped, FoldExists
<1>3. ASSUME NEW n \in 1..Len(t), f[n - 1] = g[n - 1] PROVE f[n] = g[n]
  <2> HIDE DEF PieceSet, WordLists
  <2>1. n - 1 \in 0..Len(t) /\ t[n] \in PieceSet /\ u[n] \in PieceSet
    OBVIOUS
  <2>2. f[n] = IF t[n].kind = "word" THEN Append(f[n - 1], t[n]) ELSE f[n - 1]
    BY <1>1, <2>1 DEF IsFold, WordStep
  <2>3. g[n] = IF u[n].kind = "word" THEN Append(g[n - 1], u[n]) ELSE g[n - 1]
    BY <1>2, <2>1 DEF IsFold, WordStep
  <2> QED
    BY <1>3, <2>2, <2>3
<1>4. Follows(g, f, Len(t))
  BY <1>1, <1>2, <1>3 DEF Follows, IsFold
<1>5. Len(t) \in Nat /\ Len(t) \in 0..Len(t)
  OBVIOUS
<1>6. Agree(f, g, 0..Len(t))
  BY <1>4, <1>5, SameSteps
<1>7. f[Len(t)] = g[Len(t)]
  BY <1>5, <1>6 DEF Agree
<1>8. WordsOf(t) = f[Len(t)] /\ WordsOf(u) = g[Len(u)]
  BY <1>1, <1>2, FoldIs DEF WordsOf
<1> QED
  BY <1>7, <1>8

\* The pieces of a reply are among the pieces of a text.
LEMMA PiecesTyped ==
  /\ Pieces \subseteq PieceSet
  /\ \A p \in Pieces : p.kind \notin {"dash", "shown"} /\ Canonical(p.name) \in TagNames
<1>1. ASSUME NEW p \in Pieces
      PROVE  p \in PieceSet /\ p.kind \notin {"dash", "shown"} /\ Canonical(p.name) \in TagNames
  <2>1. p \in [kind : {"word", "break", "open", "close", "comment", "eopen", "eclose", "lone",
                      "stray", "half"},
               name : {q.name : q \in Pieces}, full : BOOLEAN]
    BY PiecesAssumption
  <2>2. p.name \in TagNames
    BY DEF TagNames
  <2>3. Canonical(p.name) \in TagNames
    BY <2>2 DEF Canonical, TagNames, Rendered
  <2> HIDE DEF TagNames
  <2>4. p \in PieceSet
    BY <2>1, <2>2 DEF PieceSet, Kinds
  <2> QED
    BY <2>1, <2>3, <2>4
<1> QED
  BY <1>1

\* Text in which every tag ends is read as a whole.
LEMMA UpToHalfWhole ==
  ASSUME NEW t, \A n \in 1..Len(t) : t[n].kind # "half"
  PROVE  UpToHalf(t) = t
<1>1. {n \in 1..Len(t) : t[n].kind = "half"} = {}
  OBVIOUS
<1> QED
  BY <1>1 DEF UpToHalf

\* What is read of a text has no tag that never ends.
LEMMA UpToHalfEnds ==
  ASSUME NEW S, NEW t \in Seq(S)
  PROVE  /\ UpToHalf(t) \in Seq(S)
         /\ \A n \in 1..Len(UpToHalf(t)) : UpToHalf(t)[n].kind # "half"
<1> DEFINE halves == {n \in 1..Len(t) : t[n].kind = "half"}
           first == CHOOSE n \in halves : \A k \in halves : n <= k
<1>1. UpToHalf(t) = IF halves = {} THEN t ELSE SubSeq(t, 1, first - 1)
  BY DEF UpToHalf
<1>2. Len(t) \in Nat /\ halves \subseteq Nat
  OBVIOUS
<1>3. CASE halves = {}
  BY <1>1, <1>3
<1>4. CASE halves # {}
  <2>1. \E n \in halves : \A k \in halves : n <= k
    <3> HIDE DEF halves
    <3> QED
      BY <1>2, <1>4, LeastNat
  <2>2. first \in halves /\ \A k \in halves : first <= k
    BY <2>1
  <2> HIDE DEF first
  <2>3. /\ first \in 1..Len(t)
        /\ \A n \in 1..(first - 1) : n \in 1..Len(t) /\ n \notin halves
    BY <1>2, <2>2
  <2>4. \A n \in 1..(first - 1) : t[n].kind # "half"
    BY <2>3
  <2>5. UpToHalf(t) = SubSeq(t, 1, first - 1)
    BY <1>1, <1>4
  <2> HIDE DEF halves
  <2>6. /\ SubSeq(t, 1, first - 1) \in Seq(S) /\ Len(SubSeq(t, 1, first - 1)) = first - 1
        /\ \A n \in 1..(first - 1) : SubSeq(t, 1, first - 1)[n] = t[n]
    BY <1>2, <2>3
  <2> QED
    BY <2>4, <2>5, <2>6
<1> QED
  BY <1>3, <1>4

\* Rendering turns pieces into tags one by one, and never a word.
LEMMA TokensKeep ==
  ASSUME NEW t \in Seq(Pieces), \A n \in 1..Len(t) : t[n].kind # "half"
  PROVE  /\ NormalizeTokens(t) \in Seq(PieceSet)
         /\ WordsOf(NormalizeTokens(t)) = WordsOf(t)
         /\ t \in Seq(PieceSet)
         /\ \A n \in 1..Len(NormalizeTokens(t)) : NormalizeTokens(t)[n].kind # "half"
<1> DEFINE u == NormalizeTokens(t)
<1>1. t \in Seq(PieceSet)
  <2> HIDE DEF PieceSet
  <2> QED
    BY PiecesTyped
<1>2. Len(t) \in Nat /\ Len(u) = Len(t)
  BY DEF NormalizeTokens
<1>3. ASSUME NEW n \in 1..Len(t)
      PROVE  /\ u[n] \in PieceSet
             /\ u[n].kind # "half"
             /\ u[n].kind = "word" <=> t[n].kind = "word"
             /\ t[n].kind = "word" => u[n] = t[n]
  <2>1. t[n] \in Pieces
    OBVIOUS
  <2>2. \/ u[n] = t[n]
        \/ t[n].kind = "eopen" /\ u[n] = Tag("open", t[n].name)
        \/ t[n].kind = "eclose" /\ u[n] = Tag("close", t[n].name)
    BY DEF NormalizeTokens, RendersOpen, RendersClose
  <2> HIDE DEF u
  <2>3. t[n] \in PieceSet /\ Canonical(t[n].name) \in TagNames
    BY <2>1, PiecesTyped
  <2> HIDE DEF TagNames
  <2>4. CASE u[n] = t[n]
    BY <2>3, <2>4
  <2>5. ASSUME NEW kind \in {"open", "close"} PROVE Tag(kind, t[n].name) \in PieceSet
    BY <2>3, <2>5 DEF Tag, PieceSet, Kinds
  <2>6. Tag("open", t[n].name).kind = "open" /\ Tag("close", t[n].name).kind = "close"
    BY DEF Tag
  <2>7. CASE t[n].kind = "eopen" /\ u[n] = Tag("open", t[n].name)
    BY <2>5, <2>6, <2>7
  <2>8. CASE t[n].kind = "eclose" /\ u[n] = Tag("close", t[n].name)
    BY <2>5, <2>6, <2>8
  <2> QED
    BY <2>2, <2>4, <2>7, <2>8
<1>4. u = [n \in 1..Len(t) |-> u[n]]
  BY DEF NormalizeTokens
<1>5. u \in Seq(PieceSet)
  <2> HIDE DEF u, PieceSet
  <2>1. \A n \in 1..Len(t) : u[n] \in PieceSet
    BY <1>3
  <2>2. u \in [1..Len(t) -> PieceSet]
    BY <1>4, <2>1
  <2> QED
    BY <1>2, <2>2
<1> HIDE DEF u
<1>6. WordsOf(u) = WordsOf(t)
  BY <1>1, <1>2, <1>3, <1>5, SameWords
<1> QED
  BY <1>1, <1>2, <1>3, <1>5, <1>6 DEF u

\* Normalizing keeps the words it reads.
LEMMA NormalizeKeeps ==
  ASSUME NEW t \in Seq(Pieces)
  PROVE  /\ Normalize(t) \in Seq(PieceSet) /\ UpToHalf(t) \in Seq(PieceSet)
         /\ WordsOf(Normalize(t)) = WordsOf(UpToHalf(t))
         /\ UpToHalf(Normalize(t)) = Normalize(t)
<1>1. /\ UpToHalf(t) \in Seq(Pieces)
      /\ \A n \in 1..Len(UpToHalf(t)) : UpToHalf(t)[n].kind # "half"
  BY UpToHalfEnds
<1> HIDE DEF PieceSet
<1> QED
  BY <1>1, TokensKeep, UpToHalfWhole DEF Normalize

\* Escaped text carries no markup, and keeps its words.
LEMMA EscapeKeeps ==
  ASSUME NEW t \in Seq(PieceSet)
  PROVE  /\ EscapeString(t) \in Seq(PieceSet)
         /\ WordsOf(EscapeString(t)) = WordsOf(t)
         /\ OpenAtEnd(EscapeString(t)) = <<>>
<1> DEFINE u == EscapeString(t)
<1>1. Len(t) \in Nat /\ Len(u) = Len(t) /\ u = [n \in 1..Len(t) |-> u[n]]
  BY DEF EscapeString
<1>2. ASSUME NEW n \in 1..Len(t)
      PROVE  /\ u[n] \in PieceSet
             /\ u[n].kind = "word" <=> t[n].kind = "word"
             /\ t[n].kind = "word" => u[n] = t[n]
             /\ u[n].kind \in {"word", "break", "dash", "shown"}
  <2>1. t[n] \in PieceSet
    OBVIOUS
  <2>2. u[n] = IF t[n].kind \in {"word", "break", "dash"} THEN t[n]
                ELSE [t[n] EXCEPT !.kind = "shown"]
    BY DEF EscapeString
  <2> HIDE DEF u, TagNames
  <2> QED
    BY <2>1, <2>2 DEF PieceSet, Kinds
<1>3. u \in Seq(PieceSet)
  <2> HIDE DEF u, PieceSet
  <2>1. \A n \in 1..Len(t) : u[n] \in PieceSet
    BY <1>2
  <2>2. u \in [1..Len(t) -> PieceSet]
    BY <1>1, <2>1
  <2> QED
    BY <1>1, <2>2
<1> HIDE DEF u
<1>4. WordsOf(u) = WordsOf(t)
  BY <1>1, <1>2, <1>3, SameWords
<1>5. Neutral(ReadStep, Names, u, 1..Len(u))
  <2> SUFFICES ASSUME NEW n \in 1..Len(u), NEW s \in Names PROVE ReadStep[<<s, u[n]>>] = s
    BY DEF Neutral
  <2>1. u[n] \in PieceSet /\ u[n].kind \in {"word", "break", "dash", "shown"}
    BY <1>1, <1>2
  <2> HIDE DEF PieceSet, Names
  <2>2. ReadStep[<<s, u[n]>>] = Reads(s, u[n])
    BY <2>1 DEF ReadStep
  <2>3. Reads(s, u[n]) = s
    BY <2>1 DEF Reads
  <2> QED
    BY <2>2, <2>3
<1>6. OpenAtEnd(u) = <<>>
  BY <1>3, <1>5, StepsTyped, FoldNothing DEF OpenAtEnd
<1> QED
  BY <1>3, <1>4, <1>6 DEF u

-----------------------------------------------------------------------------
(* What is written so far, by the pieces that are added                    *)

Stacks == Seq(Rendered)

\* What has been written has this open, and these words.
SoFar(out, stack, words) ==
  out \in Seq(PieceSet) /\ OpenAtEnd(out) = stack /\ stack \in Stacks /\ WordsOf(out) = words

LEMMA StacksTyped ==
  /\ Stacks \subseteq Names
  /\ \A s \in Stacks : s # Bad
<1>1. Rendered \subseteq TagNames
  BY DEF TagNames
<1> HIDE DEF TagNames
<1>2. ASSUME NEW s \in Stacks PROVE s \in Names
  <2> HIDE DEF Rendered
  <2> QED
    BY <1>1 DEF Stacks, Names
<1>3. ASSUME NEW s \in Stacks, s = Bad PROVE FALSE
  <2>1. s[1] \in Rendered
    BY <1>3 DEF Stacks, Bad
  <2>2. s[1] = "bad"
    BY <1>3 DEF Bad
  <2> QED
    BY <2>1, <2>2 DEF Rendered
<1> QED
  BY <1>2, <1>3

PlainKinds == {"word", "break", "eopen", "eclose", "lone", "dash", "shown"}

\* A piece that is no tag opens and closes nothing.
LEMMA PlainAdded ==
  ASSUME NEW out, NEW stack, NEW words, SoFar(out, stack, words),
         NEW p \in PieceSet, p.kind \in PlainKinds
  PROVE  SoFar(Append(out, p), stack, IF p.kind = "word" THEN Append(words, p) ELSE words)
<1> HIDE DEF PieceSet
<1>1. out \in Seq(PieceSet) /\ stack # Bad
  BY StacksTyped DEF SoFar
<1>2. Append(out, p) \in Seq(PieceSet)
  BY <1>1
<1>3. Reads(stack, p) = stack
  BY <1>1 DEF Reads, PlainKinds
<1> QED
  BY <1>1, <1>2, <1>3, OneMore DEF SoFar

LEMMA MadePieces ==
  /\ Break \in PieceSet /\ Dash \in PieceSet /\ Lone \in PieceSet
  /\ Break.kind = "break" /\ Dash.kind = "dash" /\ Lone.kind = "lone"
  /\ \A kind \in {"open", "close"} : \A name : Canonical(name) \in Rendered =>
       /\ Tag(kind, name) \in PieceSet
       /\ Tag(kind, name).kind = kind
       /\ Tag(kind, name).name = Canonical(name)
       /\ Tag(kind, name).full = TRUE
<1>1. "" \in TagNames /\ Rendered \subseteq TagNames
  BY DEF TagNames
<1> HIDE DEF TagNames, Rendered
<1>2. Break \in PieceSet /\ Dash \in PieceSet /\ Lone \in PieceSet
  BY <1>1 DEF Break, Dash, Lone, PieceSet, Kinds
<1>3. ASSUME NEW kind \in {"open", "close"}, NEW name, Canonical(name) \in Rendered
      PROVE  /\ Tag(kind, name) \in PieceSet
             /\ Tag(kind, name).kind = kind
             /\ Tag(kind, name).name = Canonical(name)
             /\ Tag(kind, name).full = TRUE
  BY <1>1, <1>3 DEF Tag, PieceSet, Kinds
<1> QED
  BY <1>2, <1>3 DEF Break, Dash, Lone

\* Neither do line breaks.
LEMMA BreaksAdded ==
  ASSUME NEW out, NEW stack, NEW words, SoFar(out, stack, words), NEW count \in {1, 2}
  PROVE  SoFar(WithBreaks(out, count), stack, words)
<1> HIDE DEF PieceSet
<1>1. SoFar(Append(out, Break), stack, words)
  BY MadePieces, PlainAdded DEF PlainKinds
<1>2. SoFar(Append(Append(out, Break), Break), stack, words)
  BY <1>1, MadePieces, PlainAdded DEF PlainKinds
<1>3. out \o <<Break, Break>> = Append(Append(out, Break), Break)
  BY MadePieces DEF SoFar
<1>4. \/ WithBreaks(out, count) = out
      \/ WithBreaks(out, count) = Append(out, Break)
      \/ WithBreaks(out, count) = out \o <<Break, Break>>
  BY DEF WithBreaks
<1> QED
  BY <1>1, <1>2, <1>3, <1>4

\* What is rendered is written by its own name.
LEMMA RenderedNames ==
  /\ \A name \in Rendered : Canonical(name) = name
  /\ \A p : EndAllowed(p) <=> Canonical(p.name) \in Rendered
  /\ \A p : StartAllowed(p) => EndAllowed(p)
<1>1. \A name \in Rendered : Canonical(name) = name
  BY DEF Rendered, Canonical
<1>2. \A p : EndAllowed(p) <=> Canonical(p.name) \in Rendered
  BY DEF EndAllowed, Rendered
<1> QED
  BY <1>1, <1>2 DEF StartAllowed

\* An opened tag stands on the stack.
LEMMA OpenAdded ==
  ASSUME NEW out, NEW stack, NEW words, SoFar(out, stack, words), NEW p, StartAllowed(p)
  PROVE  SoFar(Append(out, Tag("open", p.name)), Append(stack, Canonical(p.name)), words)
<1> DEFINE c == Canonical(p.name)
           q == Tag("open", p.name)
<1>1. c \in Rendered /\ Canonical(c) = c
  BY RenderedNames
<1>2. q \in PieceSet /\ q.kind = "open" /\ q.name = c /\ q.full = TRUE
  BY <1>1, MadePieces
<1> HIDE DEF c, q, PieceSet
<1>3. StartAllowed(q)
  BY <1>1, <1>2, RenderedNames DEF StartAllowed
<1>4. out \in Seq(PieceSet) /\ stack # Bad /\ stack \in Stacks
  BY StacksTyped DEF SoFar
<1>5. Reads(stack, q) = Append(stack, c)
  BY <1>2, <1>3, <1>4 DEF Reads
<1>6. Append(out, q) \in Seq(PieceSet)
  BY <1>2, <1>4
<1>7. Append(stack, c) \in Stacks
  <2> HIDE DEF Rendered
  <2> QED
    BY <1>1, <1>4 DEF Stacks
<1>8. SoFar(Append(out, q), Append(stack, c), words)
  BY <1>2, <1>4, <1>5, <1>6, <1>7, OneMore DEF SoFar
<1> QED
  BY <1>8 DEF c, q

\* What is left of a stack is its beginning.
LEMMA CutIsPrefix ==
  ASSUME NEW stack \in Stacks, NEW name
  PROVE  \E j \in 0..Len(stack) : CutAt(stack, name) = SubSeq(stack, 1, j)
<1> DEFINE at == {k \in 1..Len(stack) : stack[k] = name}
           k == CHOOSE k \in at : \A j \in at : j <= k
<1>1. Len(stack) \in Nat /\ SubSeq(stack, 1, Len(stack)) = stack
  <2> HIDE DEF Rendered
  <2> QED
    BY DEF Stacks
<1>2. CASE at = {}
  <2>1. CutAt(stack, name) = stack
    BY <1>2 DEF CutAt
  <2>2. Len(stack) \in 0..Len(stack)
    BY <1>1
  <2> QED
    BY <1>1, <2>1, <2>2
<1>3. CASE at # {}
  <2>1. at \subseteq 1..Len(stack)
    OBVIOUS
  <2>2. CutAt(stack, name) = SubSeq(stack, 1, k - 1)
    BY <1>3 DEF CutAt
  <2> HIDE DEF at
  <2>3. \E l \in at : \A j \in at : j <= l
    BY <1>1, <1>3, <2>1, LastOne
  <2>4. k \in at
    BY <2>3
  <2> HIDE DEF k
  <2>5. k - 1 \in 0..Len(stack)
    BY <1>1, <2>1, <2>4
  <2> QED
    BY <2>2, <2>5
<1> QED
  BY <1>2, <1>3

\* Closing tags, innermost first, leave what was opened before them.
LEMMA CloseAdded ==
  ASSUME NEW out, NEW stack, NEW words, SoFar(out, stack, words), NEW j \in 0..Len(stack)
  PROVE  SoFar(out \o Closings(SubSeq(stack, j + 1, Len(stack))), SubSeq(stack, 1, j), words)
<1> DEFINE l == Len(stack)
           m == l - j
           u == SubSeq(stack, j + 1, l)
           t == Closings(u)
           left(k) == SubSeq(stack, 1, l - k)
<1>1. out \in Seq(PieceSet) /\ stack \in Stacks /\ OpenAtEnd(out) = stack /\ WordsOf(out) = words
  BY DEF SoFar
<1>2. l \in Nat /\ m \in Nat /\ j \in Nat /\ l - m = j /\ stack \in Seq(Rendered)
  BY <1>1 DEF Stacks
<1> HIDE DEF Rendered
<1>3. Len(u) = m /\ \A k \in 1..m : u[k] = stack[j + k]
  BY <1>2
<1>4. ASSUME NEW k \in 1..m
      PROVE  /\ t[k] \in PieceSet
             /\ t[k].kind = "close"
             /\ t[k].name = stack[l - (k - 1)]
  <2>1. (m + 1) - k \in 1..m /\ j + ((m + 1) - k) = l - (k - 1) /\ l - (k - 1) \in 1..l
    BY <1>2
  <2>2. t[k] = Tag("close", u[(m + 1) - k])
    <3>1. k \in 1..Len(u) /\ Len(u) + 1 - k = (m + 1) - k
      BY <1>2, <1>3, SMTT(30)
    <3> HIDE DEF u
    <3> QED
      BY <1>3, <3>1 DEF Closings
  <2>3. u[(m + 1) - k] = stack[l - (k - 1)]
    BY <1>3, <2>1
  <2>4. stack[l - (k - 1)] \in Rendered
    BY <1>2, <2>1
  <2> HIDE DEF t, u, PieceSet
  <2> QED
    BY <2>2, <2>3, <2>4, MadePieces, RenderedNames
<1>5. t = [k \in 1..m |-> t[k]] /\ Len(t) = m
  <2> HIDE DEF u
  <2>1. t = [k \in 1..m |-> Tag("close", u[Len(u) + 1 - k])]
    BY <1>3 DEF Closings
  <2> QED
    BY <1>2, <2>1
<1> HIDE DEF t, u, PieceSet
<1>6. t \in Seq(PieceSet)
  <2>1. t \in [1..m -> PieceSet]
    BY <1>4, <1>5
  <2> QED
    BY <1>2, <2>1
<1>7. ASSUME NEW k \in 0..m
      PROVE  /\ left(k) \in Stacks /\ Len(left(k)) = l - k
             /\ \A i \in 1..(l - k) : left(k)[i] = stack[i]
  BY <1>2 DEF Stacks
<1>8. OpenAtEnd(out \o t) = SubSeq(stack, 1, j)
  <2>1. stack \in Names /\ OpenAtEnd(out \o t) = LeftFold(ReadStep, stack, t)
    <3> HIDE DEF Names
    <3> QED
      BY <1>1, <1>6, StepsTyped, StacksTyped, FoldAfter DEF OpenAtEnd
  <2>2. PICK f \in [0..Len(t) -> Names] : IsFold(f, ReadStep, stack, t)
    <3> HIDE DEF Names
    <3> QED
      BY <1>6, <2>1, StepsTyped, FoldExists
  <2> DEFINE g == [n \in 0..m |-> left(n)]
  <2>3. f[0] = g[0]
    <3>1. g[0] = stack
      BY <1>2
    <3> QED
      BY <2>2, <3>1 DEF IsFold
  <2>4. ASSUME NEW n \in 1..m, f[n - 1] = g[n - 1] PROVE f[n] = g[n]
    <3>1. n - 1 \in 0..m /\ n \in 0..m /\ n \in 1..Len(t) /\ l - (n - 1) \in Nat \ {0}
          /\ (l - (n - 1)) - 1 = l - n /\ l - n \in Nat
      BY <1>2, <1>5
    <3>2. f[n - 1] = left(n - 1) /\ left(n - 1) \in Stacks /\ left(n - 1) # Bad
      BY <1>7, <2>4, <3>1, StacksTyped
    <3>3. f[n] = Reads(f[n - 1], t[n])
      <4> HIDE DEF Names
      <4>1. f[n - 1] \in Names /\ t[n] \in PieceSet
        BY <1>4, <1>5, <2>2, <3>1
      <4> QED
        BY <2>2, <3>1, <4>1 DEF ReadStep, IsFold
    <3>4. Last(left(n - 1)) = stack[l - (n - 1)] /\ left(n - 1) # <<>>
      <4>1. Len(left(n - 1)) = l - (n - 1) /\ l - (n - 1) \in 1..(l - (n - 1))
        <5>1. l - (n - 1) \in 1..(l - (n - 1))
          BY <1>2, <3>1
        <5> HIDE DEF left
        <5> QED
          BY <1>7, <3>1, <5>1
      <4>2. left(n - 1)[l - (n - 1)] = stack[l - (n - 1)]
        BY <1>7, <3>1, <4>1
      <4> HIDE DEF left
      <4>3. Last(left(n - 1)) = stack[l - (n - 1)]
        BY <4>1, <4>2 DEF Last
      <4>4. left(n - 1) # <<>>
        BY <3>1, <4>1
      <4> QED
        BY <4>3, <4>4
    <3>5. t[n].kind = "close" /\ t[n].name = Last(left(n - 1))
      BY <1>4, <3>4
    <3>6. SubSeq(left(n - 1), 1, Len(left(n - 1)) - 1) = left(n)
      <4>1. Len(left(n - 1)) - 1 = l - n
        BY <1>7, <3>1
      <4>2. SubSeq(left(n - 1), 1, l - n) = left(n)
        BY <1>2, <3>1
      <4> QED
        BY <4>1, <4>2
    <3> HIDE DEF left
    <3>7. Reads(left(n - 1), t[n]) = left(n)
      BY <3>2, <3>4, <3>5, <3>6 DEF Reads
    <3> QED
      BY <3>1, <3>2, <3>3, <3>7
  <2>5. Follows(g, f, m)
    BY <2>3, <2>4 DEF Follows
  <2>6. Agree(f, g, 0..m)
    BY <1>2, <2>5, SameSteps
  <2>7. g[m] = SubSeq(stack, 1, j)
    BY <1>2
  <2>8. f[m] = g[m]
    <3> HIDE DEF g
    <3> QED
      BY <1>2, <2>6 DEF Agree
  <2> QED
    BY <1>5, <1>6, <2>1, <2>2, <2>7, <2>8, FoldIs
<1>9. WordsOf(out \o t) = words
  <2>1. words \in WordLists /\ WordsOf(out \o t) = LeftFold(WordStep, words, t)
    <3> HIDE DEF WordLists
    <3> QED
      BY <1>1, <1>6, ReadTyped, StepsTyped, FoldAfter DEF WordsOf
  <2>2. PICK f \in [0..Len(t) -> WordLists] : IsFold(f, WordStep, words, t)
    <3> HIDE DEF WordLists
    <3> QED
      BY <1>6, <2>1, StepsTyped, FoldExists
  <2> DEFINE g == [n \in 0..m |-> words]
  <2>3. ASSUME NEW n \in 1..m PROVE f[n] = f[n - 1]
    <3>1. n \in 1..Len(t) /\ f[n - 1] \in WordLists /\ t[n] \in PieceSet /\ t[n].kind = "close"
      BY <1>4, <1>5, <2>2
    <3> QED
      BY <2>2, <3>1 DEF WordStep, IsFold
  <2>4. Follows(g, f, m)
    <3>1. f[0] = words /\ \A n \in 0..m : g[n] = words
      BY <2>2 DEF IsFold
    <3>2. 0 \in 0..m /\ \A n \in 1..m : n - 1 \in 0..m /\ n \in 0..m
      BY <1>2
    <3> HIDE DEF g
    <3> QED
      BY <2>3, <3>1, <3>2 DEF Follows
  <2>5. Agree(f, g, 0..m)
    BY <1>2, <2>4, SameSteps
  <2>6. f[m] = words
    BY <1>2, <2>5 DEF Agree
  <2> QED
    BY <1>5, <1>6, <2>1, <2>2, <2>6, FoldIs
<1>10. out \o t \in Seq(PieceSet)
  BY <1>1, <1>6
<1>11. SubSeq(stack, 1, j) \in Stacks
  BY <1>2 DEF Stacks
<1> QED
  BY <1>8, <1>9, <1>10, <1>11 DEF SoFar, t, u

-----------------------------------------------------------------------------
(* Sanitize                                                                *)

\* A text that is being sanitized: what is written has the stack open.
Halfway == {s \in [out : Seq(PieceSet), stack : Stacks] : OpenAtEnd(s.out) = s.stack}

Written(s, words) == s \in Halfway /\ WordsOf(s.out) = words

LEMMA WrittenSoFar ==
  ASSUME NEW s, NEW words, Written(s, words)
  PROVE  SoFar(s.out, s.stack, words) /\ s = [out |-> s.out, stack |-> s.stack]
<1> HIDE DEF PieceSet, Stacks
<1> QED
  BY DEF Written, Halfway, SoFar

LEMMA SoFarWritten ==
  ASSUME NEW out, NEW stack, NEW words, SoFar(out, stack, words)
  PROVE  Written([out |-> out, stack |-> stack], words)
<1> HIDE DEF PieceSet, Stacks
<1> QED
  BY DEF Written, Halfway, SoFar

\* Something else is written for the same stack.
LEMMA OutWritten ==
  ASSUME NEW s, NEW old, Written(s, old), NEW out, NEW words, SoFar(out, s.stack, words)
  PROVE  Written([s EXCEPT !.out = out], words)
<1>1. s = [out |-> s.out, stack |-> s.stack]
  BY WrittenSoFar
<1>2. [s EXCEPT !.out = out] = [out |-> out, stack |-> s.stack]
  BY <1>1
<1>3. Written([out |-> out, stack |-> s.stack], words)
  BY SoFarWritten
<1> QED
  BY <1>2, <1>3

\* Whatever an opening tag is made to.
LEMMA StartWritten ==
  ASSUME NEW s, NEW words, Written(s, words), NEW p \in PieceSet
  PROVE  Written(HandleStart(s, p), words)
<1> HIDE DEF PieceSet
<1>1. SoFar(s.out, s.stack, words)
  BY WrittenSoFar
<1>2. CASE HandleStart(s, p) = s
  BY <1>2
<1>3. ASSUME NEW count \in {1, 2} PROVE Written([s EXCEPT !.out = WithBreaks(@, count)], words)
  <2>1. SoFar(WithBreaks(s.out, count), s.stack, words)
    BY <1>1, BreaksAdded
  <2> QED
    BY <2>1, OutWritten
<1>4. Written([s EXCEPT !.out = Append(WithBreaks(@, 1), Dash)], words)
  <2>1. SoFar(WithBreaks(s.out, 1), s.stack, words)
    BY <1>1, BreaksAdded
  <2>2. SoFar(Append(WithBreaks(s.out, 1), Dash), s.stack, words)
    BY <2>1, MadePieces, PlainAdded DEF PlainKinds
  <2>3. Written([s EXCEPT !.out = Append(WithBreaks(s.out, 1), Dash)], words)
    BY <2>2, OutWritten
  <2> QED
    BY <2>3
<1>5. CASE /\ StartAllowed(p)
           /\ HandleStart(s, p) = [out |-> Append(s.out, Tag("open", p.name)),
                                   stack |-> Append(s.stack, Canonical(p.name))]
  <2>1. SoFar(Append(s.out, Tag("open", p.name)), Append(s.stack, Canonical(p.name)), words)
    BY <1>1, <1>5, OpenAdded
  <2> QED
    BY <1>5, <2>1, SoFarWritten
<1>6. \/ HandleStart(s, p) = s
      \/ HandleStart(s, p) = [s EXCEPT !.out = WithBreaks(@, 1)]
      \/ HandleStart(s, p) = [s EXCEPT !.out = WithBreaks(@, 2)]
      \/ HandleStart(s, p) = [s EXCEPT !.out = Append(WithBreaks(@, 1), Dash)]
      \/ /\ StartAllowed(p)
         /\ HandleStart(s, p) = [out |-> Append(s.out, Tag("open", p.name)),
                                 stack |-> Append(s.stack, Canonical(p.name))]
  BY DEF HandleStart
<1> QED
  BY <1>2, <1>3, <1>4, <1>5, <1>6

\* And a closing tag.
LEMMA EndWritten ==
  ASSUME NEW s, NEW words, Written(s, words), NEW p \in PieceSet
  PROVE  Written(HandleEnd(s, p), words)
<1> HIDE DEF PieceSet
<1> DEFINE cut == CutAt(s.stack, Canonical(p.name))
           closed == [out |-> s.out \o Closings(SubSeq(s.stack, Len(cut) + 1, Len(s.stack))),
                      stack |-> cut]
<1>1. SoFar(s.out, s.stack, words) /\ s.stack \in Stacks
  BY WrittenSoFar DEF SoFar
<1>2. ASSUME NEW count \in {1, 2} PROVE Written([s EXCEPT !.out = WithBreaks(@, count)], words)
  <2>1. SoFar(WithBreaks(s.out, count), s.stack, words)
    BY <1>1, BreaksAdded
  <2> QED
    BY <2>1, OutWritten
<1>3. Written(closed, words)
  <2>1. PICK j \in 0..Len(s.stack) : cut = SubSeq(s.stack, 1, j)
    BY <1>1, CutIsPrefix
  <2>2. Len(SubSeq(s.stack, 1, j)) = j
    BY <1>1 DEF Stacks
  <2>3. SoFar(s.out \o Closings(SubSeq(s.stack, j + 1, Len(s.stack))), SubSeq(s.stack, 1, j), words)
    BY <1>1, CloseAdded
  <2>4. Len(cut) = j
    BY <2>1, <2>2
  <2> QED
    BY <2>1, <2>3, <2>4, SoFarWritten
<1>4. \/ HandleEnd(s, p) = s
      \/ HandleEnd(s, p) = [s EXCEPT !.out = WithBreaks(@, 1)]
      \/ HandleEnd(s, p) = [s EXCEPT !.out = WithBreaks(@, 2)]
      \/ HandleEnd(s, p) = closed
  BY DEF HandleEnd
<1> QED
  BY <1>2, <1>3, <1>4

\* Every piece leaves a text that parses so far, and adds itself if it is a word.
LEMMA PieceWritten ==
  ASSUME NEW s, NEW words, Written(s, words), NEW p \in PieceSet
  PROVE  Written(SanitizePiece(s, p), IF p.kind = "word" THEN Append(words, p) ELSE words)
<1>1. CASE p.kind = "open"
  BY <1>1, StartWritten DEF SanitizePiece
<1>2. CASE p.kind = "close"
  BY <1>2, EndWritten DEF SanitizePiece
<1>3. CASE p.kind \in {"comment", "half"}
  BY <1>3 DEF SanitizePiece
<1>4. SoFar(s.out, s.stack, words)
  BY WrittenSoFar
<1>5. CASE p.kind = "stray"
  <2>1. SoFar(Append(s.out, Lone), s.stack, words)
    BY <1>4, MadePieces, PlainAdded DEF PlainKinds
  <2>2. SanitizePiece(s, p) = [s EXCEPT !.out = Append(s.out, Lone)]
    BY <1>5 DEF SanitizePiece
  <2>3. Written([s EXCEPT !.out = Append(s.out, Lone)], words)
    BY <2>1, OutWritten
  <2> QED
    BY <1>5, <2>2, <2>3
<1>6. CASE p.kind \in PlainKinds
  <2> DEFINE more == IF p.kind = "word" THEN Append(words, p) ELSE words
  <2>1. SoFar(Append(s.out, p), s.stack, more)
    BY <1>4, <1>6, PlainAdded
  <2>2. SanitizePiece(s, p) = [s EXCEPT !.out = Append(s.out, p)]
    BY <1>6 DEF SanitizePiece, PlainKinds
  <2> HIDE DEF more
  <2>3. Written([s EXCEPT !.out = Append(s.out, p)], more)
    BY <2>1, OutWritten
  <2> QED
    BY <2>2, <2>3 DEF more
<1>7. p.kind \in Kinds
  BY DEF PieceSet
<1> QED
  BY <1>1, <1>2, <1>3, <1>5, <1>6, <1>7 DEF Kinds, PlainKinds

SanitizeStep == [sp \in Halfway \X PieceSet |-> SanitizePiece(sp[1], sp[2])]

Blank == [out |-> <<>>, stack |-> <<>>]

LEMMA SanitizeTyped ==
  /\ Blank \in Halfway
  /\ StepOn(SanitizeStep, PieceSet, Halfway)
<1>1. Written(Blank, <<>>)
  <2>1. SoFar(<<>>, <<>>, <<>>)
    BY NothingRead DEF SoFar, Stacks
  <2> QED
    BY <2>1, SoFarWritten DEF Blank
<1>2. ASSUME NEW s \in Halfway, NEW p \in PieceSet PROVE SanitizePiece(s, p) \in Halfway
  <2> HIDE DEF PieceSet
  <2>1. Written(s, WordsOf(s.out))
    BY DEF Written
  <2>2. Written(SanitizePiece(s, p),
                IF p.kind = "word" THEN Append(WordsOf(s.out), p) ELSE WordsOf(s.out))
    BY <2>1, PieceWritten
  <2> QED
    BY <2>2 DEF Written
<1> HIDE DEF PieceSet, Halfway
<1> QED
  BY <1>1, <1>2 DEF Written, SanitizeStep, StepOn

\* All of a text.
LEMMA AllWritten ==
  ASSUME NEW t \in Seq(PieceSet)
  PROVE  Written(SanitizedUpTo(t)[Len(t)], WordsOf(t))
<1> HIDE DEF PieceSet, Halfway
<1>1. PICK f \in [0..Len(t) -> Halfway] : IsFold(f, SanitizeStep, Blank, t)
  BY SanitizeTyped, FoldExists
<1>2. Len(t) \in Nat /\ \A n \in 1..Len(t) : t[n] \in PieceSet /\ n - 1 \in 0..Len(t)
  OBVIOUS
<1>3. \A n \in 1..Len(t) : f[n] = SanitizePiece(f[n - 1], t[n])
  BY <1>1, <1>2 DEF IsFold, SanitizeStep
<1>4. f = [n \in 0..Len(t) |-> IF n = 0 THEN Blank ELSE SanitizePiece(f[n - 1], t[n])]
  BY <1>1, <1>2, <1>3 DEF IsFold
<1> DEFINE g == SanitizedUpTo(t)
<1>5. g = [n \in 0..Len(t) |-> IF n = 0 THEN Blank ELSE SanitizePiece(g[n - 1], t[n])]
  BY <1>4 DEF SanitizedUpTo, Blank
<1> HIDE DEF g
<1>6. Follows(g, f, Len(t))
  <2>1. \A n \in 1..Len(t) : n \in 0..Len(t) /\ n # 0
    BY <1>2
  <2>2. f[0] = Blank /\ g[0] = Blank
    BY <1>1, <1>2, <1>5 DEF IsFold
  <2> QED
    BY <1>3, <1>5, <2>1, <2>2 DEF Follows
<1>7. Agree(f, g, 0..Len(t))
  BY <1>2, <1>6, SameSteps
<1>8. g[Len(t)] = f[Len(t)]
  BY <1>2, <1>7 DEF Agree
<1>9. PICK w \in [0..Len(t) -> WordLists] : IsFold(w, WordStep, <<>>, t)
  <2> HIDE DEF WordLists
  <2> QED
    BY StepsTyped, FoldExists
<1> DEFINE S == {n \in 0..Len(t) : Written(f[n], w[n])}
<1>10. 0 \in S
  <2>1. f[0] = Blank /\ w[0] = <<>>
    BY <1>1, <1>9 DEF IsFold
  <2>2. WordsOf(Blank.out) = <<>>
    BY NothingRead DEF Blank
  <2> QED
    BY <1>2, <2>1, <2>2, SanitizeTyped DEF Written
<1>11. ASSUME NEW n \in 0..Len(t), n \in S, n # Len(t) PROVE n + 1 \in S
  <2>1. n + 1 \in 1..Len(t) /\ (n + 1) - 1 = n /\ n + 1 \in 0..Len(t)
    BY <1>2, <1>11
  <2>2. f[n + 1] = SanitizePiece(f[n], t[n + 1])
    BY <1>3, <2>1
  <2>3. w[n + 1] = IF t[n + 1].kind = "word" THEN Append(w[n], t[n + 1]) ELSE w[n]
    <3>1. w[n + 1] = WordStep[<<w[n], t[n + 1]>>] /\ w[n] \in WordLists /\ t[n + 1] \in PieceSet
      BY <1>2, <1>9, <2>1 DEF IsFold
    <3> HIDE DEF WordLists
    <3> QED
      BY <3>1 DEF WordStep
  <2>4. Written(f[n + 1], w[n + 1])
    BY <1>2, <1>11, <2>1, <2>2, <2>3, PieceWritten
  <2> QED
    BY <2>1, <2>4
<1>12. Len(t) \in S
  <2> HIDE DEF S
  <2>1. 0..Len(t) \subseteq S
    BY <1>2, <1>10, <1>11, Climbing
  <2> QED
    BY <1>2, <2>1
<1>13. WordsOf(t) = w[Len(t)]
  BY <1>9, FoldIs DEF WordsOf
<1> QED
  BY <1>8, <1>12, <1>13 DEF g

\* Line breaks open and close nothing, and are no words.
LEMMA BreaksIdle ==
  ASSUME NEW t \in Seq(PieceSet), NEW places, places \subseteq 1..Len(t),
         \A n \in places : t[n].kind = "break"
  PROVE  Neutral(ReadStep, Names, t, places) /\ Neutral(WordStep, WordLists, t, places)
<1> HIDE DEF PieceSet, Names, WordLists
<1>1. ASSUME NEW n \in places, NEW s \in Names PROVE ReadStep[<<s, t[n]>>] = s
  <2>1. t[n] \in PieceSet /\ t[n].kind = "break"
    OBVIOUS
  <2>2. ReadStep[<<s, t[n]>>] = Reads(s, t[n])
    BY <2>1 DEF ReadStep
  <2>3. Reads(s, t[n]) = s
    BY <2>1 DEF Reads
  <2> QED
    BY <2>2, <2>3
<1>2. ASSUME NEW n \in places, NEW w \in WordLists PROVE WordStep[<<w, t[n]>>] = w
  <2>1. t[n] \in PieceSet /\ t[n].kind = "break"
    OBVIOUS
  <2> QED
    BY <2>1 DEF WordStep
<1> QED
  BY <1>1, <1>2 DEF Neutral

\* Trimming takes line breaks alone.
LEMMA TrimKeeps ==
  ASSUME NEW t \in Seq(PieceSet)
  PROVE  /\ TrimSpace(t) \in Seq(PieceSet)
         /\ OpenAtEnd(TrimSpace(t)) = OpenAtEnd(t)
         /\ WordsOf(TrimSpace(t)) = WordsOf(t)
<1> HIDE DEF PieceSet, Names, WordLists
<1> DEFINE solid == {k \in 1..Len(t) : t[k].kind # "break"}
           first == CHOOSE k \in solid : \A j \in solid : k <= j
           last == CHOOSE k \in solid : \A j \in solid : j <= k
<1>1. Len(t) \in Nat
  OBVIOUS
<1>2. solid \subseteq 1..Len(t) /\ \A n \in 1..Len(t) : n \notin solid => t[n].kind = "break"
  OBVIOUS
<1>3. TrimSpace(t) = IF solid = {} THEN <<>> ELSE SubSeq(t, first, last)
  BY DEF TrimSpace
<1> HIDE DEF solid
<1>4. CASE solid = {}
  <2>1. Neutral(ReadStep, Names, t, 1..Len(t)) /\ Neutral(WordStep, WordLists, t, 1..Len(t))
    BY <1>2, <1>4, BreaksIdle
  <2>2. OpenAtEnd(t) = <<>> /\ WordsOf(t) = <<>>
    BY <2>1, StepsTyped, FoldNothing DEF OpenAtEnd, WordsOf
  <2>3. TrimSpace(t) = <<>>
    BY <1>3, <1>4
  <2> QED
    BY <2>2, <2>3, NothingRead
<1>5. CASE solid # {}
  <2>1. \E k \in solid : \A j \in solid : k <= j
    <3>1. solid \subseteq Nat
      BY <1>2
    <3> QED
      BY <1>5, <3>1, LeastNat
  <2>2. \E k \in solid : \A j \in solid : j <= k
    BY <1>1, <1>2, <1>5, LastOne
  <2>3. first \in solid /\ \A j \in solid : first <= j
    BY <2>1
  <2>4. last \in solid /\ \A j \in solid : j <= last
    BY <2>2
  <2>5. TrimSpace(t) = SubSeq(t, first, last)
    BY <1>3, <1>5
  <2> HIDE DEF first, last
  <2>6. first \in 1..Len(t) /\ last \in first..Len(t)
    BY <1>1, <1>2, <2>3, <2>4
  <2>7. \A n \in 1..(first - 1) : n \in 1..Len(t) /\ t[n].kind = "break"
    BY <1>1, <1>2, <2>3, <2>6
  <2>8. \A n \in (last + 1)..Len(t) : n \in 1..Len(t) /\ t[n].kind = "break"
    BY <1>1, <1>2, <2>4, <2>6
  <2>9. Neutral(ReadStep, Names, t, 1..(first - 1)) /\ Neutral(WordStep, WordLists, t, 1..(first - 1))
    <3> DEFINE places == 1..(first - 1)
    <3>1. places \subseteq 1..Len(t) /\ \A n \in places : t[n].kind = "break"
      BY <2>7
    <3> HIDE DEF places
    <3>2. Neutral(ReadStep, Names, t, places) /\ Neutral(WordStep, WordLists, t, places)
      BY <3>1, BreaksIdle
    <3> QED
      BY <3>2 DEF places
  <2>10. /\ Neutral(ReadStep, Names, t, (last + 1)..Len(t))
         /\ Neutral(WordStep, WordLists, t, (last + 1)..Len(t))
    <3> DEFINE places == (last + 1)..Len(t)
    <3>1. places \subseteq 1..Len(t) /\ \A n \in places : t[n].kind = "break"
      BY <2>8
    <3> HIDE DEF places
    <3>2. Neutral(ReadStep, Names, t, places) /\ Neutral(WordStep, WordLists, t, places)
      BY <3>1, BreaksIdle
    <3> QED
      BY <3>2 DEF places
  <2>11. OpenAtEnd(SubSeq(t, first, last)) = OpenAtEnd(t)
    BY <2>6, <2>9, <2>10, StepsTyped, FoldPart DEF OpenAtEnd
  <2>12. WordsOf(SubSeq(t, first, last)) = WordsOf(t)
    BY <2>6, <2>9, <2>10, StepsTyped, FoldPart DEF WordsOf
  <2>13. SubSeq(t, first, last) \in Seq(PieceSet)
    BY <1>1, <2>6
  <2> QED
    BY <2>5, <2>11, <2>12, <2>13
<1> QED
  BY <1>4, <1>5

\* A sanitized text can be parsed, and has the words it is made of.
LEMMA SanitizeKeeps ==
  ASSUME NEW t \in Seq(PieceSet)
  PROVE  /\ Sanitize(t) \in Seq(PieceSet)
         /\ OpenAtEnd(Sanitize(t)) = <<>>
         /\ WordsOf(Sanitize(t)) = WordsOf(UpToHalf(t))
<1> HIDE DEF PieceSet
<1> DEFINE read == UpToHalf(t)
           end == SanitizedUpTo(read)[Len(read)]
           out == end.out \o Closings(end.stack)
<1>0. read \in Seq(PieceSet)
  BY UpToHalfEnds
<1> HIDE DEF read
<1>1. SoFar(end.out, end.stack, WordsOf(read)) /\ end.stack \in Stacks
  BY <1>0, AllWritten, WrittenSoFar DEF SoFar
<1>2. Sanitize(t) = TrimSpace(out)
  BY DEF Sanitize, read
<1> HIDE DEF end
<1>3. PICK j \in 0..Len(end.stack) : j = 0
  BY <1>1 DEF Stacks
<1>4. SoFar(end.out \o Closings(SubSeq(end.stack, j + 1, Len(end.stack))),
            SubSeq(end.stack, 1, j), WordsOf(read))
  BY <1>1, CloseAdded
<1>5. SubSeq(end.stack, j + 1, Len(end.stack)) = end.stack /\ SubSeq(end.stack, 1, j) = <<>>
  <2> HIDE DEF Rendered
  <2> QED
    BY <1>1, <1>3 DEF Stacks
<1>6. SoFar(out, <<>>, WordsOf(read))
  BY <1>4, <1>5
<1> HIDE DEF out
<1>7. out \in Seq(PieceSet) /\ OpenAtEnd(out) = <<>> /\ WordsOf(out) = WordsOf(read)
  BY <1>6 DEF SoFar
<1> QED
  BY <1>2, <1>7, TrimKeeps DEF read

-----------------------------------------------------------------------------
(* The attempts, by what the texts are                                     *)

\* All three texts have the readable words of the reply, and Telegram can parse the last two.
LEMMA VariantsRead ==
  ASSUME text \in Seq(Pieces)
  PROVE  /\ \A t \in Variants : Words(t) = Words(UpToHalf(text))
         /\ Parses(Sanitized) /\ Parses(Escaped)
<1> HIDE DEF PieceSet
<1>1. /\ Normalized \in Seq(PieceSet) /\ UpToHalf(text) \in Seq(PieceSet)
      /\ WordsOf(Normalized) = WordsOf(UpToHalf(text))
      /\ UpToHalf(Normalized) = Normalized
  BY NormalizeKeeps DEF Normalized
<1>2. /\ Sanitized \in Seq(PieceSet) /\ WordsOf(Sanitized) = WordsOf(Normalized)
      /\ OpenAtEnd(Sanitized) = <<>>
  BY <1>1, SanitizeKeeps DEF Sanitized
<1>3. /\ Escaped \in Seq(PieceSet) /\ WordsOf(Escaped) = WordsOf(Normalized)
      /\ OpenAtEnd(Escaped) = <<>>
  BY <1>1, EscapeKeeps DEF Escaped
<1>4. ASSUME NEW t \in Variants PROVE Words(t) = Words(UpToHalf(text))
  BY <1>1, <1>2, <1>3, WordsFold DEF Variants
<1> QED
  BY <1>2, <1>3, <1>4, ParsesOpen

\* What a delivery knows of the texts it has tried.
Attempts ==
  /\ phase = "normalized" => sent = <<>>
  /\ phase = "sanitized" => Len(sent) = 1 /\ ~Parses(Normalized)
  /\ Len(sent) > 1 \/ phase \in {"failed", "done"} => answer # "parse"

\* A text that can be parsed ends the delivery with another answer.
LEMMA ParsedEnds ==
  ASSUME AttemptInv, NEW t, NEW after, Parses(t), Attempt(t, after)
  PROVE  phase' \in {"done", "failed"} /\ answer' # "parse"
<1>1. PICK a \in Answers(t) :
        /\ answer' = a
        /\ phase' = CASE a = "ok" -> "done"
                      [] a = "parse" -> after
                      [] OTHER -> "failed"
  BY Zenon DEF Attempt
<1>2. a # "parse"
  BY <1>1 DEF Answers
<1> QED
  BY <1>1, <1>2

\* Every step keeps this.
LEMMA AttemptsKept ==
  ASSUME AttemptInv, Attempts, [Next]_vars
  PROVE  Attempts'
<1>1. text \in Seq(Pieces)
  BY DEF AttemptInv, Typing
<1>2. Parses(Sanitized) /\ Parses(Escaped)
  BY <1>1, VariantsRead
<1>3. CASE SendNormalized
  <2>1. PICK a \in Answers(Normalized) :
          /\ sent' = Append(sent, Normalized)
          /\ answer' = a
          /\ phase' = CASE a = "ok" -> "done"
                        [] a = "parse" -> "sanitized"
                        [] OTHER -> "failed"
          /\ text' = text
    BY <1>3, Zenon DEF SendNormalized, Attempt
  <2>2. Len(sent') = 1
    BY <1>3, <2>1 DEF SendNormalized, Attempts
  <2>3. Normalized' = Normalized
    BY <2>1 DEF Normalized
  <2>4. CASE a = "parse"
    <3>1. ~Parses(Normalized)
      BY <2>1, <2>4 DEF Answers
    <3> QED
      BY <2>1, <2>2, <2>3, <2>4, <3>1 DEF Attempts
  <2>5. CASE a # "parse"
    <3>1. phase' \in {"done", "failed"}
      BY <2>1, <2>5
    <3> QED
      BY <2>1, <2>5, <3>1 DEF Attempts
  <2> QED
    BY <2>4, <2>5
<1>4. CASE SendSanitized
  <2>1. phase' \in {"done", "failed"} /\ answer' # "parse"
    BY <1>2, <1>4, ParsedEnds DEF SendSanitized
  <2> QED
    BY <2>1 DEF Attempts
<1>5. CASE SkipSanitized
  <2>1. phase = "sanitized" /\ phase' = ToEscaped /\ UNCHANGED <<text, sent, answer, shown>>
    BY <1>5 DEF SkipSanitized
  <2>2. Len(sent) = 1 /\ ~Parses(Normalized)
    BY <2>1 DEF Attempts
  <2>3. phase' = "escaped"
    BY <1>2, <2>1, <2>2 DEF ToEscaped
  <2> QED
    BY <2>1, <2>2, <2>3 DEF Attempts
<1>6. CASE SendEscaped
  <2>1. phase' \in {"done", "failed"} /\ answer' # "parse"
    BY <1>2, <1>6, ParsedEnds DEF SendEscaped
  <2> QED
    BY <2>1 DEF Attempts
<1>7. CASE UNCHANGED vars
  <2>1. Normalized' = Normalized
    BY <1>7 DEF vars, Normalized
  <2> QED
    BY <1>7, <2>1 DEF vars, Attempts
<1> QED
  BY <1>3, <1>4, <1>5, <1>6, <1>7 DEF Next

\* Markup never costs a reply, whatever tags the model wrote: what is sanitized
\* or escaped can be parsed, for every text.
THEOREM Parseable == Spec => []MarkupNeverFatal
<1>1. Init => Attempts
  BY DEF Init, Attempts
<1>2. AttemptInv /\ Attempts /\ [Next]_vars => Attempts'
  BY AttemptsKept
<1>3. Attempts => MarkupNeverFatal
  BY DEF Attempts, MarkupNeverFatal
<1> QED
  BY <1>1, <1>2, <1>3, AttemptsInvariant, PTL DEF Spec

Chat == [k \in 1..Len(shown) |-> Words(shown[k])]
Status == CASE phase = "done" -> "done" [] phase = "failed" -> "failed" [] OTHER -> "pending"

LEMMA AttemptPromised ==
  ASSUME AttemptInv, NEW t \in Variants, NEW after \in {"sanitized", "escaped", "failed"},
         phase \in {"normalized", "sanitized", "escaped"}, Attempt(t, after)
  PROVE  Promised!Next \/ UNCHANGED <<Words(UpToHalf(text)), Status, Chat>>
<1>1. PICK a \in Answers(t) :
        /\ shown' = IF a \in {"ok", "lost"} THEN Append(shown, t) ELSE shown
        /\ phase' = CASE a = "ok" -> "done"
                      [] a = "parse" -> after
                      [] OTHER -> "failed"
        /\ text' = text
  BY Zenon DEF Attempt
<1>2. shown = <<>> /\ text \in Seq(Pieces)
  BY DEF AttemptInv, Typing, Unshown
<1>3. Words(UpToHalf(text))' = Words(UpToHalf(text))
  BY <1>1 DEF Words, WordsUpTo, UpToHalf
<1>4. Status = "pending" /\ Chat = <<>>
  BY <1>2 DEF Status, Chat
<1>5. CASE a \in {"ok", "lost"}
  <2>1. shown' = <<t>>
    BY <1>1, <1>2, <1>5
  <2>2. Chat' = <<Words(t)>>
    <3>1. Chat' = [k \in 1..Len(shown') |-> Words(shown'[k])]
      BY DEF Chat
    <3>2. Len(shown') = 1 /\ shown'[1] = t
      BY <2>1
    <3> HIDE DEF Chat
    <3> QED
      BY <3>1, <3>2
  <2>3. Words(t) = Words(UpToHalf(text))
    BY <1>2, VariantsRead
  <2>4. Chat' = Append(Chat, Words(UpToHalf(text)))
    BY <1>4, <2>2, <2>3
  <2>5. Status' \in {"done", "failed"}
    BY <1>1, <1>5 DEF Status
  <2> QED
    BY <1>3, <1>4, <2>4, <2>5 DEF Promised!Next, Promised!Show, Chat, Status
<1>6. CASE a \notin {"ok", "lost"}
  <2>1. shown' = shown
    BY <1>1, <1>6
  <2>2. Chat' = Chat
    BY <2>1 DEF Chat
  <2>3. Status' \in {"pending", "failed"}
    BY <1>1, <1>6 DEF Status
  <2>4. CASE Status' = "pending"
    BY <1>3, <1>4, <2>2, <2>4
  <2>5. CASE Status' = "failed"
    BY <1>3, <1>4, <2>2, <2>5 DEF Promised!Next, Promised!Drop, Chat, Status
  <2> QED
    BY <2>3, <2>4, <2>5
<1> QED
  BY <1>5, <1>6

\* However a delivery goes, the chat sees it as Message promises: at most once,
\* and with all the words the reply has before a tag that never ends.
THEOREM Promise == Spec => KeepsPromise
<1>1. Init => Promised!Init
  <2> SUFFICES ASSUME Init PROVE Promised!Init
    OBVIOUS
  <2>1. phase = "normalized" /\ shown = <<>>
    BY DEF Init
  <2> QED
    BY <2>1 DEF Promised!Init
<1>2. ASSUME AttemptInv, [Next]_vars
      PROVE  Promised!Next \/ UNCHANGED <<Words(UpToHalf(text)), Status, Chat>>
  <2>1. CASE SendNormalized
    BY <1>2, <2>1, AttemptPromised DEF SendNormalized, Variants
  <2>2. CASE SendSanitized
    BY <1>2, <2>2, EscapedFollows, AttemptPromised DEF SendSanitized, Variants
  <2>3. CASE SendEscaped
    BY <1>2, <2>3, AttemptPromised DEF SendEscaped, Variants
  <2>4. CASE SkipSanitized
    <3>1. phase = "sanitized" /\ phase' \in {"escaped", "failed"} /\ text' = text /\ shown' = shown
      BY <2>4, EscapedFollows DEF SkipSanitized
    <3>2. Words(UpToHalf(text))' = Words(UpToHalf(text)) /\ Chat' = Chat
      BY <3>1 DEF Words, WordsUpTo, UpToHalf, Chat
    <3>3. Status = "pending" /\ Status' \in {"pending", "failed"}
      BY <3>1 DEF Status
    <3>4. CASE Status' = "pending"
      BY <3>2, <3>3, <3>4
    <3>5. CASE Status' = "failed"
      BY <3>2, <3>3, <3>5 DEF Promised!Next, Promised!Drop, Chat, Status
    <3> QED
      BY <3>3, <3>4, <3>5
  <2>5. CASE UNCHANGED vars
    BY <2>5 DEF vars, Words, WordsUpTo, UpToHalf, Chat, Status
  <2> QED
    BY <1>2, <2>1, <2>2, <2>3, <2>4, <2>5 DEF Next
<1>3. Promised!Next \/ UNCHANGED <<Words(UpToHalf(text)), Status, Chat>>
      => [Promised!Next]_<<Words(UpToHalf(text)), Status, Chat>>
  OBVIOUS
<1> QED
  BY <1>1, <1>2, <1>3, AttemptsInvariant, PTL DEF Spec, KeepsPromise, Promised!Spec, Chat, Status

=============================================================================
