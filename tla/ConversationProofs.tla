------------------------- MODULE ConversationProofs -------------------------
(***************************************************************************)
(* Theorems of Conversation for any turns, messages, calls and tools.       *)
(***************************************************************************)
EXTENDS Conversation, LeftFolds, TLAPS

Texts_ == {<<>>} \cup {IncomingText(m) : m \in Messages}
Prompts == {<<>>} \cup {UserItem[m] : m \in Messages}

Records == [pc : Pcs, message : Messages \cup {Absent}, text : Texts_, prompt : Prompts,
            image : BOOLEAN, call : Calls \cup {NoCall}, calls : 0..MaxCalls,
            known : SUBSET Facts]

\* A message is gone when the request is made, and a call is there while it runs.
TypeInv ==
  /\ turn \in [Turns -> Records]
  /\ typist \in [Updates -> {"none", "waiting", "notifying"}]
  /\ stop \in [Updates -> BOOLEAN]
  /\ memory \subseteq Facts
  /\ panicked \in BOOLEAN
  /\ saved \subseteq Facts /\ unaware \in [Facts -> SUBSET Turns]
  /\ \A t \in Turns :
       /\ turn[t].pc \in {"gate", "typing", "build"} => turn[t].message # Absent
       /\ turn[t].pc \in {"tool", "search"} => turn[t].call \in Calls

LEMMA IdleRecord == Idle \in Records /\ Idle.pc = "new"
PROOF
  <1>1. <<>> \in Texts_ /\ <<>> \in Prompts
    BY DEF Texts_, Prompts
  <1> QED
    BY <1>1, BoundsAssumption DEF Idle, Records, Pcs

LEMMA IdleTyped == ASSUME NEW pc \in Pcs PROVE [Idle EXCEPT !.pc = pc] \in Records
  BY IdleRecord DEF Records

-----------------------------------------------------------------------------
(* Types                                                                   *)

\* One turn moves to a typed place, and nothing else but remembered changes.
TypedTo(t, record) ==
  /\ record \in Records
  /\ record.pc \in {"gate", "typing", "build"} => record.message # Absent
  /\ record.pc \in {"tool", "search"} => record.call \in Calls

LEMMA ToTyped ==
  ASSUME TypeInv, NEW t \in Turns, NEW record, TypedTo(t, record), To(t, record),
         UNCHANGED <<typist, stop, panicked, remembered>>
  PROVE  TypeInv'
  BY DEF TypeInv, TypedTo, To, remembered

LEMMA EndTyped ==
  ASSUME TypeInv, NEW t \in Turns, NEW pc \in {"failed", "done"}, End(t, pc),
         UNCHANGED remembered
  PROVE  TypeInv'
PROOF
  <1>1. TypedTo(t, [Idle EXCEPT !.pc = pc])
    BY IdleTyped DEF TypedTo, Idle, Pcs
  <1>2. stop' \in [Updates -> BOOLEAN]
    BY DEF End, TypeInv
  <1> QED
    BY <1>1, <1>2 DEF TypeInv, TypedTo, To, End, remembered

LEMMA DownTyped ==
  ASSUME TypeInv, Down, panicked' \in BOOLEAN
  PROVE  TypeInv'
PROOF
  <1>1. \A t \in Turns : turn'[t] = turn[t] \/ turn'[t] = [Idle EXCEPT !.pc = "done"]
    BY DEF Down
  <1>2. [Idle EXCEPT !.pc = "done"] \in Records /\ [Idle EXCEPT !.pc = "done"].pc = "done"
    BY IdleTyped DEF Pcs, Idle
  <1>3. turn' \in [Turns -> Records]
    BY <1>1, <1>2 DEF Down, TypeInv
  <1>4. stop' \in [Updates -> BOOLEAN] /\ typist' \in [Updates -> {"none", "waiting", "notifying"}]
    BY DEF Down, TypeInv
  <1> QED
    BY <1>1, <1>2, <1>3, <1>4 DEF Down, TypeInv, remembered

\* The steps before the model is asked.
LEMMA UpdateTyped ==
  ASSUME TypeInv, NEW t \in Updates, UpdateNext(t)
  PROVE  TypeInv'
PROOF
  <1> USE DEF Turns
  <1>1. CASE Receive(t)
    <2> PICK message \in Messages :
          \/ message.sender = Absent /\ End(t, "failed")
          \/ /\ message.sender # Absent /\ ~ShouldRespond(message)
             /\ End(t, "done")
          \/ /\ message.sender # Absent /\ ShouldRespond(message)
             /\ To(t, [Idle EXCEPT !.pc = "gate", !.message = message,
                                   !.text = IncomingText(message)])
             /\ UNCHANGED <<typist, stop, panicked>>
      BY <1>1 DEF Receive
    <2>1. CASE End(t, "failed") \/ End(t, "done")
      BY <1>1, <2>1, EndTyped DEF Receive
    <2>2. CASE /\ message.sender # Absent
               /\ To(t, [Idle EXCEPT !.pc = "gate", !.message = message,
                                     !.text = IncomingText(message)])
               /\ UNCHANGED <<typist, stop, panicked>>
      <3> DEFINE record == [Idle EXCEPT !.pc = "gate", !.message = message,
                                        !.text = IncomingText(message)]
      <3>1. IncomingText(message) \in Texts_
        BY DEF Texts_
      <3>2. record = [[[Idle EXCEPT !.pc = "gate"] EXCEPT !.message = message]
                        EXCEPT !.text = IncomingText(message)]
        OBVIOUS
      <3>3. [Idle EXCEPT !.pc = "gate"] \in Records
        BY IdleTyped DEF Pcs
      <3>4. record \in Records
        BY <3>1, <3>2, <3>3 DEF Records
      <3>5. record.pc = "gate" /\ record.message = message
        BY DEF Idle
      <3>6. message # Absent
        BY <2>2, MessagesAssumption
      <3>7. TypedTo(t, record)
        BY <3>4, <3>5, <3>6 DEF TypedTo
      <3> QED
        BY <3>7, <2>2, <1>1, ToTyped DEF Receive
    <2> QED
      BY <2>1, <2>2
  <1>2. CASE Gate(t)
    <2>1. TypedTo(t, [turn[t] EXCEPT !.pc = "typing"])
      BY <1>2 DEF Gate, TypedTo, TypeInv, Records, Pcs
    <2> QED
      BY <1>2, <2>1, ToTyped, EndTyped DEF Gate
  <1>3. CASE StartTyping(t)
    <2>1. TypedTo(t, [turn[t] EXCEPT !.pc = "build"])
      BY <1>3 DEF StartTyping, TypedTo, TypeInv, Records, Pcs
    <2>2. typist' \in [Updates -> {"none", "waiting", "notifying"}]
      BY <1>3 DEF StartTyping, TypeInv
    <2> QED
      BY <1>3, <2>1, <2>2 DEF StartTyping, TypeInv, TypedTo, To, remembered
  <1>4. CASE BuildChatRequest(t)
    <2>1. ASSUME NEW image \in BOOLEAN
          PROVE  TypedTo(t, [turn[t] EXCEPT !.pc = "prepare", !.image = image,
                                !.prompt = UserItem[turn[t].message]])
      <3> DEFINE record == [turn[t] EXCEPT !.pc = "prepare", !.image = image,
                                !.prompt = UserItem[turn[t].message]]
      <3>1. turn[t] \in Records /\ turn[t].message \in Messages
        BY <1>4 DEF BuildChatRequest, TypeInv, Records
      <3>2. UserItem[turn[t].message] \in Prompts
        BY <3>1 DEF Prompts
      <3>3. [turn[t] EXCEPT !.pc = "prepare", !.image = image] \in Records
        BY <3>1 DEF Records, Pcs
      <3>4. record \in Records
        BY <3>2, <3>3 DEF Records
      <3>5. record.pc = "prepare"
        BY <3>1 DEF Records
      <3> QED
        BY <3>4, <3>5 DEF TypedTo
    <2> QED
      BY <1>4, <2>1, ToTyped, EndTyped DEF BuildChatRequest
  <1> QED
    BY <1>1, <1>2, <1>3, <1>4 DEF UpdateNext

\* What a tool does to its turn: the model is asked again, knowing of `known`.
LEMMA ContinueTyped ==
  ASSUME TypeInv, NEW t \in Turns, NEW known \in SUBSET Facts, Continue(t, known),
         memory' \subseteq Facts, saved' \subseteq Facts,
         unaware' \in [Facts -> SUBSET Turns]
  PROVE  TypeInv'
PROOF
  <1> DEFINE record == [turn[t] EXCEPT !.pc = "model", !.call = NoCall, !.known = known]
  <1>1. turn[t] \in Records
    BY DEF TypeInv
  <1>2. record \in Records /\ record.pc = "model"
    BY <1>1 DEF Records, Pcs
  <1> QED
    BY <1>2 DEF Continue, To, TypeInv

LEMMA StoreTyped ==
  ASSUME TypeInv, NEW t \in Turns, NEW facts \in SUBSET Facts, NEW kept \in SUBSET Facts,
         Store(t, facts, kept)
  PROVE  /\ memory' \subseteq Facts /\ saved' \subseteq Facts
         /\ unaware' \in [Facts -> SUBSET Turns]
  BY DEF TypeInv, Store

LEMMA ToolTyped ==
  ASSUME TypeInv, NEW t \in Turns, ToolNext(t)
  PROVE  TypeInv'
PROOF
  <1>0. turn[t] \in Records /\ turn[t].known \subseteq Facts /\ t \in Facts /\ memory \subseteq Facts
    BY DEF TypeInv, Records, Facts
  <1>1. CASE ToolErrs(t)
    BY <1>1, EndTyped DEF ToolErrs
  <1>2. CASE ToolTexts(t)
    BY <1>0, <1>2, ContinueTyped DEF ToolTexts, remembered, TypeInv
  <1>3. CASE Panic(t)
    BY <1>3, DownTyped DEF Panic
  <1>4. CASE StartSearch(t)
    <2>1. TypedTo(t, [turn[t] EXCEPT !.pc = "search"])
      BY <1>0, <1>4 DEF StartSearch, Calling, TypedTo, TypeInv, Records, Pcs
    <2> QED
      BY <1>4, <2>1, ToTyped DEF StartSearch
  <1>5. CASE Found(t)
    BY <1>0, <1>5, ContinueTyped DEF Found, remembered, TypeInv
  <1>6. CASE GetMemory(t)
    <2>1. unaware' \in [Facts -> SUBSET Turns]
      BY <1>6 DEF GetMemory, HasRead, TypeInv
    <2> QED
      BY <1>0, <1>6, <2>1, ContinueTyped DEF GetMemory, HasRead, TypeInv
  <1>7. CASE SetMemory(t)
    <2>1. CASE Store(t, turn[t].known \cup {t}, StillKnown(t) \cup {t})
               /\ Continue(t, turn[t].known \cup {t})
      <3>1. StillKnown(t) \cup {t} \in SUBSET Facts /\ turn[t].known \cup {t} \in SUBSET Facts
        BY <1>0 DEF StillKnown, TypeInv
      <3> QED
        BY <2>1, <3>1, StoreTyped, ContinueTyped
    <2>2. CASE Store(t, {}, {}) /\ Continue(t, {})
      <3>1. {} \in SUBSET Facts
        OBVIOUS
      <3> QED
        BY <2>2, <3>1, StoreTyped, ContinueTyped
    <2> QED
      BY <1>7, <2>1, <2>2 DEF SetMemory
  <1>8. CASE SetMemoryLost(t)
    <2>1. StillKnown(t) \in SUBSET Facts /\ turn[t].known \cup {t} \in SUBSET Facts
      BY <1>0 DEF StillKnown, TypeInv
    <2>2. /\ memory' \subseteq Facts /\ saved' \subseteq Facts
          /\ unaware' \in [Facts -> SUBSET Turns]
      BY <1>8, <2>1, StoreTyped DEF SetMemoryLost
    <2>3. [Idle EXCEPT !.pc = "failed"] \in Records /\ [Idle EXCEPT !.pc = "failed"].pc = "failed"
      BY IdleTyped DEF Pcs, Idle
    <2>4. stop' \in [Updates -> BOOLEAN]
      BY <1>8 DEF SetMemoryLost, End, TypeInv
    <2> QED
      BY <1>8, <2>2, <2>3, <2>4 DEF SetMemoryLost, End, To, TypeInv
  <1> QED
    BY <1>1, <1>2, <1>3, <1>4, <1>5, <1>6, <1>7, <1>8 DEF ToolNext

LEMMA TurnTyped ==
  ASSUME TypeInv, NEW t \in Turns, TurnNext(t)
  PROVE  TypeInv'
PROOF
  <1>0. turn[t] \in Records
    BY DEF TypeInv
  <1>1. CASE t \in Updates /\ UpdateNext(t)
    BY <1>1, UpdateTyped
  <1>2. CASE Prepare(t)
    <2> DEFINE record == [Idle EXCEPT !.pc = "model", !.known = memory]
    <2>1. [Idle EXCEPT !.pc = "model"] \in Records
      BY IdleTyped DEF Pcs
    <2>2. record \in Records
      BY <2>1 DEF Records, TypeInv
    <2>3. record.pc = "model"
      BY DEF Idle
    <2>4. TypedTo(t, record)
      BY <2>2, <2>3 DEF TypedTo
    <2>5. unaware' \in [Facts -> SUBSET Turns]
      BY <1>2 DEF Prepare, HasRead, TypeInv
    <2> QED
      BY <1>2, <2>4, <2>5 DEF Prepare, TypeInv, TypedTo, To
  <1>3. CASE Respond(t)
    <2>1. ASSUME NEW call \in Calls, turn[t].calls < MaxCalls
          PROVE  TypedTo(t, [turn[t] EXCEPT !.pc = "tool", !.call = call, !.calls = @ + 1])
      <3> DEFINE record == [turn[t] EXCEPT !.pc = "tool", !.call = call, !.calls = @ + 1]
      <3>1. turn[t].calls + 1 \in 0..MaxCalls
        BY <1>0, <2>1, BoundsAssumption DEF Records
      <3>2. record \in Records
        BY <1>0, <2>1, <3>1 DEF Records, Pcs
      <3>3. record.pc = "tool" /\ record.call = call
        BY <1>0 DEF Records
      <3> QED
        BY <2>1, <3>2, <3>3 DEF TypedTo
    <2>2. TypedTo(t, [turn[t] EXCEPT !.pc = "deliver"])
      BY <1>0 DEF TypedTo, Records, Pcs
    <2> QED
      BY <1>3, <2>1, <2>2, ToTyped DEF Respond
  <1>4. CASE ToolNext(t)
    BY <1>4, ToolTyped
  <1>5. CASE Deliver(t) \/ Fail(t) \/ Report(t)
    BY <1>5, EndTyped DEF Deliver, Fail, Report
  <1> QED
    BY <1>1, <1>2, <1>3, <1>4, <1>5 DEF TurnNext

LEMMA InitTyped == Init => TypeInv
  BY IdleRecord DEF Init, TypeInv

LEMMA StepTyped == TypeInv /\ [Next]_vars => TypeInv'
PROOF
  <1> SUFFICES ASSUME TypeInv, [Next]_vars PROVE TypeInv'
    OBVIOUS
  <1>1. ASSUME NEW t \in Turns, TurnNext(t) PROVE TypeInv'
    BY <1>1, TurnTyped
  <1>2. ASSUME NEW t \in Updates, Tick(t) \/ Notified(t) \/ StopTyping(t) PROVE TypeInv'
    BY <1>2 DEF Tick, Notified, StopTyping, TypeInv, remembered
  <1>3. CASE Die
    BY <1>3, DownTyped DEF Die, TypeInv
  <1>4. CASE UNCHANGED vars
    BY <1>4 DEF vars, TypeInv
  <1> QED
    BY <1>1, <1>2, <1>3, <1>4 DEF Next

\* Every reachable state is typed, for any turns, calls and bounds.
THEOREM Typing == Spec => []TypeOK
PROOF
  <1>1. TypeInv => TypeOK
    BY DEF TypeInv, TypeOK, Records
  <1> QED
    BY <1>1, InitTyped, StepTyped, PTL DEF Spec

-----------------------------------------------------------------------------
(* What a turn may be about, and what it may call                          *)

\* A turn that changes by To has the record given, and no other turn moves.
LEMMA Moved ==
  ASSUME TypeInv, NEW t \in Turns, NEW record, To(t, record)
  PROVE  turn'[t] = record /\ \A u \in Turns \ {t} : turn'[u] = turn[u]
  BY DEF TypeInv, To

LEMMA Ended ==
  ASSUME TypeInv, NEW t \in Turns, NEW pc, End(t, pc)
  PROVE  turn'[t].pc = pc /\ \A u \in Turns \ {t} : turn'[u] = turn[u]
  BY Moved DEF End, Idle

LEMMA Downed ==
  ASSUME TypeInv, Down, NEW u \in Turns
  PROVE  turn'[u].pc \in {"new", "done"}
  BY DEF Down, Active, TypeInv, Records, Idle

\* Where an update's turn is until the model is asked.
Requesting == {"gate", "typing", "build", "prepare"}

\* Only a step of its own brings a turn there.
LEMMA ToRequest ==
  ASSUME TypeInv, [Next]_vars, NEW u \in Updates, turn'[u].pc \in Requesting
  PROVE  turn'[u] = turn[u] \/ UpdateNext(u)
PROOF
  <1> USE DEF Turns, Requesting
  <1>1. CASE Die
    BY <1>1, Downed DEF Die
  <1>2. CASE UNCHANGED turn
    BY <1>2
  <1>3. ASSUME NEW t \in Turns, TurnNext(t)
        PROVE  turn'[u] = turn[u] \/ UpdateNext(u)
    <2>0. turn[t] \in Records
      BY DEF TypeInv
    <2>1. ASSUME NEW pc \in {"failed", "done"}, End(t, pc)
          PROVE  turn'[u] = turn[u]
      BY <2>1, Ended
    <2>2. ASSUME NEW record, To(t, record), record.pc \notin Requesting
          PROVE  turn'[u] = turn[u]
      BY <2>2, Moved
    <2>3. CASE t \in Updates /\ UpdateNext(t)
      <3>1. CASE t = u
        BY <2>3, <3>1
      <3>2. CASE t # u
        BY <2>3, <3>2, Moved, Ended
          DEF UpdateNext, Receive, Gate, StartTyping, BuildChatRequest
      <3> QED
        BY <3>1, <3>2
    <2>4. CASE Prepare(t)
      <3>1. [Idle EXCEPT !.pc = "model", !.known = memory].pc = "model"
        BY DEF Idle
      <3> QED
        BY <2>2, <2>4, <3>1 DEF Prepare
    <2>5. CASE Respond(t)
      <3>1. \A call \in Calls :
              [turn[t] EXCEPT !.pc = "tool", !.call = call, !.calls = @ + 1].pc = "tool"
        BY <2>0 DEF Records
      <3>2. [turn[t] EXCEPT !.pc = "deliver"].pc = "deliver"
        BY <2>0 DEF Records
      <3> QED
        BY <2>2, <2>5, <3>1, <3>2 DEF Respond
    <2>6. CASE ToolNext(t)
      <3>1. \A known : [turn[t] EXCEPT !.pc = "model", !.call = NoCall, !.known = known].pc = "model"
        BY <2>0 DEF Records
      <3>2. ASSUME NEW known, Continue(t, known) PROVE turn'[u] = turn[u]
        BY <2>2, <3>1, <3>2 DEF Continue
      <3>3. CASE Panic(t)
        BY <3>3, Downed DEF Panic
      <3>4. CASE StartSearch(t)
        <4>1. [turn[t] EXCEPT !.pc = "search"].pc = "search"
          BY <2>0 DEF Records
        <4> QED
          BY <2>2, <3>4, <4>1 DEF StartSearch
      <3>5. CASE ToolErrs(t) \/ SetMemoryLost(t)
        BY <2>1, <3>5 DEF ToolErrs, SetMemoryLost
      <3>6. CASE ToolTexts(t) \/ Found(t) \/ GetMemory(t) \/ SetMemory(t)
        BY <3>2, <3>6 DEF ToolTexts, Found, GetMemory, SetMemory
      <3> QED
        BY <2>6, <3>3, <3>4, <3>5, <3>6 DEF ToolNext
    <2>7. CASE Deliver(t) \/ Fail(t) \/ Report(t)
      BY <2>1, <2>7 DEF Deliver, Fail, Report
    <2> QED
      BY <1>3, <2>3, <2>4, <2>5, <2>6, <2>7 DEF TurnNext
  <1> QED
    BY <1>1, <1>2, <1>3 DEF Next, Tick, Notified, StopTyping, vars

\* And only BuildChatRequest brings it to "prepare".
LEMMA ToPrepare ==
  ASSUME TypeInv, [Next]_vars, NEW u \in Updates, turn'[u].pc = "prepare"
  PROVE  turn'[u] = turn[u] \/ BuildChatRequest(u)
PROOF
  <1>0. u \in Turns /\ turn[u] \in Records
    BY DEF TypeInv, Turns
  <1>1. CASE Receive(u) \/ Gate(u) \/ StartTyping(u)
    <2>1. \A message \in Messages :
            [Idle EXCEPT !.pc = "gate", !.message = message,
                         !.text = IncomingText(message)].pc = "gate"
      BY DEF Idle
    <2>2. [turn[u] EXCEPT !.pc = "typing"].pc = "typing"
          /\ [turn[u] EXCEPT !.pc = "build"].pc = "build"
      BY <1>0 DEF Records
    <2>3. ASSUME NEW pc \in {"failed", "done"} PROVE ~End(u, pc)
      BY <1>0, <2>3, Ended
    <2>4. ASSUME NEW record, record.pc # "prepare" PROVE ~To(u, record)
      BY <1>0, <2>4, Moved
    <2> QED
      BY <1>1, <2>1, <2>2, <2>3, <2>4 DEF Receive, Gate, StartTyping
  <1> QED
    BY <1>1, ToRequest DEF Requesting, UpdateNext

\* A turn that gets there has a photo or a text.
LEMMA NeverEmptyStep ==
  ASSUME TypeInv, NeverEmptyRequest, [Next]_vars
  PROVE  NeverEmptyRequest'
PROOF
  <1> SUFFICES ASSUME NEW u \in Updates, turn'[u].pc = "prepare"
               PROVE  turn'[u].image \/ turn'[u].text # <<>>
    BY DEF NeverEmptyRequest
  <1>1. CASE turn'[u] = turn[u]
    BY <1>1 DEF NeverEmptyRequest
  <1>2. CASE BuildChatRequest(u)
    <2>1. u \in Turns /\ turn[u] \in Records
      BY DEF TypeInv, Turns
    <2>2. CASE End(u, "failed")
      BY <2>1, <2>2, Ended
    <2>3. ASSUME NEW image \in BOOLEAN, LoadRequestImage(u, image),
                 To(u, [turn[u] EXCEPT !.pc = "prepare", !.image = image,
                          !.prompt = UserItem[turn[u].message]])
          PROVE  turn'[u].image \/ turn'[u].text # <<>>
      <3>1. turn'[u].image = image /\ turn'[u].text = turn[u].text
        <4> DEFINE record == [turn[u] EXCEPT !.pc = "prepare", !.image = image,
                                !.prompt = UserItem[turn[u].message]]
        <4>1. record.image = image /\ record.text = turn[u].text
          BY <2>1 DEF Records
        <4>2. turn'[u] = record
          BY <2>1, <2>3, Moved
        <4> QED
          BY <4>1, <4>2
      <3> QED
        BY <2>3, <3>1 DEF LoadRequestImage
    <2> QED
      BY <1>2, <2>2, <2>3 DEF BuildChatRequest
  <1> QED
    BY <1>1, <1>2, ToPrepare

\* No turn is about nothing: whatever is cut off a message, and whether or not
\* its photo can be loaded, a request has a text or an image.
THEOREM NeverEmpty == Spec => []NeverEmptyRequest
PROOF
  <1>1. Init => TypeInv /\ NeverEmptyRequest
    BY InitTyped, IdleRecord DEF Init, NeverEmptyRequest, Turns
  <1>2. TypeInv /\ NeverEmptyRequest /\ [Next]_vars => TypeInv' /\ NeverEmptyRequest'
    BY StepTyped, NeverEmptyStep
  <1> QED
    BY <1>1, <1>2, PTL DEF Spec

-----------------------------------------------------------------------------
(* The memory                                                              *)

\* A turn that the model has been asked in.
Knows(t) == turn[t].pc \in {"model", "tool", "search"}

\* What is saved is in the memory, and known to every turn in progress but those
\* that are excused.
Kept ==
  /\ saved \subseteq memory
  /\ \A t \in Turns : Knows(t) => \A f \in saved : t \notin unaware[f] => f \in turn[t].known

\* A turn that leaves the memory alone and, if it may still write it, knows at
\* least what it must.
LEMMA KeptAlone ==
  ASSUME Kept, NEW t \in Turns, UNCHANGED remembered,
         \A u \in Turns \ {t} : turn'[u] = turn[u],
         Knows(t)' => \A f \in saved : t \notin unaware[f] => f \in turn'[t].known
  PROVE  Kept'
  BY DEF Kept, Knows, remembered

LEMMA KeptEnd ==
  ASSUME TypeInv, Kept, NEW t \in Turns, NEW pc \in {"failed", "done"}, End(t, pc),
         UNCHANGED remembered
  PROVE  Kept'
PROOF
  <1>1. turn'[t].pc = pc /\ \A u \in Turns \ {t} : turn'[u] = turn[u]
    BY Ended
  <1> QED
    BY <1>1, KeptAlone DEF Knows

LEMMA KeptDown ==
  ASSUME TypeInv, Kept, Down
  PROVE  Kept'
  BY Downed DEF Kept, Knows, Down, remembered

LEMMA Continued ==
  ASSUME TypeInv, NEW t \in Turns, NEW known, Continue(t, known)
  PROVE  /\ turn'[t].pc = "model" /\ turn'[t].known = known
         /\ \A u \in Turns \ {t} : turn'[u] = turn[u]
PROOF
  <1> DEFINE record == [turn[t] EXCEPT !.pc = "model", !.call = NoCall, !.known = known]
  <1>1. turn[t] \in Records
    BY DEF TypeInv
  <1>2. record.pc = "model" /\ record.known = known
    BY <1>1 DEF Records
  <1>3. turn'[t] = record /\ \A u \in Turns \ {t} : turn'[u] = turn[u]
    BY Moved DEF Continue
  <1> QED
    BY <1>2, <1>3

\* The UPDATE of a turn that writes what it knows, and its fact, excuses the turns
\* in progress of that fact, and forgets the facts the turn was excused of.
LEMMA KeptStore ==
  ASSUME TypeInv, Kept, NEW t \in Turns, Knows(t),
         NEW kept \in {StillKnown(t), StillKnown(t) \cup {t}},
         Store(t, turn[t].known \cup {t}, kept),
         \A u \in Turns \ {t} : turn'[u] = turn[u],
         Knows(t)' => turn'[t].known = turn[t].known \cup {t}
  PROVE  Kept'
PROOF
  <1> USE DEF Facts
  <1>1. StillKnown(t) \subseteq turn[t].known /\ StillKnown(t) \subseteq saved
    BY DEF StillKnown, Kept
  <1>2. saved' = kept /\ memory' = turn[t].known \cup {t} /\ kept \subseteq memory'
    BY <1>1 DEF Store
  <1>3. ASSUME NEW u \in Turns \ {t}, Knows(u)', NEW f \in kept, u \notin unaware'[f]
        PROVE  f \in turn'[u].known
    <2>1. turn'[u] = turn[u] /\ Knows(u) /\ Active(u)
      BY <1>3 DEF Knows, Active
    <2>2. f \in Facts /\ f # t => f \in saved
      BY <1>1, <1>3 DEF TypeInv
    <2>3. f # t
      BY <1>3, <2>1 DEF Store, TypeInv
    <2>4. u \notin unaware[f]
      BY <1>1, <1>3, <2>3 DEF Store, TypeInv
    <2> QED
      BY <2>1, <2>2, <2>3, <2>4, <1>1, <1>3 DEF Kept, TypeInv
  <1> QED
    BY <1>1, <1>2, <1>3 DEF Kept

\* A turn that has read the memory is excused of nothing, and knows all of it.
LEMMA KeptRead ==
  ASSUME TypeInv, Kept, NEW t \in Turns, HasRead(t), UNCHANGED <<memory, saved>>,
         turn'[t].known = memory, \A u \in Turns \ {t} : turn'[u] = turn[u]
  PROVE  Kept'
PROOF
  <1>1. \A f \in Facts : \A u \in Turns \ {t} : u \in unaware[f] => u \in unaware'[f]
    BY DEF HasRead
  <1> QED
    BY <1>1 DEF Kept, Knows, TypeInv

LEMMA KeptTool ==
  ASSUME TypeInv, Kept, NEW t \in Turns, ToolNext(t)
  PROVE  Kept'
PROOF
  <1>0. turn[t] \in Records
    BY DEF TypeInv
  <1>1. ASSUME NEW known, Continue(t, known), Knows(t), UNCHANGED remembered,
               known = turn[t].known
        PROVE  Kept'
    <2>1. Knows(t)' => \A f \in saved : t \notin unaware[f] => f \in turn'[t].known
      BY <1>1, Continued DEF Kept
    <2> QED
      BY <1>1, <2>1, Continued, KeptAlone
  <1>2. CASE ToolErrs(t)
    BY <1>2, KeptEnd DEF ToolErrs
  <1>3. CASE ToolTexts(t)
    BY <1>1, <1>3 DEF ToolTexts, Texts, Calling, Knows
  <1>4. CASE Panic(t)
    BY <1>4, KeptDown DEF Panic
  <1>5. CASE StartSearch(t)
    <2>1. LET record == [turn[t] EXCEPT !.pc = "search"]
          IN  record.pc = "search" /\ record.known = turn[t].known
      BY <1>0 DEF Records
    <2>2. turn'[t].known = turn[t].known /\ \A u \in Turns \ {t} : turn'[u] = turn[u]
      BY <1>5, <2>1, Moved DEF StartSearch
    <2> QED
      BY <1>5, <2>2, KeptAlone DEF StartSearch, Calling, Knows, Kept
  <1>6. CASE Found(t)
    BY <1>1, <1>6 DEF Found, Knows
  <1>7. CASE GetMemory(t)
    BY <1>7, Continued, KeptRead DEF GetMemory
  <1>8. CASE SetMemory(t)
    <2>1. CASE /\ Calling(t, {"memory-set"}, {"good"})
               /\ Store(t, turn[t].known \cup {t}, StillKnown(t) \cup {t})
               /\ Continue(t, turn[t].known \cup {t})
      BY <2>1, Continued, KeptStore DEF Calling, Knows
    <2>2. CASE Store(t, {}, {})
      BY <2>2 DEF Store, Kept
    <2> QED
      BY <1>8, <2>1, <2>2 DEF SetMemory
  <1>9. CASE SetMemoryLost(t)
    <2>1. turn'[t].pc = "failed" /\ \A u \in Turns \ {t} : turn'[u] = turn[u]
      BY <1>9, Ended DEF SetMemoryLost
    <2>2. Knows(t) /\ ~Knows(t)'
      BY <1>9, <2>1 DEF SetMemoryLost, Calling, Knows
    <2> QED
      BY <1>9, <2>1, <2>2, KeptStore DEF SetMemoryLost
  <1> QED
    BY <1>2, <1>3, <1>4, <1>5, <1>6, <1>7, <1>8, <1>9 DEF ToolNext

LEMMA KeptTurn ==
  ASSUME TypeInv, Kept, NEW t \in Turns, TurnNext(t)
  PROVE  Kept'
PROOF
  <1>0. turn[t] \in Records
    BY DEF TypeInv
  <1>1. ASSUME NEW record, To(t, record), record.pc \notin {"model", "tool", "search"},
               UNCHANGED remembered
        PROVE  Kept'
    <2>1. turn'[t] = record /\ \A u \in Turns \ {t} : turn'[u] = turn[u]
      BY <1>1, Moved
    <2> QED
      BY <1>1, <2>1, KeptAlone DEF Knows
  <1>2. CASE Receive(t)
    <2>1. \A message : [Idle EXCEPT !.pc = "gate", !.message = message,
                                    !.text = IncomingText(message)].pc = "gate"
      BY DEF Idle
    <2> QED
      BY <1>1, <1>2, <2>1, KeptEnd DEF Receive
  <1>3. CASE Gate(t) \/ StartTyping(t)
    <2>1. /\ [turn[t] EXCEPT !.pc = "typing"].pc = "typing"
          /\ [turn[t] EXCEPT !.pc = "build"].pc = "build"
      BY <1>0 DEF Records
    <2> QED
      BY <1>1, <1>3, <2>1, KeptEnd DEF Gate, StartTyping
  <1>4. CASE BuildChatRequest(t)
    <2>1. \A image, prompt :
            [turn[t] EXCEPT !.pc = "prepare", !.image = image, !.prompt = prompt].pc = "prepare"
      BY <1>0 DEF Records
    <2> QED
      BY <1>1, <1>4, <2>1, KeptEnd DEF BuildChatRequest
  <1>5. CASE Prepare(t)
    <2>1. [Idle EXCEPT !.pc = "model", !.known = memory].known = memory
      BY DEF Idle
    <2>2. turn'[t].known = memory /\ \A u \in Turns \ {t} : turn'[u] = turn[u]
      BY <1>5, <2>1, Moved DEF Prepare
    <2> QED
      BY <1>5, <2>2, KeptRead DEF Prepare
  <1>6. CASE Respond(t)
    <2>1. CASE To(t, [turn[t] EXCEPT !.pc = "deliver"])
      <3>1. [turn[t] EXCEPT !.pc = "deliver"].pc = "deliver"
        BY <1>0 DEF Records
      <3> QED
        BY <1>1, <1>6, <2>1, <3>1 DEF Respond
    <2>2. ASSUME NEW call \in Calls,
                 To(t, [turn[t] EXCEPT !.pc = "tool", !.call = call, !.calls = @ + 1])
          PROVE  Kept'
      <3>1. LET record == [turn[t] EXCEPT !.pc = "tool", !.call = call, !.calls = @ + 1]
            IN  record.known = turn[t].known
        BY <1>0 DEF Records
      <3>2. turn'[t].known = turn[t].known /\ \A u \in Turns \ {t} : turn'[u] = turn[u]
        BY <2>2, <3>1, Moved
      <3> QED
        BY <1>6, <3>2, KeptAlone DEF Respond, Knows, Kept
    <2> QED
      BY <1>6, <2>1, <2>2 DEF Respond
  <1>7. CASE ToolNext(t)
    BY <1>7, KeptTool
  <1>8. CASE Deliver(t) \/ Fail(t) \/ Report(t)
    BY <1>8, KeptEnd DEF Deliver, Fail, Report
  <1> QED
    BY <1>2, <1>3, <1>4, <1>5, <1>6, <1>7, <1>8 DEF TurnNext, UpdateNext

\* What the chat was told is remembered stays in its memory until it is cleared,
\* or overwritten by a turn that was in progress then and has not read it since.
THEOREM Remembering == Spec => []FactsKept
PROOF
  <1>1. Init => TypeInv /\ Kept
    BY InitTyped DEF Init, Kept
  <1>2. ASSUME TypeInv, Kept, [Next]_vars
        PROVE  Kept'
    <2>1. ASSUME NEW t \in Turns, TurnNext(t) PROVE Kept'
      BY <1>2, <2>1, KeptTurn
    <2>2. ASSUME NEW t \in Updates, Tick(t) \/ Notified(t) \/ StopTyping(t) PROVE Kept'
      BY <1>2, <2>2 DEF Tick, Notified, StopTyping, Kept, Knows, remembered
    <2>3. CASE Die
      BY <1>2, <2>3, KeptDown DEF Die
    <2>4. CASE UNCHANGED vars
      BY <1>2, <2>4 DEF vars, Kept, Knows
    <2> QED
      BY <1>2, <2>1, <2>2, <2>3, <2>4 DEF Next
  <1>3. TypeInv /\ Kept /\ [Next]_vars => TypeInv' /\ Kept'
    BY <1>2, StepTyped
  <1>4. Kept => FactsKept
    BY DEF Kept, FactsKept
  <1> QED
    BY <1>1, <1>3, <1>4, PTL DEF Spec

-----------------------------------------------------------------------------
(* The texts of a message                                                  *)

\* The tokens that the builder itself writes.
LEMMA Written ==
  /\ {"nl", "\\", "n", "(@", ")", "@", "id", "chat", "channel", "post", "from", "message",
      "forwarded", "sender_chat", "direct"} \subseteq Tokens
  /\ Markers \subseteq Tokens
  /\ Labels \in [1..7 -> Tokens]
<1>1. DOMAIN Labels = 1..7
  BY DEF Labels
<1>2. \A k \in 1..7 : Labels[k] \in Tokens
  BY <1>1 DEF Tokens
<1> QED
  BY <1>1, <1>2 DEF Tokens, Labels

\* What is left without the line breaks at both ends is a text.
LEMMA TrimTyped ==
  ASSUME NEW text \in Text
  PROVE  TrimSpace(text) \in Text
<1> DEFINE at == {i \in 1..Len(text) : text[i] # "nl"}
           first == CHOOSE x \in at : \A y \in at : x =< y
           last == CHOOSE x \in at : \A y \in at : x >= y
<1>1. Len(text) \in Nat /\ at \subseteq 1..Len(text)
  BY Written DEF Text
<1>2. TrimSpace(text) = IF (IF at # {} THEN first ELSE 0) = 0 THEN <<>>
                        ELSE SubSeq(text, IF at # {} THEN first ELSE 0,
                                          IF at # {} THEN last ELSE 0)
  BY DEF TrimSpace, SelectInSeq, SelectLastInSeq, Min, Max
<1> HIDE DEF at
<1>4. CASE at = {}
  BY <1>2, <1>4 DEF Text
<1>5. CASE at # {}
  <2>1. first \in at
    <3>1. at \subseteq Nat
      BY <1>1
    <3>2. \E x \in at : \A y \in at : x =< y
      BY <1>5, <3>1, LeastNat
    <3> QED
      BY <3>2
  <2>2. last \in at
    <3>1. \E x \in at : \A y \in at : y <= x
      BY <1>1, <1>5, LastOne
    <3>2. \E x \in at : \A y \in at : x >= y
      BY <1>1, <3>1
    <3> QED
      BY <3>2
  <2> HIDE DEF first, last
  <2>3. first \in 1..Len(text) /\ last \in 1..Len(text) /\ first # 0
    BY <1>1, <2>1, <2>2
  <2>4. TrimSpace(text) = SubSeq(text, first, last)
    BY <1>2, <1>5, <2>3
  <2> QED
    BY <1>1, <2>3, <2>4 DEF Text
<1> QED
  BY <1>4, <1>5

\* What is made of texts is one.
LEMMA CalledTyped ==
  ASSUME NEW name \in Text, NEW username \in Text, NEW id
  PROVE  Called(name, username, id) \in Text
BY Written DEF Called, Text

LEMMA NamesTyped ==
  /\ \A user : AUser(user) => SenderName(user) \in Text
  /\ \A chat : AChat(chat) => ChatName(chat) \in Text
<1>1. ASSUME NEW user, AUser(user) PROVE SenderName(user) \in Text
  <2>1. CASE user = Absent
    BY <2>1 DEF SenderName, Text
  <2>2. CASE user # Absent
    <3>1. TrimSpace(user.name) \in Text /\ TrimSpace(user.username) \in Text
      BY <1>1, <2>2, TrimTyped DEF AUser, IsUser
    <3> QED
      BY <2>2, <3>1, CalledTyped DEF SenderName
  <2> QED
    BY <2>1, <2>2
<1>2. ASSUME NEW chat, AChat(chat) PROVE ChatName(chat) \in Text
  <2>1. CASE chat = Absent
    BY <2>1 DEF ChatName, Text
  <2>2. CASE chat # Absent
    <3>1. /\ TrimSpace(chat.name) \in Text /\ TrimSpace(chat.username) \in Text
          /\ TrimSpace(chat.title) \in Text
      BY <1>2, <2>2, TrimTyped DEF AChat, IsChat
    <3> QED
      BY <2>2, <3>1, CalledTyped DEF ChatName
  <2> QED
    BY <2>1, <2>2
<1> QED
  BY <1>1, <1>2

LEMMA PlaceTyped ==
  ASSUME NEW chat, AChat(chat), NEW isChannel, NEW channel \in Text, NEW other \in Text
  PROVE  Place(chat, isChannel, channel, other) \in Text
<1>1. ChatName(chat) \in Text
  BY NamesTyped
<1> QED
  BY <1>1 DEF Place, Text

LEMMA OriginTyped ==
  ASSUME NEW origin, AnOrigin(origin)
  PROVE  DescribeMessageOrigin(origin) \in Text
<1>1. <<"channel">> \in Text /\ <<"chat">> \in Text /\ <<>> \in Text
  BY Written DEF Text
<1>2. CASE origin = Absent
  BY <1>1, <1>2 DEF DescribeMessageOrigin
<1>3. CASE origin # Absent
  <2>1. IsOrigin(origin)
    BY <1>3 DEF AnOrigin
  <2>2. /\ SenderName(origin.sender) \in Text /\ ChatName(origin.senderChat) \in Text
        /\ TrimSpace(origin.username) \in Text /\ TrimSpace(origin.signature) \in Text
        /\ Place(origin.chat, origin.post, <<"channel">>, <<"chat">>) \in Text
    BY <1>1, <2>1, NamesTyped, TrimTyped, PlaceTyped DEF IsOrigin
  <2> QED
    BY <1>3, <2>2 DEF DescribeMessageOrigin
<1> QED
  BY <1>2, <1>3

LEMMA ContentTyped ==
  ASSUME NEW message, IsContent(message)
  PROVE  /\ DescribeForwardOrigin(message) \in Text
         /\ ReplyAuthor(message) \in Text /\ Content(message) \in Text
<1>1. /\ <<"channel">> \in Text /\ <<"chat">> \in Text /\ <<>> \in Text
      /\ <<"channel", "post", "from">> \in Text /\ <<"message", "from", "chat">> \in Text
  BY Written DEF Text
<1>2. DescribeForwardOrigin(message) \in Text
  <2>1. /\ Place(message.forward.chat, message.forward.post \/ message.forward.chat.channel,
                 <<"channel">>, <<"chat">>) \in Text
        /\ SenderName(message.forward.sender) \in Text
        /\ TrimSpace(message.forward.name) \in Text
        /\ DescribeMessageOrigin(message.forward.origin) \in Text
    BY <1>1, NamesTyped, TrimTyped, PlaceTyped, OriginTyped DEF IsContent
  <2> QED
    BY <2>1 DEF DescribeForwardOrigin
<1>3. ReplyAuthor(message) \in Text
  <2>1. /\ SenderName(message.sender) \in Text
        /\ Place(message.senderChat, message.senderChat.channel,
                 <<"channel", "post", "from">>, <<"message", "from", "chat">>) \in Text
    BY <1>1, NamesTyped, PlaceTyped DEF IsContent
  <2> QED
    BY <1>1, <1>2, <2>1 DEF ReplyAuthor
<1>4. Content(message) \in Text
  BY TrimTyped DEF Content, IsContent
<1> QED
  BY <1>2, <1>3, <1>4

\* So the fields of a message are seven texts.
LEMMA ContextTyped ==
  ASSUME NEW message, IsMessage(message)
  PROVE  Context(message) \in [1..7 -> Text]
<1>1. <<>> \in Text /\ <<"forwarded">> \in Text /\ <<"sender_chat">> \in Text /\ <<"direct">> \in Text
  BY Written DEF Text
<1>2. /\ SenderName(message.sender) \in Text /\ ChatName(message.senderChat) \in Text
      /\ TrimSpace(message.quote) \in Text /\ DescribeForwardOrigin(message) \in Text
  BY NamesTyped, TrimTyped, ContentTyped DEF IsMessage, IsContent
<1>3. ReplyReference(message)[1] \in Text /\ ReplyReference(message)[2] \in Text
  <2>1. CASE message.replyTo # Absent
    BY <2>1, ContentTyped DEF IsMessage, ReplyReference
  <2>2. CASE message.replyTo = Absent /\ message.external # Absent
    <3>1. /\ AnOrigin(message.external.origin) /\ AChat(message.external.chat)
          /\ message.external.media \in Text
      BY <2>2 DEF IsMessage
    <3>2. ExternalAuthor(message.external) \in Text
      <4>1. CASE message.external.origin = Absent
        BY <1>1, <4>1 DEF ExternalAuthor
      <4>2. CASE message.external.origin # Absent
        <5> DEFINE origin == message.external.origin
        <5>1. IsOrigin(origin)
          BY <3>1, <4>2 DEF AnOrigin
        <5>2. /\ SenderName(origin.sender) \in Text /\ TrimSpace(origin.username) \in Text
              /\ ChatName(origin.senderChat) \in Text /\ ChatName(origin.chat) \in Text
              /\ ChatName(message.external.chat) \in Text
          BY <3>1, <5>1, NamesTyped, TrimTyped DEF IsOrigin
        <5> QED
          BY <4>2, <5>2 DEF ExternalAuthor
      <4> QED
        BY <4>1, <4>2
    <3> QED
      BY <2>2, <3>1, <3>2 DEF ReplyReference
  <2>3. CASE message.replyTo = Absent /\ message.external = Absent
    BY <1>1, <2>3 DEF ReplyReference
  <2> QED
    BY <2>1, <2>2, <2>3
<1>4. \A k \in 1..3 : CurrentOrigin(message)[k] \in Text
  BY <1>1, <1>2 DEF CurrentOrigin
<1> QED
  BY <1>2, <1>3, <1>4 DEF Context

-----------------------------------------------------------------------------
(* Escaping, and reading what is escaped                                   *)

Writing == [out : Text, held : BOOLEAN]
Reading == [out : Text, run : 0..3]

EscapeStep == [sx \in Writing \X Tokens |-> EscapeToken(sx[1], sx[2])]
UnescapeStep == [sx \in Reading \X Tokens |-> UnescapeToken(sx[1], sx[2])]
SpellStep == [sx \in Text \X Tokens |-> sx[1] \o Spelled(sx[2])]

NoneWritten == [out |-> <<>>, held |-> FALSE]
NoneRead == [out |-> <<>>, run |-> 0]

\* Short texts behind a text, one token after the other.
LEMMA Longer ==
  ASSUME NEW u \in Text
  PROVE  /\ u \o <<>> = u
         /\ \A a \in Tokens : u \o <<a>> = Append(u, a) /\ Append(u, a) \in Text
         /\ \A a, b \in Tokens : u \o <<a, b>> = Append(Append(u, a), b)
<1> HIDE DEF Tokens
<1> USE DEF Text
<1>1. u \o <<>> = u
  OBVIOUS
<1>2. ASSUME NEW a \in Tokens PROVE u \o <<a>> = Append(u, a) /\ Append(u, a) \in Text
  OBVIOUS
<1>3. ASSUME NEW a \in Tokens, NEW b \in Tokens PROVE u \o <<a, b>> = Append(Append(u, a), b)
  OBVIOUS
<1> QED
  BY <1>1, <1>2, <1>3

\* Runs of backslashes, as far as escapes and their inverse need them.
LEMMA BackslashesAre ==
  /\ Backslashes(-1) = <<>> /\ Backslashes(0) = <<>>
  /\ Backslashes(1) = <<"\\">> /\ Backslashes(2) = <<"\\", "\\">>
  /\ \A u \in Text : u \o Backslashes(4) = Append(Append(Append(Append(u, "\\"), "\\"), "\\"), "\\")
  /\ \A n \in 0..4 : Backslashes(n) \in Text /\ Backslashes(n - 1) \in Text
<1>1. "\\" \in Tokens
  BY Written
<1>2. \A n \in 0..4 : Backslashes(n) \in Text /\ Backslashes(n - 1) \in Text
  BY <1>1 DEF Backslashes, Text
<1>3. Backslashes(-1) = <<>> /\ Backslashes(0) = <<>>
  BY DEF Backslashes
<1>4. Backslashes(1) = <<"\\">> /\ Backslashes(2) = <<"\\", "\\">>
  BY DEF Backslashes
<1>5. Backslashes(4) = <<"\\", "\\", "\\", "\\">>
  BY DEF Backslashes
<1>6. ASSUME NEW u \in Text
      PROVE  u \o <<"\\", "\\", "\\", "\\">> = Append(Append(Append(Append(u, "\\"), "\\"), "\\"), "\\")
  BY <1>1 DEF Text
<1> QED
  BY <1>2, <1>3, <1>4, <1>5, <1>6

\* The steps make what they are given.
LEMMA StepsTyped ==
  /\ NoneWritten \in Writing /\ StepOn(EscapeStep, Tokens, Writing)
  /\ NoneRead \in Reading /\ StepOn(UnescapeStep, Tokens, Reading)
  /\ <<>> \in Text /\ StepOn(SpellStep, Tokens, Text)
<1> HIDE DEF Tokens
<1>0. <<>> \in Text /\ "\\" \in Tokens /\ "n" \in Tokens
  BY Written DEF Text
<1>1. NoneWritten \in Writing /\ NoneRead \in Reading
  BY <1>0 DEF NoneWritten, NoneRead, Writing, Reading
<1>2. ASSUME NEW s \in Writing, NEW x \in Tokens PROVE EscapeToken(s, x) \in Writing
  <2>1. s.out \in Text /\ Held(s) \in Text /\ <<x>> \in Text /\ <<"\\", x>> \in Text
    BY <1>0 DEF Writing, Held, Text
  <2>2. /\ s.out \o Held(s) \o <<"\\", x>> \in Text /\ s.out \o Held(s) \o <<x>> \in Text
        /\ s.out \o Backslashes(4) \in Text
    <3>1. Backslashes(4) \in Text
      BY BackslashesAre
    <3> QED
      BY <2>1, <3>1 DEF Text
  <2> QED
    BY <2>1, <2>2 DEF EscapeToken, Writing
<1>3. ASSUME NEW s \in Reading, NEW x \in Tokens PROVE UnescapeToken(s, x) \in Reading
  <2>1. s.out \in Text /\ s.run \in 0..3 /\ <<x>> \in Text
    BY DEF Reading, Text
  <2>2. /\ Backslashes(2) \in Text /\ Backslashes(s.run) \in Text /\ Backslashes(s.run - 1) \in Text
    BY <2>1, BackslashesAre
  <2>3. /\ s.out \o Backslashes(2) \in Text /\ s.out \o Backslashes(s.run) \o <<x>> \in Text
        /\ s.out \o Backslashes(s.run - 1) \o <<x>> \in Text
    BY <2>1, <2>2 DEF Text
  <2>4. CASE x = "\\" /\ s.run = 3
    BY <2>3, <2>4 DEF UnescapeToken, Reading
  <2>5. CASE x = "\\" /\ s.run # 3
    <3>1. "\\" \notin Markers
      BY DEF Markers
    <3>2. UnescapeToken(s, x) = [s EXCEPT !.run = @ + 1]
      BY <2>5, <3>1 DEF UnescapeToken
    <3>3. s.run + 1 \in 0..3
      BY <2>1, <2>5
    <3> QED
      BY <2>1, <3>2, <3>3 DEF Reading
  <2>6. CASE x # "\\"
    BY <2>3, <2>6 DEF UnescapeToken, Reading
  <2> QED
    BY <2>4, <2>5, <2>6
<1>4. ASSUME NEW u \in Text, NEW x \in Tokens PROVE u \o Spelled(x) \in Text
  BY <1>0 DEF Spelled, Text
<1>5. StepOn(EscapeStep, Tokens, Writing) /\ StepOn(UnescapeStep, Tokens, Reading)
  BY <1>2, <1>3 DEF EscapeStep, UnescapeStep, StepOn
<1>6. StepOn(SpellStep, Tokens, Text)
  BY <1>4 DEF SpellStep, StepOn
<1> QED
  BY <1>0, <1>1, <1>5, <1>6

\* EscapedUpTo, SpelledUpTo and UnescapedUpTo are recursions with these steps.
LEMMA EscapeRuns ==
  ASSUME NEW t \in Text
  PROVE  \E f \in [0..Len(t) -> Writing] :
           /\ f[0] = NoneWritten
           /\ \A n \in 1..Len(t) : f[n] = EscapeToken(f[n - 1], t[n])
           /\ f[Len(t)] = EscapedUpTo(t)[Len(t)]
<1> HIDE DEF Tokens
<1>1. Len(t) \in Nat /\ \A n \in 1..Len(t) : t[n] \in Tokens /\ n - 1 \in 0..Len(t)
  BY DEF Text
<1>2. PICK f \in [0..Len(t) -> Writing] : IsFold(f, EscapeStep, NoneWritten, t)
  BY StepsTyped, FoldExists DEF Text
<1>3. \A n \in 1..Len(t) : f[n] = EscapeToken(f[n - 1], t[n])
  BY <1>1, <1>2 DEF IsFold, EscapeStep
<1>4. f = [n \in 0..Len(t) |-> IF n = 0 THEN NoneWritten ELSE EscapeToken(f[n - 1], t[n])]
  BY <1>1, <1>2, <1>3 DEF IsFold
<1> DEFINE g == EscapedUpTo(t)
<1>5. g = [n \in 0..Len(t) |-> IF n = 0 THEN NoneWritten ELSE EscapeToken(g[n - 1], t[n])]
  BY <1>4 DEF EscapedUpTo, NoneWritten
<1> HIDE DEF g
<1>6. Follows(g, f, Len(t))
  <2>1. \A n \in 1..Len(t) : n \in 0..Len(t) /\ n # 0
    BY <1>1
  <2>2. f[0] = g[0]
    BY <1>1, <1>2, <1>5 DEF IsFold
  <2> QED
    BY <1>3, <1>5, <2>1, <2>2 DEF Follows
<1>7. g[Len(t)] = f[Len(t)]
  BY <1>1, <1>6, SameSteps DEF Agree
<1> QED
  BY <1>2, <1>3, <1>7 DEF IsFold, g

LEMMA SpellRuns ==
  ASSUME NEW t \in Text
  PROVE  \E f \in [0..Len(t) -> Text] :
           /\ f[0] = <<>>
           /\ \A n \in 1..Len(t) : f[n] = f[n - 1] \o Spelled(t[n])
           /\ f[Len(t)] = SpelledUpTo(t)[Len(t)]
<1> HIDE DEF Tokens
<1>1. Len(t) \in Nat /\ \A n \in 1..Len(t) : t[n] \in Tokens /\ n - 1 \in 0..Len(t)
  BY DEF Text
<1>2. PICK f \in [0..Len(t) -> Text] : IsFold(f, SpellStep, <<>>, t)
  BY StepsTyped, FoldExists DEF Text
<1>3. \A n \in 1..Len(t) : f[n] = f[n - 1] \o Spelled(t[n])
  BY <1>1, <1>2 DEF IsFold, SpellStep
<1>4. f = [n \in 0..Len(t) |-> IF n = 0 THEN <<>> ELSE f[n - 1] \o Spelled(t[n])]
  BY <1>1, <1>2, <1>3 DEF IsFold
<1> DEFINE g == SpelledUpTo(t)
<1>5. g = [n \in 0..Len(t) |-> IF n = 0 THEN <<>> ELSE g[n - 1] \o Spelled(t[n])]
  BY <1>4 DEF SpelledUpTo
<1> HIDE DEF g
<1>6. Follows(g, f, Len(t))
  <2>1. \A n \in 1..Len(t) : n \in 0..Len(t) /\ n # 0
    BY <1>1
  <2>2. f[0] = g[0]
    BY <1>1, <1>2, <1>5 DEF IsFold
  <2> QED
    BY <1>3, <1>5, <2>1, <2>2 DEF Follows
<1>7. g[Len(t)] = f[Len(t)]
  BY <1>1, <1>6, SameSteps DEF Agree
<1> QED
  BY <1>2, <1>3, <1>7 DEF IsFold, g

\* What a reader knows after a text.
Read(t) == LeftFold(UnescapeStep, NoneRead, t)

\* Unescape is what is read, and the backslashes that wait for more of their kind.
LEMMA ReadRuns ==
  ASSUME NEW t \in Text
  PROVE  Unescape(t) = Read(t).out \o Backslashes(Read(t).run)
<1> HIDE DEF Tokens
<1>1. Len(t) \in Nat /\ \A n \in 1..Len(t) : t[n] \in Tokens /\ n - 1 \in 0..Len(t)
  BY DEF Text
<1>2. PICK f \in [0..Len(t) -> Reading] : IsFold(f, UnescapeStep, NoneRead, t)
  BY StepsTyped, FoldExists DEF Text
<1>3. \A n \in 1..Len(t) : f[n] = UnescapeToken(f[n - 1], t[n])
  BY <1>1, <1>2 DEF IsFold, UnescapeStep
<1>4. f = [n \in 0..Len(t) |-> IF n = 0 THEN NoneRead ELSE UnescapeToken(f[n - 1], t[n])]
  BY <1>1, <1>2, <1>3 DEF IsFold
<1> DEFINE g == UnescapedUpTo(t)
<1>5. g = [n \in 0..Len(t) |-> IF n = 0 THEN NoneRead ELSE UnescapeToken(g[n - 1], t[n])]
  BY <1>4 DEF UnescapedUpTo, NoneRead
<1> HIDE DEF g
<1>6. Follows(g, f, Len(t))
  <2>1. \A n \in 1..Len(t) : n \in 0..Len(t) /\ n # 0
    BY <1>1
  <2>2. f[0] = g[0]
    BY <1>1, <1>2, <1>5 DEF IsFold
  <2> QED
    BY <1>3, <1>5, <2>1, <2>2 DEF Follows
<1>7. g[Len(t)] = f[Len(t)]
  BY <1>1, <1>6, SameSteps DEF Agree
<1>8. Read(t) = f[Len(t)]
  BY <1>2, FoldIs DEF Text, Read
<1> QED
  BY <1>7, <1>8 DEF Unescape, g

\* Nothing, and one token more.
LEMMA ReadOne ==
  /\ Read(<<>>) = NoneRead
  /\ \A t \in Text, x \in Tokens :
       Read(t) \in Reading /\ Read(Append(t, x)) = UnescapeToken(Read(t), x)
<1> HIDE DEF Tokens
<1>1. Read(<<>>) = NoneRead
  BY StepsTyped, FoldEmpty DEF Read
<1>2. ASSUME NEW t \in Text, NEW x \in Tokens
      PROVE  Read(t) \in Reading /\ Read(Append(t, x)) = UnescapeToken(Read(t), x)
  <2>1. Read(t) \in Reading
    BY StepsTyped, FoldTyped DEF Read, Text
  <2>2. Read(Append(t, x)) = UnescapeStep[<<Read(t), x>>]
    BY StepsTyped, FoldAppend DEF Read, Text
  <2> QED
    BY <2>1, <2>2 DEF UnescapeStep
<1> QED
  BY <1>1, <1>2

\* A marker has a backslash before it, wherever it stands.
Guarded(u) == \A i \in 1..Len(u) : u[i] \in Markers => i > 1 /\ u[i - 1] = "\\"

\* A token more is guarded if it is no marker, or comes after a backslash.
LEMMA GuardedGrows ==
  ASSUME NEW u \in Text, Guarded(u), NEW x \in Tokens,
         x \notin Markers \/ (Len(u) > 0 /\ u[Len(u)] = "\\")
  PROVE  Guarded(Append(u, x))
<1> HIDE DEF Tokens
<1>1. /\ Len(u) \in Nat /\ Len(Append(u, x)) = Len(u) + 1 /\ Append(u, x)[Len(u) + 1] = x
      /\ \A i \in 1..Len(u) : Append(u, x)[i] = u[i]
  BY DEF Text
<1> SUFFICES ASSUME NEW i \in 1..(Len(u) + 1), Append(u, x)[i] \in Markers
             PROVE  i > 1 /\ Append(u, x)[i - 1] = "\\"
  BY <1>1 DEF Guarded
<1>2. CASE i = Len(u) + 1
  BY <1>1, <1>2
<1>3. CASE i # Len(u) + 1
  <2>1. i \in 1..Len(u) /\ u[i] \in Markers
    BY <1>1, <1>3
  <2>2. i > 1 /\ u[i - 1] = "\\" /\ i - 1 \in 1..Len(u)
    BY <2>1 DEF Guarded
  <2> QED
    BY <1>1, <2>2
<1> QED
  BY <1>2, <1>3

\* A marker with its backslash is.
LEMMA GuardedByOne ==
  ASSUME NEW u \in Text, Guarded(u), NEW x \in Tokens
  PROVE  Guarded(Append(u, "\\")) /\ Guarded(Append(Append(u, "\\"), x))
<1> HIDE DEF Tokens
<1>1. "\\" \in Tokens /\ "\\" \notin Markers
  BY Written DEF Markers
<1>2. Append(u, "\\") \in Text /\ Guarded(Append(u, "\\"))
  BY <1>1, Longer, GuardedGrows
<1>3. Len(Append(u, "\\")) > 0 /\ Append(u, "\\")[Len(Append(u, "\\"))] = "\\"
  BY <1>1 DEF Text
<1> QED
  BY <1>2, <1>3, GuardedGrows

\* What is written so far guards its markers, and reads as all of v but the
\* backslash that is held.
Escapes(s, v) ==
  /\ s \in Writing /\ Guarded(s.out)
  /\ \E o \in Text : Read(s.out) = [out |-> o, run |-> 0] /\ o \o Held(s) = v

\* It is so where the reader is at what is written but for what is held.
LEMMA EscapesWhen ==
  ASSUME NEW u \in Text, Guarded(u), NEW o \in Text, Read(u) = [out |-> o, run |-> 0]
  PROVE  /\ Escapes([out |-> u, held |-> FALSE], o)
         /\ Escapes([out |-> u, held |-> TRUE], Append(o, "\\"))
<1> HIDE DEF Tokens
<1>1. o \o <<>> = o /\ o \o <<"\\">> = Append(o, "\\")
  BY Written, Longer
<1>2. Held([out |-> u, held |-> FALSE]) = <<>> /\ Held([out |-> u, held |-> TRUE]) = <<"\\">>
  BY DEF Held
<1>3. [out |-> u, held |-> FALSE] \in Writing /\ [out |-> u, held |-> TRUE] \in Writing
  BY DEF Writing
<1>4. \A h \in BOOLEAN : [out |-> u, held |-> h].out = u
  OBVIOUS
<1> QED
  BY <1>1, <1>2, <1>3, <1>4 DEF Escapes

\* Whatever token comes next, it stays so.
LEMMA EscapeOne ==
  ASSUME NEW s, NEW v, Escapes(s, v), NEW x \in Tokens
  PROVE  Escapes(EscapeToken(s, x), Append(v, x))
<1> HIDE DEF Tokens
<1>0. "\\" \in Tokens /\ "\\" \notin Markers
  BY Written DEF Markers
<1> DEFINE u == s.out
<1>1. PICK o \in Text : Read(u) = [out |-> o, run |-> 0] /\ o \o Held(s) = v
  BY DEF Escapes
<1>2. /\ u \in Text /\ Guarded(u) /\ s.held \in BOOLEAN /\ s = [out |-> u, held |-> s.held]
      /\ EscapeToken(s, x) \in Writing
  <2>1. s \in Writing
    BY DEF Escapes
  <2>2. EscapeToken(s, x) = EscapeStep[<<s, x>>]
    BY <2>1 DEF EscapeStep
  <2>3. EscapeStep[<<s, x>>] \in Writing
    BY <2>1, StepsTyped DEF StepOn
  <2> QED
    BY <2>1, <2>2, <2>3 DEF Escapes, Writing
<1> HIDE DEF u
<1> DEFINE u1 == Append(u, "\\")
           u2 == Append(u1, "\\")
           u3 == Append(u2, "\\")
           u4 == Append(u3, "\\")
<1>3. /\ u1 \in Text /\ u2 \in Text /\ u3 \in Text /\ u4 \in Text
      /\ Guarded(u1) /\ Guarded(u2) /\ Guarded(u3) /\ Guarded(u4)
  <2>1. u1 \in Text /\ Guarded(u1)
    BY <1>0, <1>2, Longer, GuardedGrows
  <2>2. u2 \in Text /\ Guarded(u2)
    BY <1>0, <2>1, Longer, GuardedGrows
  <2>3. u3 \in Text /\ Guarded(u3)
    BY <1>0, <2>2, Longer, GuardedGrows
  <2> QED
    BY <1>0, <2>1, <2>2, <2>3, Longer, GuardedGrows
<1>4. /\ Read(u1) = [out |-> o, run |-> 1] /\ Read(u2) = [out |-> o, run |-> 2]
      /\ Read(u4) = [out |-> o \o Backslashes(2), run |-> 0]
  <2>1. \A n \in 0..2 : UnescapeToken([out |-> o, run |-> n], "\\") = [out |-> o, run |-> n + 1]
    BY <1>0 DEF UnescapeToken
  <2>2. UnescapeToken([out |-> o, run |-> 3], "\\") = [out |-> o \o Backslashes(2), run |-> 0]
    BY <1>0 DEF UnescapeToken
  <2>3. /\ Read(u1) = UnescapeToken(Read(u), "\\") /\ Read(u2) = UnescapeToken(Read(u1), "\\")
        /\ Read(u3) = UnescapeToken(Read(u2), "\\") /\ Read(u4) = UnescapeToken(Read(u3), "\\")
    BY <1>0, <1>2, <1>3, ReadOne
  <2> HIDE DEF u1, u2, u3, u4
  <2>4. Read(u1) = [out |-> o, run |-> 1]
    BY <1>1, <2>1, <2>3
  <2>5. Read(u2) = [out |-> o, run |-> 2]
    BY <2>1, <2>3, <2>4
  <2>6. Read(u3) = [out |-> o, run |-> 3]
    BY <2>1, <2>3, <2>5
  <2> QED
    BY <2>2, <2>3, <2>4, <2>5, <2>6
\* The four cases: the result, and what it reads as.
<1> DEFINE one == o \o <<"\\">>
<1>5. /\ one \in Text /\ o \o Backslashes(2) = Append(one, "\\")
      /\ o \o Backslashes(1) = one /\ o \o Backslashes(0) = o
      /\ v = IF s.held THEN one ELSE o
  <2>1. one = Append(o, "\\") /\ one \in Text
    BY <1>0, Longer
  <2>2. o \o Backslashes(2) = Append(Append(o, "\\"), "\\")
    <3>1. Backslashes(2) = <<"\\", "\\">>
      BY BackslashesAre
    <3>2. o \o <<"\\", "\\">> = Append(Append(o, "\\"), "\\")
      BY <1>0, Longer
    <3> QED
      BY <3>1, <3>2
  <2>3. o \o Backslashes(1) = one /\ o \o Backslashes(0) = o
    BY Longer, BackslashesAre
  <2>4. s.held => v = one
    BY <1>1 DEF Held
  <2>5. ~s.held => v = o
    BY <1>1, Longer DEF Held
  <2> HIDE DEF one
  <2> QED
    BY <1>2, <2>1, <2>2, <2>3, <2>4, <2>5
<1> HIDE DEF u1, u2, u3, u4, one
<1>6. CASE x = "\\" /\ s.held
  <2>1. EscapeToken(s, x) = [out |-> u4, held |-> FALSE]
    <3>1. u \o Backslashes(4) = u4
      BY <1>2, BackslashesAre DEF u1, u2, u3, u4
    <3> QED
      BY <1>0, <1>6, <3>1 DEF EscapeToken, u
  <2>2. Append(one, "\\") \in Text
    BY <1>0, <1>5, Longer
  <2>3. Append(v, x) = Append(one, "\\")
    BY <1>5, <1>6
  <2>4. Read(u4) = [out |-> Append(one, "\\"), run |-> 0]
    BY <1>4, <1>5
  <2> QED
    BY <1>3, <2>1, <2>2, <2>3, <2>4, EscapesWhen
<1>7. CASE x = "\\" /\ ~s.held
  <2>1. EscapeToken(s, x) = [out |-> u, held |-> TRUE]
    BY <1>0, <1>7 DEF EscapeToken, u
  <2>2. Append(v, x) = Append(o, "\\")
    BY <1>5, <1>7
  <2> QED
    BY <1>1, <1>2, <2>1, <2>2, EscapesWhen
<1>8. CASE x \in Markers
  <2> DEFINE w == IF s.held THEN u2 ELSE u1
  <2>1. EscapeToken(s, x) = [out |-> Append(w, x), held |-> FALSE]
    <3>1. EscapeToken(s, x) = [out |-> u \o Held(s) \o <<"\\", x>>, held |-> FALSE]
      BY <1>0, <1>8 DEF EscapeToken, u
    <3>2. u \o Held(s) = IF s.held THEN u1 ELSE u
      BY <1>0, <1>2, Longer DEF Held, u1
    <3>3. \A z \in {u, u1} : z \o <<"\\", x>> = Append(Append(z, "\\"), x)
      BY <1>0, <1>2, <1>3, Longer, ZenonT(30)
    <3>4. CASE s.held
      BY <3>1, <3>2, <3>3, <3>4 DEF u2
    <3>5. CASE ~s.held
      BY <3>1, <3>2, <3>3, <3>5 DEF u1
    <3> QED
      BY <3>4, <3>5
  <2>2. Guarded(Append(w, x)) /\ w \in Text
    BY <1>2, <1>3, <1>8, GuardedByOne DEF u1, u2
  <2>3. Read(Append(w, x)) = UnescapeToken(Read(w), x)
    BY <2>2, ReadOne
  <2>4. Read(Append(w, x)) = [out |-> v \o <<x>>, run |-> 0]
    <3>1. /\ UnescapeToken([out |-> o, run |-> 2], x)
               = [out |-> o \o Backslashes(1) \o <<x>>, run |-> 0]
          /\ UnescapeToken([out |-> o, run |-> 1], x)
               = [out |-> o \o Backslashes(0) \o <<x>>, run |-> 0]
      BY <1>0, <1>8 DEF UnescapeToken
    <3>2. CASE s.held
      <4>1. Read(w) = [out |-> o, run |-> 2]
        BY <1>4, <3>2
      <4>2. UnescapeToken([out |-> o, run |-> 2], x) = [out |-> one \o <<x>>, run |-> 0]
        BY <1>5, <3>1
      <4> HIDE DEF w
      <4> QED
        BY <1>5, <2>3, <3>2, <4>1, <4>2
    <3>3. CASE ~s.held
      <4>1. Read(w) = [out |-> o, run |-> 1]
        BY <1>4, <3>3
      <4>2. UnescapeToken([out |-> o, run |-> 1], x) = [out |-> o \o <<x>>, run |-> 0]
        BY <1>5, <3>1
      <4> HIDE DEF w
      <4> QED
        BY <1>5, <2>3, <3>3, <4>1, <4>2
    <3> QED
      BY <3>2, <3>3
  <2>5. v \o <<x>> = Append(v, x) /\ Append(v, x) \in Text /\ Append(w, x) \in Text
    BY <1>5, <2>2, Longer
  <2> HIDE DEF w
  <2> QED
    BY <2>1, <2>2, <2>4, <2>5, EscapesWhen
<1>9. CASE x # "\\" /\ x \notin Markers
  <2> DEFINE w == IF s.held THEN u1 ELSE u
  <2>1. EscapeToken(s, x) = [out |-> Append(w, x), held |-> FALSE]
    <3>1. EscapeToken(s, x) = [out |-> u \o Held(s) \o <<x>>, held |-> FALSE]
      BY <1>0, <1>9 DEF EscapeToken, u
    <3>2. u \o Held(s) = IF s.held THEN u1 ELSE u
      BY <1>0, <1>2, Longer DEF Held, u1
    <3>3. \A z \in {u, u1} : z \o <<x>> = Append(z, x)
      BY <1>2, <1>3, Longer
    <3> QED
      BY <3>1, <3>2, <3>3
  <2>2. Guarded(Append(w, x)) /\ w \in Text
    BY <1>2, <1>3, <1>9, GuardedGrows
  <2>3. Read(Append(w, x)) = UnescapeToken(Read(w), x)
    BY <2>2, ReadOne
  <2>4. Read(Append(w, x)) = [out |-> v \o <<x>>, run |-> 0]
    <3>1. /\ UnescapeToken([out |-> o, run |-> 1], x)
               = [out |-> o \o Backslashes(1) \o <<x>>, run |-> 0]
          /\ UnescapeToken([out |-> o, run |-> 0], x)
               = [out |-> o \o Backslashes(0) \o <<x>>, run |-> 0]
      BY <1>0, <1>9 DEF UnescapeToken
    <3>2. CASE s.held
      <4>1. Read(w) = [out |-> o, run |-> 1]
        BY <1>4, <3>2
      <4>2. UnescapeToken([out |-> o, run |-> 1], x) = [out |-> one \o <<x>>, run |-> 0]
        BY <1>5, <3>1
      <4> HIDE DEF w
      <4> QED
        BY <1>5, <2>3, <3>2, <4>1, <4>2
    <3>3. CASE ~s.held
      <4>1. Read(w) = [out |-> o, run |-> 0]
        BY <1>1, <3>3
      <4>2. UnescapeToken([out |-> o, run |-> 0], x) = [out |-> o \o <<x>>, run |-> 0]
        BY <1>5, <3>1
      <4> HIDE DEF w
      <4> QED
        BY <1>5, <2>3, <3>3, <4>1, <4>2
    <3> QED
      BY <3>2, <3>3
  <2>5. v \o <<x>> = Append(v, x) /\ Append(v, x) \in Text /\ Append(w, x) \in Text
    BY <1>5, <2>2, Longer
  <2> HIDE DEF w
  <2> QED
    BY <2>1, <2>2, <2>4, <2>5, EscapesWhen
<1> QED
  BY <1>2, <1>6, <1>7, <1>8, <1>9

\* What a text is escaped to guards its markers, and is read back as the text.
LEMMA BlockReads ==
  ASSUME NEW text \in Text
  PROVE  /\ EscapeBlock(text) \in Text /\ Guarded(EscapeBlock(text))
         /\ Unescape(EscapeBlock(text)) = TrimSpace(text)
<1> HIDE DEF Tokens
<1> DEFINE t == TrimSpace(text)
<1>1. t \in Text
  BY TrimTyped
<1> HIDE DEF t
<1>2. Len(t) \in Nat /\ \A n \in 1..Len(t) : t[n] \in Tokens
  BY <1>1 DEF Text
<1>3. PICK f \in [0..Len(t) -> Writing] :
        /\ f[0] = NoneWritten
        /\ \A n \in 1..Len(t) : f[n] = EscapeToken(f[n - 1], t[n])
        /\ f[Len(t)] = EscapedUpTo(t)[Len(t)]
  BY <1>1, EscapeRuns
<1> DEFINE S == {n \in 0..Len(t) : Escapes(f[n], SubSeq(t, 1, n))}
<1>4. 0 \in S
  <2>1. <<>> \in Text /\ Guarded(<<>>) /\ SubSeq(t, 1, 0) = <<>>
    BY <1>1 DEF Text, Guarded
  <2>2. Read(<<>>) = [out |-> <<>>, run |-> 0]
    BY ReadOne DEF NoneRead
  <2>3. Escapes(NoneWritten, <<>>)
    BY <2>1, <2>2, EscapesWhen DEF NoneWritten
  <2>4. Escapes(f[0], SubSeq(t, 1, 0))
    BY <1>3, <2>1, <2>3
  <2> QED
    BY <1>2, <2>4
<1>5. ASSUME NEW n \in 0..Len(t), n \in S, n # Len(t) PROVE n + 1 \in S
  <2>1. n + 1 \in 1..Len(t) /\ n + 1 \in 0..Len(t) /\ (n + 1) - 1 = n /\ t[n + 1] \in Tokens
    BY <1>2, <1>5
  <2>2. SubSeq(t, 1, n + 1) = Append(SubSeq(t, 1, n), t[n + 1])
    BY <1>1, <1>2, <2>1 DEF Text
  <2>3. f[n + 1] = EscapeToken(f[n], t[n + 1])
    BY <1>3, <2>1
  <2> QED
    BY <1>5, <2>1, <2>2, <2>3, EscapeOne
<1>6. Len(t) \in S
  <2> HIDE DEF S
  <2>1. 0..Len(t) \subseteq S
    BY <1>2, <1>4, <1>5, Climbing
  <2> QED
    BY <1>2, <2>1
<1> DEFINE s == f[Len(t)]
           u == s.out
<1>7. SubSeq(t, 1, Len(t)) = t
  BY <1>1, <1>2 DEF Text
<1>8. Escapes(s, t)
  BY <1>6, <1>7
<1>9. EscapeBlock(text) = u \o Held(s)
  BY <1>3 DEF EscapeBlock, t
<1> HIDE DEF s, S
<1>10. PICK o \in Text : Read(u) = [out |-> o, run |-> 0] /\ o \o Held(s) = t
  BY <1>8 DEF Escapes
<1>11. s \in Writing /\ u \in Text /\ Guarded(u) /\ "\\" \in Tokens /\ "\\" \notin Markers
  BY <1>8, Written DEF Escapes, Writing, Markers
<1>12. CASE s.held
  <2>1. Held(s) = <<"\\">>
    BY <1>12 DEF Held
  <2>2. EscapeBlock(text) = Append(u, "\\") /\ Append(u, "\\") \in Text /\ Guarded(Append(u, "\\"))
    BY <1>9, <1>11, <2>1, Longer, GuardedGrows
  <2>3. Read(Append(u, "\\")) = [out |-> o, run |-> 1]
    <3>1. Read(Append(u, "\\")) = UnescapeToken(Read(u), "\\")
      BY <1>11, ReadOne
    <3> QED
      BY <1>10, <1>11, <3>1 DEF UnescapeToken
  <2>4. Unescape(Append(u, "\\")) = o \o <<"\\">>
    <3>1. Unescape(Append(u, "\\")) = [out |-> o, run |-> 1].out \o Backslashes([out |-> o, run |-> 1].run)
      BY <2>2, <2>3, ReadRuns
    <3> QED
      BY <3>1, BackslashesAre
  <2> QED
    BY <1>10, <2>1, <2>2, <2>4 DEF t
<1>13. CASE ~s.held
  <2>1. Held(s) = <<>>
    BY <1>13 DEF Held
  <2>2. EscapeBlock(text) = u
    BY <1>9, <1>11, <2>1, Longer
  <2>3. Unescape(u) = o \o <<>>
    <3>1. Unescape(u) = [out |-> o, run |-> 0].out \o Backslashes([out |-> o, run |-> 0].run)
      BY <1>10, <1>11, ReadRuns
    <3> QED
      BY <3>1, BackslashesAre
  <2> QED
    BY <1>10, <1>11, <2>1, <2>2, <2>3 DEF t
<1> QED
  BY <1>11, <1>12, <1>13 DEF Writing

\* A field has no line break, and guards its markers.
LEMMA FieldIsLine ==
  ASSUME NEW text \in Text
  PROVE  /\ EscapeField(text) \in Text /\ Guarded(EscapeField(text))
         /\ \A i \in 1..Len(EscapeField(text)) : EscapeField(text)[i] # "nl"
<1> HIDE DEF Tokens
<1>0. /\ "\\" \in Tokens /\ "n" \in Tokens /\ "nl" \notin Markers /\ "n" \notin Markers
      /\ "\\" \notin Markers
  BY Written DEF Markers
<1> DEFINE b == EscapeBlock(text)
<1>1. b \in Text /\ Guarded(b)
  BY BlockReads
<1> HIDE DEF b
<1>2. Len(b) \in Nat /\ \A n \in 1..Len(b) : b[n] \in Tokens
  BY <1>1 DEF Text
<1>3. PICK f \in [0..Len(b) -> Text] :
        /\ f[0] = <<>>
        /\ \A n \in 1..Len(b) : f[n] = f[n - 1] \o Spelled(b[n])
        /\ f[Len(b)] = SpelledUpTo(b)[Len(b)]
  BY <1>1, SpellRuns
\* So far, and it ends with the backslash that b ends with.
<1> DEFINE Line(u) == u \in Text /\ Guarded(u) /\ \A i \in 1..Len(u) : u[i] # "nl"
           Ends(u, n) == n > 0 /\ b[n] = "\\" => Len(u) > 0 /\ u[Len(u)] = "\\"
           S == {n \in 0..Len(b) : Line(f[n]) /\ Ends(f[n], n)}
<1>4. 0 \in S
  BY <1>2, <1>3 DEF Guarded, Text
<1>5. ASSUME NEW n \in 0..Len(b), n \in S, n # Len(b) PROVE n + 1 \in S
  <2> DEFINE u == f[n]
             x == b[n + 1]
  <2>1. n + 1 \in 1..Len(b) /\ n + 1 \in 0..Len(b) /\ (n + 1) - 1 = n /\ x \in Tokens
    BY <1>2, <1>5
  <2>2. f[n + 1] = u \o Spelled(x) /\ Line(u) /\ Ends(u, n)
    BY <1>3, <1>5, <2>1
  <2> HIDE DEF u
  <2>3. Len(u) \in Nat
    BY <2>2 DEF Text
  <2>4. ASSUME NEW v, Line(v), NEW y \in Tokens, y # "nl", y \notin Markers \/ Guarded(Append(v, y))
        PROVE  Line(Append(v, y)) /\ Len(Append(v, y)) > 0 /\ Append(v, y)[Len(Append(v, y))] = y
    <3>1. v \in Text /\ Guarded(v)
      BY <2>4
    <3>2. /\ Append(v, y) \in Text /\ Len(v) \in Nat /\ Len(Append(v, y)) = Len(v) + 1
          /\ Append(v, y)[Len(v) + 1] = y /\ \A i \in 1..Len(v) : Append(v, y)[i] = v[i]
      BY <3>1 DEF Text
    <3>3. Guarded(Append(v, y))
      BY <2>4, <3>1, GuardedGrows
    <3>4. \A i \in 1..(Len(v) + 1) : Append(v, y)[i] # "nl"
      BY <2>4, <3>2
    <3> QED
      BY <3>2, <3>3, <3>4
  <2>5. CASE x = "nl"
    <3>1. f[n + 1] = Append(Append(u, "\\"), "n")
      BY <1>0, <2>2, <2>5, Longer DEF Spelled
    <3>2. Line(Append(u, "\\"))
      BY <1>0, <2>2, <2>4
    <3>3. Line(Append(Append(u, "\\"), "n"))
      BY <1>0, <2>4, <3>2
    <3> QED
      BY <2>1, <2>5, <3>1, <3>3
  <2>6. CASE x # "nl" /\ x \notin Markers
    <3>1. f[n + 1] = Append(u, x)
      BY <2>1, <2>2, <2>6, Longer DEF Spelled
    <3>2. Line(f[n + 1]) /\ Len(f[n + 1]) > 0 /\ f[n + 1][Len(f[n + 1])] = x
      BY <2>1, <2>2, <2>4, <2>6, <3>1
    <3> QED
      BY <2>1, <3>2
  <2>7. CASE x \in Markers
    <3>1. f[n + 1] = Append(u, x) /\ x # "nl"
      BY <1>0, <2>1, <2>2, <2>7, Longer DEF Spelled
    <3>2. n > 0 /\ b[n] = "\\"
      BY <1>1, <2>1, <2>7 DEF Guarded
    <3>3. Len(u) > 0 /\ u[Len(u)] = "\\" /\ u \in Text /\ Guarded(u)
      BY <2>2, <3>2
    <3>4. Guarded(Append(u, x))
      BY <2>1, <3>3, GuardedGrows
    <3>5. Line(f[n + 1]) /\ Len(f[n + 1]) > 0 /\ f[n + 1][Len(f[n + 1])] = x
      BY <2>1, <2>2, <2>4, <3>1, <3>4
    <3> QED
      BY <2>1, <3>5
  <2> QED
    BY <2>5, <2>6, <2>7
<1>6. Len(b) \in S
  <2> HIDE DEF S
  <2>1. 0..Len(b) \subseteq S
    BY <1>2, <1>4, <1>5, Climbing
  <2> QED
    BY <1>2, <2>1
<1>7. EscapeField(text) = f[Len(b)]
  BY <1>3 DEF EscapeField, b
<1> QED
  BY <1>6, <1>7

-----------------------------------------------------------------------------
(* The blocks of a prompt                                                  *)

\* Two texts, one behind the other.
LEMMA Joined ==
  ASSUME NEW u \in Text, NEW v \in Text
  PROVE  /\ u \o v \in Text /\ Len(u \o v) = Len(u) + Len(v) /\ Len(u) \in Nat /\ Len(v) \in Nat
         /\ \A i \in 1..Len(u) : (u \o v)[i] = u[i]
         /\ \A i \in 1..Len(v) : (u \o v)[Len(u) + i] = v[i]
         /\ Guarded(u) /\ Guarded(v) => Guarded(u \o v)
<1> HIDE DEF Tokens
<1> DEFINE w == u \o v
<1>1. w \in Text /\ Len(w) = Len(u) + Len(v) /\ Len(u) \in Nat /\ Len(v) \in Nat
  BY DEF Text
<1>2. \A i \in 1..Len(u) : w[i] = u[i]
  BY DEF Text
<1>3. ASSUME NEW i \in 1..Len(v) PROVE w[Len(u) + i] = v[i]
  <2>1. Len(u) + i \in 1..(Len(u) + Len(v)) /\ ~(Len(u) + i <= Len(u)) /\ (Len(u) + i) - Len(u) = i
    BY <1>1
  <2> QED
    BY <2>1 DEF Text
<1> HIDE DEF w
<1>4. ASSUME Guarded(u), Guarded(v), NEW i \in 1..Len(w), w[i] \in Markers
      PROVE  i > 1 /\ w[i - 1] = "\\"
  <2>1. CASE i \in 1..Len(u)
    <3>1. i > 1 /\ u[i - 1] = "\\" /\ i - 1 \in 1..Len(u)
      BY <1>2, <1>4, <2>1 DEF Guarded
    <3> QED
      BY <1>2, <3>1
  <2>2. CASE i \notin 1..Len(u)
    <3>1. PICK j \in 1..Len(v) : i = Len(u) + j
      <4>1. i - Len(u) \in 1..Len(v) /\ i = Len(u) + (i - Len(u))
        BY <1>1, <2>2
      <4> QED
        BY <4>1
    <3>2. j > 1 /\ v[j - 1] = "\\" /\ j - 1 \in 1..Len(v)
      BY <1>3, <1>4, <3>1 DEF Guarded
    <3>3. i - 1 = Len(u) + (j - 1) /\ i > 1
      BY <1>1, <3>1, <3>2
    <3> QED
      BY <1>3, <3>2, <3>3
  <2> QED
    BY <2>1, <2>2
<1> QED
  BY <1>1, <1>2, <1>3, <1>4 DEF w, Guarded

\* No two fields have one label, and none is a break or a marker.
LEMMA LabelsDiffer ==
  /\ \A k, l \in 1..7 : Labels[k] = Labels[l] => k = l
  /\ \A k \in 1..7 : Labels[k] # "nl" /\ Labels[k] \notin Markers
BY DEF Labels, Markers

\* The lines of R, each begun by a break, are the first m fields, in their order.
Break(R, i) == i \in 1..Len(R) /\ R[i] = "nl"

FieldsIn(R, context, m) ==
  /\ R \in Text /\ Guarded(R) /\ (Len(R) > 0 => R[1] = "nl")
  /\ \A i : Break(R, i) =>
       i < Len(R) /\ \E k \in 1..m : context[k] # <<>> /\ R[i + 1] = Labels[k]
  /\ \A k \in 1..m : context[k] # <<>> =>
       \E i : Break(R, i) /\ R[i + 1] = Labels[k]
  /\ \A i, j : Break(R, i) /\ Break(R, j) /\ i < j =>
       \A k, l \in 1..7 : R[i + 1] = Labels[k] /\ R[j + 1] = Labels[l] => k < l

\* A field more, if it is there, is a line more.
LEMMA FieldAdded ==
  ASSUME NEW context \in [1..7 -> Text], NEW m \in 0..6, NEW R, FieldsIn(R, context, m)
  PROVE  FieldsIn(R \o Field(Labels[m + 1], context[m + 1]), context, m + 1)
<1> HIDE DEF Tokens
<1> DEFINE label == Labels[m + 1]
           e == EscapeField(context[m + 1])
           n == Len(R)
<1>1. m + 1 \in 1..7 /\ \A k \in 1..(m + 1) : k \in 1..7 /\ (k # m + 1 => k \in 1..m)
  OBVIOUS
<1>2. R \in Text /\ Guarded(R) /\ n \in Nat
  BY DEF FieldsIn, Text
<1>3. CASE context[m + 1] = <<>>
  <2>1. R \o Field(label, context[m + 1]) = R
    BY <1>2, <1>3, Longer DEF Field
  <2>2. \A i : Break(R, i) =>
          i < Len(R) /\ \E k \in 1..(m + 1) : context[k] # <<>> /\ R[i + 1] = Labels[k]
    BY DEF FieldsIn
  <2>3. \A k \in 1..(m + 1) : context[k] # <<>> => \E i : Break(R, i) /\ R[i + 1] = Labels[k]
    BY <1>1, <1>3 DEF FieldsIn
  <2> QED
    BY <2>1, <2>2, <2>3 DEF FieldsIn
<1>4. CASE context[m + 1] # <<>>
  <2> DEFINE head == <<"nl", label>>
             v == head \o e
             w == R \o v
  <2>1. R \o Field(label, context[m + 1]) = w
    BY <1>4 DEF Field
  <2>2. e \in Text /\ Guarded(e) /\ Len(e) \in Nat /\ \A i \in 1..Len(e) : e[i] # "nl"
    BY <1>1, FieldIsLine, SMTT(30) DEF Text
  <2>3. label \in Tokens /\ label # "nl" /\ label \notin Markers
    BY <1>1, Written, LabelsDiffer
  <2> HIDE DEF e, label
  <2>4. head \in Text /\ Len(head) = 2 /\ head[1] = "nl" /\ head[2] = label
    BY <2>3, Written DEF Text
  <2>5. Guarded(head)
    BY <2>3, <2>4 DEF Guarded, Markers
  <2> HIDE DEF head
  <2>6. /\ v \in Text /\ Guarded(v) /\ Len(v) = 2 + Len(e) /\ v[1] = "nl" /\ v[2] = label
        /\ \A i \in 1..Len(e) : v[2 + i] = e[i]
    <3>1. /\ v \in Text /\ Guarded(v) /\ Len(v) = 2 + Len(e)
          /\ \A i \in 1..2 : v[i] = head[i]
          /\ \A i \in 1..Len(e) : v[2 + i] = e[i]
      <4>1. /\ v \in Text /\ Guarded(v) /\ Len(v) = Len(head) + Len(e)
            /\ \A i \in 1..Len(head) : v[i] = head[i]
            /\ \A i \in 1..Len(e) : v[Len(head) + i] = e[i]
        BY <2>2, <2>4, <2>5, Joined
      <4> HIDE DEF v
      <4> QED
        BY <2>4, <4>1
    <3> HIDE DEF v
    <3> QED
      BY <2>4, <3>1
  <2> HIDE DEF v
  <2>7. /\ w \in Text /\ Guarded(w) /\ Len(w) = n + Len(v)
        /\ \A i \in 1..n : w[i] = R[i]
        /\ \A i \in 1..Len(v) : w[n + i] = v[i]
    BY <1>2, <2>6, Joined
  <2> HIDE DEF w
  <2>8. /\ n + 1 \in 1..Len(w) /\ n + 1 < Len(w)
        /\ w[n + 1] = "nl" /\ w[n + 2] = label
    <3>1. 1 \in 1..Len(v) /\ 2 \in 1..Len(v)
      BY <2>2, <2>6
    <3> QED
      BY <1>2, <2>2, <2>6, <2>7, <3>1
  \* A break is one of R, or the new one.
  <2>9. ASSUME NEW i, Break(w, i) PROVE i = n + 1 \/ Break(R, i)
    <3>0. i \in 1..Len(w) /\ w[i] = "nl"
      BY <2>9 DEF Break
    <3>1. CASE i \in 1..n
      BY <2>7, <3>0, <3>1 DEF Break
    <3>2. CASE i = n + 2
      BY <2>3, <2>8, <3>0, <3>2
    <3>3. CASE i > n + 2
      <4>1. i - n - 2 \in 1..Len(e) /\ i = n + (2 + (i - n - 2)) /\ 2 + (i - n - 2) \in 1..Len(v)
        BY <1>2, <2>2, <2>6, <2>7, <3>0, <3>3
      <4>2. w[i] = v[2 + (i - n - 2)] /\ v[2 + (i - n - 2)] = e[i - n - 2]
        BY <2>6, <2>7, <4>1
      <4> QED
        BY <2>2, <3>0, <4>1, <4>2
    <3> QED
      BY <1>2, <3>0, <3>1, <3>2, <3>3
  \* One of R begins a field of R there too.
  <2>10. ASSUME NEW i, Break(R, i)
         PROVE  /\ i \in Nat /\ i < n /\ w[i + 1] = R[i + 1] /\ Break(w, i)
                /\ \E k \in 1..m : context[k] # <<>> /\ R[i + 1] = Labels[k]
    <3>1. i < n /\ \E k \in 1..m : context[k] # <<>> /\ R[i + 1] = Labels[k]
      BY <2>10 DEF FieldsIn
    <3>2. i \in 1..n /\ i + 1 \in 1..n /\ i \in 1..Len(w) /\ i \in Nat
      BY <1>2, <2>2, <2>6, <2>7, <2>10, <3>1 DEF Break
    <3> QED
      BY <2>7, <2>10, <3>1, <3>2 DEF Break
  <2>11. /\ n + 1 + 1 = n + 2 /\ n < Len(w) /\ Len(w) \in Nat /\ Break(w, n + 1)
    BY <1>2, <2>2, <2>6, <2>7, <2>8 DEF Break
  <2>12. \A i : Break(w, i) =>
           i < Len(w) /\ \E k \in 1..(m + 1) : context[k] # <<>> /\ w[i + 1] = Labels[k]
    <3> TAKE i
    <3> HAVE Break(w, i)
    <3>1. CASE i = n + 1
      BY <1>1, <1>4, <2>8, <2>11, <3>1 DEF label
    <3>2. CASE Break(R, i)
      <4>1. PICK k \in 1..m : context[k] # <<>> /\ R[i + 1] = Labels[k]
        BY <2>10, <3>2
      <4>2. i < Len(w) /\ w[i + 1] = R[i + 1] /\ k \in 1..(m + 1)
        BY <1>2, <2>10, <2>11, <3>2
      <4> QED
        BY <4>1, <4>2
    <3> QED
      BY <2>9, <3>1, <3>2
  <2>13. \A k \in 1..(m + 1) : context[k] # <<>> => \E i : Break(w, i) /\ w[i + 1] = Labels[k]
    <3> TAKE k \in 1..(m + 1)
    <3> HAVE context[k] # <<>>
    <3>1. CASE k = m + 1
      BY <2>8, <2>11, <3>1 DEF label
    <3>2. CASE k # m + 1
      <4>1. PICK i : Break(R, i) /\ R[i + 1] = Labels[k]
        BY <1>1, <3>2 DEF FieldsIn
      <4> QED
        BY <2>10, <4>1
    <3> QED
      BY <3>1, <3>2
  <2>14. ASSUME NEW i, NEW j, Break(w, i), Break(w, j), i < j,
                NEW k \in 1..7, NEW l \in 1..7, w[i + 1] = Labels[k], w[j + 1] = Labels[l]
         PROVE  k < l
    <3>1. Break(R, i)
      <4>1. j = n + 1 \/ j < n
        BY <2>9, <2>10, <2>14
      <4>2. i # n + 1
        BY <1>2, <2>9, <2>10, <2>14, <4>1
      <4> QED
        BY <2>9, <2>14, <4>2
    <3>2. CASE j = n + 1
      <4>1. l = m + 1
        <5>1. w[j + 1] = Labels[m + 1]
          BY <2>8, <2>11, <3>2 DEF label
        <5> QED
          BY <1>1, <2>14, <5>1, LabelsDiffer
      <4>2. PICK o \in 1..m : R[i + 1] = Labels[o]
        BY <2>10, <3>1
      <4>3. o \in 1..7 /\ Labels[k] = Labels[o]
        BY <1>1, <2>10, <2>14, <3>1, <4>2
      <4>4. k = o
        BY <4>3, LabelsDiffer
      <4> QED
        BY <4>1, <4>4
    <3>3. CASE Break(R, j)
      <4>1. R[i + 1] = Labels[k] /\ R[j + 1] = Labels[l]
        BY <2>10, <2>14, <3>1, <3>3
      <4> QED
        BY <2>14, <3>1, <3>3, <4>1 DEF FieldsIn
    <3> QED
      BY <2>9, <2>14, <3>2, <3>3
  <2>15. w[1] = "nl"
    <3>1. CASE n = 0
      BY <2>8, <3>1
    <3>2. CASE n # 0
      <4>1. n > 0 /\ 1 \in 1..n
        BY <1>2, <3>2
      <4> QED
        BY <2>7, <4>1 DEF FieldsIn
    <3> QED
      BY <3>1, <3>2
  <2>16. FieldsIn(w, context, m + 1)
    BY <2>7, <2>12, <2>13, <2>14, <2>15 DEF FieldsIn
  <2> QED
    BY <2>1, <2>16 DEF label
<1> QED
  BY <1>3, <1>4

\* So a rendered context is all seven.
LEMMA RenderIsFields ==
  ASSUME NEW context \in [1..7 -> Text]
  PROVE  FieldsIn(Render(context), context, 7)
<1> HIDE DEF Tokens
<1> DEFINE line(k) == Field(Labels[k], context[k])
<1>0. FieldsIn(<<>>, context, 0)
  BY SMTT(30) DEF FieldsIn, Guarded, Text, Break
<1>1. FieldsIn(line(1), context, 1)
  <2>1. line(1) \in Text
    <3>1. Labels[1] \in Tokens /\ "nl" \in Tokens /\ EscapeField(context[1]) \in Text
      BY Written, FieldIsLine
    <3> QED
      BY <3>1 DEF Field, Text
  <2>2. <<>> \o line(1) = line(1)
    <3> HIDE DEF line
    <3> QED
      BY <2>1 DEF Text
  <2>3. FieldsIn(<<>> \o line(0 + 1), context, 0 + 1)
    BY <1>0, FieldAdded, 0 \in 0..6
  <2> QED
    BY <2>2, <2>3, 0 + 1 = 1
<1>2. FieldsIn(line(1) \o line(2), context, 2)
  BY <1>1, FieldAdded, 1 \in 0..6, 1 + 1 = 2
<1>3. FieldsIn(line(1) \o line(2) \o line(3), context, 3)
  BY <1>2, FieldAdded, 2 \in 0..6, 2 + 1 = 3
<1>4. FieldsIn(line(1) \o line(2) \o line(3) \o line(4), context, 4)
  BY <1>3, FieldAdded, 3 \in 0..6, 3 + 1 = 4
<1>5. FieldsIn(line(1) \o line(2) \o line(3) \o line(4) \o line(5), context, 5)
  BY <1>4, FieldAdded, 4 \in 0..6, 4 + 1 = 5
<1>6. FieldsIn(line(1) \o line(2) \o line(3) \o line(4) \o line(5) \o line(6), context, 6)
  BY <1>5, FieldAdded, 5 \in 0..6, 5 + 1 = 6
<1>7. FieldsIn(line(1) \o line(2) \o line(3) \o line(4) \o line(5) \o line(6) \o line(7), context, 7)
  BY <1>6, FieldAdded, 6 \in 0..6, 6 + 1 = 7
<1> QED
  BY <1>7 DEF Render

\* Where everything is in a prompt that is made of a rendered context and a text.
Laid(prompt, R, E) ==
  /\ prompt \in Text /\ Len(prompt) = Len(R) + Len(E) + 9
  /\ prompt[1] = "[telegram-context]"
  /\ \A i \in 1..Len(R) : prompt[1 + i] = R[i]
  /\ prompt[Len(R) + 2] = "nl" /\ prompt[Len(R) + 3] = "[/telegram-context]"
  /\ prompt[Len(R) + 4] = "nl" /\ prompt[Len(R) + 5] = "nl"
  /\ prompt[Len(R) + 6] = "[user-message]" /\ prompt[Len(R) + 7] = "nl"
  /\ \A i \in 1..Len(E) : prompt[Len(R) + 7 + i] = E[i]
  /\ prompt[Len(R) + Len(E) + 8] = "nl"
  /\ prompt[Len(R) + Len(E) + 9] = "[/user-message]"

\* A prompt is laid out so.
LEMMA PromptLaid ==
  ASSUME NEW R \in Text, NEW E \in Text
  PROVE  Laid(<<"[telegram-context]">> \o R
                \o <<"nl", "[/telegram-context]", "nl", "nl", "[user-message]", "nl">>
                \o E \o <<"nl", "[/user-message]">>, R, E)
<1> DEFINE head == <<"[telegram-context]">>
           middle == <<"nl", "[/telegram-context]", "nl", "nl", "[user-message]", "nl">>
           foot == <<"nl", "[/user-message]">>
           a == head \o R
           b == a \o middle
           c == b \o E
           d == c \o foot
           r == Len(R)
           e == Len(E)
<1>1. "nl" \in Tokens /\ \A marker \in Markers : marker \in Tokens
  BY Written
<1> HIDE DEF Tokens
<1>2. /\ head \in Text /\ Len(head) = 1 /\ head[1] = "[telegram-context]"
      /\ middle \in Text /\ Len(middle) = 6 /\ middle[1] = "nl" /\ middle[2] = "[/telegram-context]"
      /\ middle[3] = "nl" /\ middle[4] = "nl" /\ middle[5] = "[user-message]" /\ middle[6] = "nl"
      /\ foot \in Text /\ Len(foot) = 2 /\ foot[1] = "nl" /\ foot[2] = "[/user-message]"
  BY <1>1 DEF Markers, Text
<1> HIDE DEF head, middle, foot
<1>3. /\ a \in Text /\ Len(a) = Len(head) + r /\ r \in Nat /\ e \in Nat
      /\ \A i \in 1..Len(head) : a[i] = head[i]
      /\ \A i \in 1..r : a[Len(head) + i] = R[i]
  BY <1>2, Joined
<1> HIDE DEF a
<1>4. /\ b \in Text /\ Len(b) = Len(a) + Len(middle)
      /\ \A i \in 1..Len(a) : b[i] = a[i]
      /\ \A i \in 1..Len(middle) : b[Len(a) + i] = middle[i]
  BY <1>2, <1>3, Joined
<1> HIDE DEF b
<1>5. /\ c \in Text /\ Len(c) = Len(b) + e
      /\ \A i \in 1..Len(b) : c[i] = b[i]
      /\ \A i \in 1..e : c[Len(b) + i] = E[i]
  BY <1>4, Joined
<1> HIDE DEF c
<1>6. /\ d \in Text /\ Len(d) = Len(c) + Len(foot)
      /\ \A i \in 1..Len(c) : d[i] = c[i]
      /\ \A i \in 1..Len(foot) : d[Len(c) + i] = foot[i]
  BY <1>2, <1>5, Joined
<1> HIDE DEF d, r, e
<1>7. Len(a) = r + 1 /\ Len(b) = r + 7 /\ Len(c) = r + e + 7 /\ Len(d) = r + e + 9
  BY <1>2, <1>3, <1>4, <1>5, <1>6
<1>8. d[1] = "[telegram-context]" /\ \A i \in 1..r : d[1 + i] = R[i]
  <2>1. \A i \in 1..(r + 1) : i \in 1..Len(a) /\ i \in 1..Len(b) /\ i \in 1..Len(c)
    BY <1>3, <1>7
  <2>2. \A i \in 1..(r + 1) : d[i] = a[i]
    BY <1>4, <1>5, <1>6, <2>1
  <2>3. 1 \in 1..(r + 1) /\ \A i \in 1..r : 1 + i \in 1..(r + 1)
    BY <1>3
  <2> QED
    BY <1>2, <1>3, <2>2, <2>3
<1>9. \A i \in 1..6 : d[(r + 1) + i] = middle[i]
  <2>1. \A i \in 1..6 : (r + 1) + i \in 1..Len(b) /\ (r + 1) + i \in 1..Len(c)
    BY <1>3, <1>7
  <2>2. \A i \in 1..6 : d[(r + 1) + i] = b[(r + 1) + i]
    BY <1>5, <1>6, <2>1
  <2>3. \A i \in 1..6 : b[(r + 1) + i] = middle[i]
    BY <1>2, <1>4, <1>7
  <2> QED
    BY <2>2, <2>3
<1>10. \A i \in 1..e : d[r + 7 + i] = E[i]
  <2>1. \A i \in 1..e : r + 7 + i \in 1..Len(c)
    BY <1>3, <1>7
  <2> QED
    BY <1>5, <1>6, <1>7, <2>1
<1>11. d[(r + e + 7) + 1] = "nl" /\ d[(r + e + 7) + 2] = "[/user-message]"
  <2>1. 1 \in 1..Len(foot) /\ 2 \in 1..Len(foot)
    BY <1>2
  <2> QED
    BY <1>2, <1>6, <1>7, <2>1
<1>12. /\ d[r + 2] = "nl" /\ d[r + 3] = "[/telegram-context]"
       /\ d[r + 4] = "nl" /\ d[r + 5] = "nl" /\ d[r + 6] = "[user-message]" /\ d[r + 7] = "nl"
  <2>1. /\ (r + 1) + 1 = r + 2 /\ (r + 1) + 2 = r + 3 /\ (r + 1) + 3 = r + 4
        /\ (r + 1) + 4 = r + 5 /\ (r + 1) + 5 = r + 6 /\ (r + 1) + 6 = r + 7
    BY <1>3
  <2>2. \A i \in {1, 2, 3, 4, 5, 6} : d[(r + 1) + i] = middle[i]
    BY <1>9
  <2> QED
    BY <1>2, <2>1, <2>2
<1>13. (r + e + 7) + 1 = r + e + 8 /\ (r + e + 7) + 2 = r + e + 9
  BY <1>3
<1>14. Laid(d, R, E)
  BY <1>6, <1>7, <1>8, <1>10, <1>11, <1>12, <1>13 DEF Laid, r, e
<1> QED
  BY <1>14 DEF d, c, b, a, head, middle, foot

\* The markers at lines of their own are the four that were written.
LEMMA MarkerLines ==
  ASSUME NEW R \in Text, NEW E \in Text, Guarded(R), Guarded(E), Len(R) > 0 => R[1] = "nl",
         NEW prompt, Laid(prompt, R, E)
  PROVE  /\ At(prompt, "[telegram-context]") = {1}
         /\ At(prompt, "[/telegram-context]") = {Len(R) + 3}
         /\ At(prompt, "[user-message]") = {Len(R) + 6}
         /\ At(prompt, "[/user-message]") = {Len(prompt)}
<1> DEFINE r == Len(R)
           e == Len(E)
           places == {1, r + 3, r + 6, r + e + 9}
<1>0. "nl" \notin Markers /\ "\\" # "nl"
  BY DEF Markers
<1> HIDE DEF Tokens
<1>1. r \in Nat /\ e \in Nat /\ Len(prompt) = r + e + 9 /\ DOMAIN prompt = 1..(r + e + 9)
  BY DEF Text, Laid
<1>2. /\ prompt[1] = "[telegram-context]" /\ prompt[r + 3] = "[/telegram-context]"
      /\ prompt[r + 6] = "[user-message]" /\ prompt[r + e + 9] = "[/user-message]"
  BY DEF Laid
<1>3. \A i \in {r + 2, r + 4, r + 5, r + 7, r + e + 8} : prompt[i] = "nl"
  BY DEF Laid
<1>4. /\ \A i \in 1..r : prompt[1 + i] = R[i]
      /\ \A i \in 1..e : prompt[(r + 7) + i] = E[i]
  BY DEF Laid
<1>5. /\ \A i \in 1..r : R[i] \in Markers => i > 1 /\ R[i - 1] = "\\"
      /\ \A i \in 1..e : E[i] \in Markers => i > 1 /\ E[i - 1] = "\\"
      /\ r > 0 => R[1] = "nl"
  BY DEF Guarded
<1> HIDE DEF r, e, places
\* A marker in one of the two texts has a backslash before it.
<1>6. ASSUME NEW i \in 1..(r + e + 9), prompt[i] \in Markers, i = 1 \/ prompt[i - 1] = "nl"
      PROVE  i \in places
  <2>1. ASSUME NEW j \in 1..r, i = 1 + j PROVE FALSE
    <3>1. prompt[i] = R[j]
      BY <1>4, <2>1
    <3>2. j > 1 /\ R[j - 1] = "\\"
      BY <1>5, <1>6, <3>1
    <3>3. j - 1 \in 1..r /\ 1 + (j - 1) = i - 1 /\ i # 1
      BY <1>1, <2>1, <3>2
    <3>4. prompt[i - 1] = "\\"
      BY <1>4, <3>2, <3>3
    <3> QED
      BY <1>0, <1>6, <3>3, <3>4
  <2>2. ASSUME NEW j \in 1..e, i = (r + 7) + j PROVE FALSE
    <3>1. prompt[i] = E[j]
      BY <1>4, <2>2
    <3>2. j > 1 /\ E[j - 1] = "\\"
      BY <1>5, <1>6, <3>1
    <3>3. j - 1 \in 1..e /\ (r + 7) + (j - 1) = i - 1 /\ i # 1
      BY <1>1, <2>2, <3>2
    <3>4. prompt[i - 1] = "\\"
      BY <1>4, <3>2, <3>3
    <3> QED
      BY <1>0, <1>6, <3>3, <3>4
  <2>3. i \notin {r + 2, r + 4, r + 5, r + 7, r + e + 8}
    BY <1>0, <1>3, <1>6
  <2>4. i \notin 2..(r + 1)
    <3> SUFFICES ASSUME i \in 2..(r + 1) PROVE FALSE
      OBVIOUS
    <3>1. i - 1 \in 1..r /\ i = 1 + (i - 1)
      BY <1>1
    <3> QED
      BY <2>1, <3>1
  <2>5. i \notin (r + 8)..(r + e + 7)
    <3> SUFFICES ASSUME i \in (r + 8)..(r + e + 7) PROVE FALSE
      OBVIOUS
    <3>1. i - r - 7 \in 1..e /\ i = (r + 7) + (i - r - 7)
      BY <1>1
    <3> QED
      BY <2>2, <3>1
  <2> QED
    BY <1>1, <2>3, <2>4, <2>5 DEF places
\* Each of the four has a line of its own.
<1>7. ASSUME NEW at \in places
      PROVE  /\ at \in 1..(r + e + 9)
             /\ at = 1 \/ prompt[at - 1] = "nl"
             /\ at = r + e + 9 \/ prompt[at + 1] = "nl"
  <2>1. at \in 1..(r + e + 9)
    BY <1>1 DEF places
  <2>2. CASE at = 1
    <3>1. CASE r = 0
      <4>1. r + 2 = 2
        BY <3>1
      <4>2. prompt[2] = "nl"
        BY <1>3, <4>1
      <4> QED
        BY <2>1, <2>2, <4>2
    <3>2. CASE r # 0
      <4>1. 1 \in 1..r /\ r > 0
        BY <1>1, <3>2
      <4>2. prompt[2] = "nl"
        BY <1>4, <1>5, <4>1, 1 + 1 = 2
      <4> QED
        BY <2>1, <2>2, <4>2
    <3> QED
      BY <3>1, <3>2
  <2>3. CASE at = r + 3
    <3>1. at - 1 = r + 2 /\ at + 1 = r + 4
      BY <1>1, <2>3
    <3> QED
      BY <1>3, <2>1, <3>1
  <2>4. CASE at = r + 6
    <3>1. at - 1 = r + 5 /\ at + 1 = r + 7
      BY <1>1, <2>4
    <3> QED
      BY <1>3, <2>1, <3>1
  <2>5. CASE at = r + e + 9
    <3>1. at - 1 = r + e + 8
      BY <1>1, <2>5
    <3> QED
      BY <1>3, <2>1, <2>5, <3>1
  <2> QED
    BY <2>2, <2>3, <2>4, <2>5 DEF places
<1>8. ASSUME NEW marker \in Markers, NEW at \in places, prompt[at] = marker,
             \A i \in places : i # at => prompt[i] # marker
      PROVE  At(prompt, marker) = {at}
  <2>1. at \in At(prompt, marker)
    BY <1>1, <1>7, <1>8 DEF At
  <2>2. ASSUME NEW i \in At(prompt, marker) PROVE i = at
    <3>1. i \in 1..(r + e + 9) /\ prompt[i] = marker /\ (i = 1 \/ prompt[i - 1] = "nl")
      BY <1>1 DEF At
    <3>2. i \in places
      BY <1>6, <1>8, <3>1
    <3> QED
      BY <1>8, <3>1, <3>2
  <2> QED
    BY <2>1, <2>2
<1>9. At(prompt, "[telegram-context]") = {1}
  BY <1>2, <1>8 DEF places, Markers
<1>10. At(prompt, "[/telegram-context]") = {r + 3}
  BY <1>2, <1>8 DEF places, Markers
<1>11. At(prompt, "[user-message]") = {r + 6}
  BY <1>2, <1>8 DEF places, Markers
<1>12. At(prompt, "[/user-message]") = {r + e + 9}
  BY <1>2, <1>8 DEF places, Markers
<1> QED
  BY <1>1, <1>9, <1>10, <1>11, <1>12 DEF r


\* So a prompt laid out like this reads back: its lines before the end of the context
\* are the fields, and the block of the message is the message escaped.
LEMMA PromptReads ==
  ASSUME NEW message, IsMessage(message), NEW text \in Text
  PROVE  ReadsBack(BuildLLMMessage(message, text), message, text)
<1> HIDE DEF Tokens
<1> DEFINE context == Context(message)
           R == Render(context)
           E == EscapeBlock(text)
           prompt == BuildLLMMessage(message, text)
           r == Len(R)
           end == Len(R) + 3
           begin == Len(R) + 6
<1>1. context \in [1..7 -> Text]
  BY ContextTyped
<1>2. E \in Text /\ Guarded(E) /\ Unescape(E) = TrimSpace(text)
  BY BlockReads
<1> HIDE DEF context
<1>3. FieldsIn(R, context, 7)
  BY <1>1, RenderIsFields
<1>4. R \in Text /\ Guarded(R) /\ (Len(R) > 0 => R[1] = "nl")
  BY <1>3 DEF FieldsIn
<1> HIDE DEF R, E
<1>5. Laid(prompt, R, E)
  BY <1>2, <1>4, PromptLaid DEF BuildLLMMessage, R, E, context
<1> HIDE DEF prompt
<1>6. /\ At(prompt, "[telegram-context]") = {1}
      /\ At(prompt, "[/telegram-context]") = {end}
      /\ At(prompt, "[user-message]") = {begin}
      /\ At(prompt, "[/user-message]") = {Len(prompt)}
  BY <1>2, <1>4, <1>5, MarkerLines
<1>7. /\ r \in Nat /\ Len(E) \in Nat /\ prompt \in Text /\ Len(prompt) = r + Len(E) + 9
      /\ prompt[1] = "[telegram-context]" /\ prompt[r + 2] = "nl"
      /\ \A i \in 1..r : prompt[1 + i] = R[i]
      /\ prompt[r + 3] = "[/telegram-context]"
      /\ \A i \in 1..Len(E) : prompt[r + 7 + i] = E[i]
  BY <1>2, <1>4, <1>5 DEF Laid, Text
<1> HIDE DEF r
<1>8. end = r + 3 /\ begin = r + 6
  BY DEF r
<1> HIDE DEF end, begin
<1>9. end \in DOMAIN prompt /\ begin \in DOMAIN prompt /\ end < begin
  <2>1. DOMAIN prompt = 1..Len(prompt)
    BY <1>7 DEF Text
  <2> QED
    BY <1>7, <1>8, <2>1
\* The lines before the end of the context begin where one of R does.
<1>10. FieldLines(prompt, end, context)
  <2> DEFINE starts == {i \in 2..(end - 1) : prompt[i - 1] = "nl"}
  <2>1. ASSUME NEW i \in starts
        PROVE  Break(R, i - 2) /\ prompt[i] = R[(i - 2) + 1]
    <3>1. i \in 2..(r + 2) /\ prompt[i - 1] = "nl"
      BY <1>7, <1>8
    <3>2. i # 2
      <4> SUFFICES ASSUME i = 2 PROVE FALSE
        OBVIOUS
      <4>1. i - 1 = 1
        OBVIOUS
      <4> QED
        BY <1>7, <3>1, <4>1
    <3>3. i - 2 \in 1..r /\ i - 1 = 1 + (i - 2)
      BY <1>7, <3>1, <3>2
    <3>4. Break(R, i - 2)
      BY <1>7, <3>1, <3>3 DEF Break, r
    <3>5. i - 2 < r
      BY <1>3, <3>4 DEF FieldsIn, r
    <3>6. (i - 2) + 1 \in 1..r /\ i = 1 + ((i - 2) + 1)
      BY <1>7, <3>3, <3>5
    <3>7. prompt[1 + ((i - 2) + 1)] = R[(i - 2) + 1]
      BY <1>7, <3>6
    <3> QED
      BY <3>4, <3>6, <3>7
  <2>2. ASSUME NEW j, Break(R, j)
        PROVE  j + 2 \in starts /\ prompt[j + 2] = R[j + 1]
    <3>1. j \in 1..r /\ R[j] = "nl" /\ j < r
      BY <1>3, <2>2 DEF Break, FieldsIn, r
    <3>2. /\ j + 1 \in 1..r /\ j + 2 = 1 + (j + 1) /\ (j + 2) - 1 = 1 + j
          /\ j + 2 \in 2..(end - 1)
      BY <1>7, <1>8, <3>1
    <3> QED
      BY <1>7, <3>1, <3>2
  <2> HIDE DEF starts
  <2>3. DOMAIN Labels = 1..7
    BY Written
  <2>4. ASSUME NEW i \in starts
        PROVE  \E k \in 1..7 : context[k] # <<>> /\ prompt[i] = Labels[k]
    BY <1>3, <2>1 DEF FieldsIn
  <2>5. ASSUME NEW k \in 1..7, context[k] # <<>>
        PROVE  \E i \in starts : prompt[i] = Labels[k]
    <3>1. PICK j : Break(R, j) /\ R[j + 1] = Labels[k]
      BY <1>3, <2>5 DEF FieldsIn
    <3> QED
      BY <2>2, <3>1
  <2>6. ASSUME NEW i \in starts, NEW j \in starts, NEW k \in 1..7, NEW l \in 1..7,
               i < j, prompt[i] = Labels[k], prompt[j] = Labels[l]
        PROVE  k < l
    <3>1. i - 2 < j - 2
      BY <2>6 DEF starts
    <3> QED
      BY <1>3, <2>1, <2>6, <3>1 DEF FieldsIn
  <2> QED
    BY <2>3, <2>4, <2>5, <2>6 DEF FieldLines, starts
<1>11. SubSeq(prompt, begin + 2, Len(prompt) - 2) = E
  <2>1. begin + 2 = r + 8 /\ Len(prompt) - 2 = r + Len(E) + 7
    BY <1>7, <1>8
  <2> DEFINE u == SubSeq(prompt, r + 8, r + Len(E) + 7)
  <2>2. /\ u \in Text /\ Len(u) = Len(E)
        /\ \A i \in 1..Len(E) : u[i] = prompt[r + 7 + i]
    BY <1>7 DEF Text
  <2> HIDE DEF u
  <2>3. /\ u = [i \in 1..Len(E) |-> u[i]] /\ E = [i \in 1..Len(E) |-> E[i]]
    BY <1>2, <2>2 DEF Text
  <2>4. \A i \in 1..Len(E) : u[i] = E[i]
    BY <1>7, <2>2
  <2>5. u = E
    BY <2>3, <2>4
  <2> QED
    BY <2>1, <2>5 DEF u
<1>12. Unescape(SubSeq(prompt, begin + 2, Len(prompt) - 2)) = TrimSpace(text)
  BY <1>2, <1>11
<1> QED
  BY <1>6, <1>9, <1>10, <1>12 DEF ReadsBack, context, prompt

-----------------------------------------------------------------------------
(* The request of every message                                            *)

\* The text of a message is a text, whatever mention is cut off it.
LEMMA MentionCut ==
  ASSUME NEW text \in Text, NEW mention \in Text
  PROVE  TrimLeadingBotMention(text, mention) \in Text
<1> DEFINE rest == SubSeq(text, Len(mention) + 1, Len(text))
           at == {i \in 1..Len(rest) : rest[i] \notin Punctuation}
           least == CHOOSE x \in at : \A y \in at : x =< y
           first == IF at # {} THEN least ELSE 0
<1>1. rest \in Text /\ Len(rest) \in Nat
  BY DEF Text
<1>2. TrimLeadingBotMention(text, mention) =
        IF mention = <<>> \/ ~IsPrefix(mention, text) THEN text
        ELSE IF first = 0 THEN <<>> ELSE TrimSpace(SubSeq(rest, first, Len(rest)))
  BY DEF TrimLeadingBotMention, SelectInSeq, Min
<1> HIDE DEF rest
<1>3. ASSUME first # 0 PROVE TrimSpace(SubSeq(rest, first, Len(rest))) \in Text
  <2>1. at # {} /\ at \subseteq Nat
    BY <1>1, <1>3
  <2>2. \E x \in at : \A y \in at : x =< y
    BY <2>1, LeastNat
  <2>3. least \in at
    BY <2>2
  <2>4. first \in 1..Len(rest)
    BY <2>1, <2>3
  <2> HIDE DEF first
  <2>5. SubSeq(rest, first, Len(rest)) \in Text
    BY <1>1, <2>4 DEF Text
  <2> QED
    BY <2>5, TrimTyped
<1>4. <<>> \in Text
  BY DEF Text
<1> QED
  BY <1>2, <1>3, <1>4

LEMMA IncomingTyped ==
  ASSUME NEW message \in Messages, Addressed(message)
  PROVE  IncomingText(message) \in Text
<1>1. IsMessage(message)
  BY MessagesAssumption
<1>2. TrimSpace(message.text) \in Text
  BY <1>1, TrimTyped DEF IsMessage, IsContent
<1>3. CASE message.group /\ ~IsDirectReplyToBot(message)
  <2>1. message.mention \in Text
    BY <1>1, <1>3 DEF Addressed, IsMessage
  <2> QED
    BY <1>2, <1>3, <2>1, MentionCut DEF IncomingText
<1> QED
  BY <1>2, <1>3 DEF IncomingText

\* Until the model is asked a turn is about a message the bot answers, and holds
\* what was received, and in the end what is sent, of it.
RequestInv ==
  \A t \in Updates :
    /\ turn[t].pc \in Requesting =>
         /\ turn[t].message \in DOMAIN UserItem
         /\ turn[t].text = IncomingText(turn[t].message)
    /\ turn[t].pc = "prepare" => turn[t].prompt = UserItem[turn[t].message]

\* No step disturbs it: only a turn's own steps before its request touch these parts.
LEMMA RequestStep ==
  ASSUME TypeInv, RequestInv, [Next]_vars
  PROVE  RequestInv'
<1> DEFINE About(record) ==
             /\ record.message \in DOMAIN UserItem
             /\ record.text = IncomingText(record.message)
             /\ record.pc = "prepare" => record.prompt = UserItem[record.message]
<1> SUFFICES ASSUME NEW u \in Updates, turn'[u].pc \in Requesting
             PROVE  About(turn'[u])
  BY DEF RequestInv, Requesting
<1>0. u \in Turns /\ turn[u] \in Records
  BY DEF TypeInv, Turns
<1>1. turn[u].pc \in Requesting => About(turn[u])
  BY DEF RequestInv, Requesting
<1> HIDE DEF About
<1>2. CASE turn'[u] = turn[u]
  BY <1>1, <1>2
<1>3. ASSUME NEW pc \in {"failed", "done"}, End(u, pc) PROVE FALSE
  BY <1>0, <1>3, Ended DEF Requesting
<1>4. ASSUME NEW record, To(u, record) PROVE turn'[u] = record
  BY <1>0, <1>4, Moved
<1>5. CASE Receive(u)
  <2>1. PICK message \in Messages :
          /\ message.sender # Absent /\ ShouldRespond(message)
          /\ To(u, [Idle EXCEPT !.pc = "gate", !.message = message,
                                !.text = IncomingText(message)])
    BY <1>3, <1>5 DEF Receive
  <2>2. turn'[u] = [Idle EXCEPT !.pc = "gate", !.message = message,
                                !.text = IncomingText(message)]
    BY <1>4, <2>1
  <2>3. /\ turn'[u].pc = "gate" /\ turn'[u].message = message
        /\ turn'[u].text = IncomingText(message)
    BY <2>2 DEF Idle
  <2>4. message \in DOMAIN UserItem
    BY <2>1 DEF UserItem
  <2> QED
    BY <2>3, <2>4 DEF About
<1>6. CASE Gate(u) \/ StartTyping(u)
  <2>1. PICK pc \in {"typing", "build"} : turn'[u] = [turn[u] EXCEPT !.pc = pc]
    BY <1>3, <1>4, <1>6 DEF Gate, StartTyping
  <2>2. About(turn[u])
    BY <1>1, <1>6 DEF Gate, StartTyping, Requesting
  <2>3. /\ turn'[u].pc = pc /\ turn'[u].message = turn[u].message
        /\ turn'[u].text = turn[u].text
    BY <1>0, <2>1 DEF Records
  <2> QED
    BY <2>2, <2>3 DEF About
<1>7. CASE BuildChatRequest(u)
  <2>1. PICK image \in BOOLEAN :
          turn'[u] = [turn[u] EXCEPT !.pc = "prepare", !.image = image,
                        !.prompt = UserItem[turn[u].message]]
    BY <1>3, <1>4, <1>7 DEF BuildChatRequest
  <2>2. About(turn[u])
    BY <1>1, <1>7 DEF BuildChatRequest, Requesting
  <2>3. /\ turn'[u].message = turn[u].message /\ turn'[u].text = turn[u].text
        /\ turn'[u].prompt = UserItem[turn[u].message]
    BY <1>0, <2>1 DEF Records
  <2> QED
    BY <2>2, <2>3 DEF About
<1> QED
  BY <1>2, <1>5, <1>6, <1>7, ToRequest DEF UpdateNext

\* It is enough.
LEMMA RequestReads ==
  ASSUME RequestInv
  PROVE  PromptReadsBack
<1> SUFFICES ASSUME NEW t \in Updates, turn[t].pc = "prepare"
             PROVE  ReadsBack(turn[t].prompt, turn[t].message, turn[t].text)
  BY DEF PromptReadsBack
<1> DEFINE message == turn[t].message
<1>1. /\ message \in DOMAIN UserItem /\ turn[t].text = IncomingText(message)
      /\ turn[t].prompt = UserItem[message]
  BY DEF RequestInv, Requesting
<1> HIDE DEF message
<1>2. /\ message \in Messages /\ ShouldRespond(message)
      /\ UserItem[message] = BuildLLMMessage(message, IncomingText(message))
  BY <1>1 DEF UserItem
<1>3. IsMessage(message) /\ IncomingText(message) \in Text
  BY <1>2, IncomingTyped, MessagesAssumption DEF ShouldRespond
<1> QED
  BY <1>1, <1>2, <1>3, PromptReads DEF message

\* Whatever a message, the names in it and the texts it refers to hold, markers,
\* backslashes and line breaks among them: of its request the model can tell the
\* context, a line for each field, from the user's words, and read these back.
THEOREM ReadBack == Spec => []PromptReadsBack
<1>1. Init => TypeInv /\ RequestInv
  BY InitTyped, IdleRecord DEF Init, RequestInv, Requesting, Turns
<1>2. TypeInv /\ RequestInv /\ [Next]_vars => TypeInv' /\ RequestInv'
  BY StepTyped, RequestStep
<1>3. RequestInv => PromptReadsBack
  BY RequestReads
<1> QED
  BY <1>1, <1>2, <1>3, PTL DEF Spec

=============================================================================
