---------------------------- MODULE ChatRunProofs ----------------------------
(***************************************************************************)
(* Theorems of ChatRun for every number of turns and of steps, whatever    *)
(* turns run at once: nobody is ever shown an empty message, what is       *)
(* stored of a turn is the last part of what its requests held, and a      *)
(* reply that was answered leaves no call without its output.              *)
(***************************************************************************)
EXTENDS ChatRun, SequenceTheorems, TLAPS

TurnTyping == turn \in [Turns -> TurnStates]

\* A reply that has used a tool still shows the status it announced, and the
\* final text can only be empty after a tool was used.
Announced ==
  \A t \in Turns :
    /\ turn[t].pc \in {"tool", "storeOutput"} => turn[t].used
    /\ turn[t].used /\ t \in Replies /\ turn[t].pc \notin {"failed", "done"} =>
         turn[t].seen = "status"
    /\ turn[t].result = "blank" => turn[t].used /\ turn[t].pc = "deliver"
    /\ turn[t].pc = "deliver" => turn[t].result # "none"
    /\ turn[t].pc \notin {"deliver", "failed", "done"} => turn[t].step < MaxSteps
    /\ turn[t].seen # "blank"

BlankInv == TurnTyping /\ Announced

\* Rewriting one turn keeps the others.
LEMMA ToOne ==
  ASSUME TurnTyping, NEW t \in Turns, NEW r \in TurnStates, To(t, r)
  PROVE  TurnTyping' /\ turn'[t] = r /\ \A u \in Turns : u # t => turn'[u] = turn[u]
  BY DEF TurnTyping, To

\* The well-formed turns are closed under the writes of the actions.
LEMMA Writes ==
  ASSUME NEW r \in TurnStates, NEW p \in Pcs
  PROVE  /\ [r EXCEPT !.pc = p] \in TurnStates
         /\ \A x \in BOOLEAN : /\ [r EXCEPT !.pc = p, !.stored = x] \in TurnStates
                               /\ [r EXCEPT !.pc = p, !.used = x] \in TurnStates
         /\ \A v \in Seen : [r EXCEPT !.pc = p, !.seen = v] \in TurnStates
         /\ \A x \in BOOLEAN, v \in Seen :
              [r EXCEPT !.pc = p, !.used = x, !.seen = v] \in TurnStates
         /\ \A k \in Tools \cup {NoTool} : [r EXCEPT !.pc = p, !.tool = k] \in TurnStates
  BY DEF TurnStates

\* The same for the fields a response and the end of a step write.
LEMMA ResponseWrites ==
  ASSUME NEW r \in TurnStates, NEW p \in Pcs
  PROVE  /\ \A s \in 0..MaxSteps : [r EXCEPT !.pc = p, !.step = s] \in TurnStates
         /\ \A s \in 0..MaxSteps, q \in Results :
              [r EXCEPT !.pc = p, !.step = s, !.result = q] \in TurnStates
         /\ \A q \in Results : [r EXCEPT !.pc = p, !.result = q] \in TurnStates
         /\ \A x \in BOOLEAN, c \in 0..2 : [r EXCEPT !.text = x, !.calls = c] \in TurnStates
         /\ \A x \in BOOLEAN, c \in 0..2, k \in Tools \cup {NoTool} :
              [r EXCEPT !.pc = p, !.text = x, !.calls = c, !.tool = k] \in TurnStates
         /\ \A x \in BOOLEAN, c \in 0..2, k \in Tools \cup {NoTool}, q \in Results :
              [r EXCEPT !.pc = p, !.text = x, !.calls = c, !.tool = k, !.result = q]
                \in TurnStates
  BY DEF TurnStates

\* A turn that has not started is well formed.
LEMMA NewIsTurn == NewTurn \in TurnStates
  BY StepsAssumption DEF NewTurn, TurnStates, Pcs, Results, Seen

\* The initial turns are new.
LEMMA BlankInit == Init => BlankInv
<1>1. Init => TurnTyping
  BY NewIsTurn DEF Init, TurnTyping
<1>2. Init => Announced
  BY StepsAssumption DEF Init, Announced, NewTurn
<1> QED
  BY <1>1, <1>2 DEF BlankInv

\* Every step of a turn writes a well-formed turn that keeps Announced.
LEMMA BlankNext == BlankInv /\ [Next]_vars => BlankInv'
<1> SUFFICES ASSUME BlankInv, [Next]_vars PROVE BlankInv'
  OBVIOUS
<1> USE StepsAssumption, ToolsAssumption
<1> DEFINE Kept(t, r) ==
      /\ r.pc \in {"tool", "storeOutput"} => r.used
      /\ r.used /\ t \in Replies /\ r.pc \notin {"failed", "done"} => r.seen = "status"
      /\ r.result = "blank" => r.used /\ r.pc = "deliver"
      /\ r.pc = "deliver" => r.result # "none"
      /\ r.pc \notin {"deliver", "failed", "done"} => r.step < MaxSteps
      /\ r.seen # "blank"
<1>1. \A t \in Turns : turn[t] \in TurnStates /\ Kept(t, turn[t])
  BY DEF BlankInv, TurnTyping, Announced
<1>2. ASSUME NEW t \in Turns, NEW r \in TurnStates, Kept(t, r), To(t, r) PROVE BlankInv'
  BY <1>1, <1>2, ToOne DEF BlankInv, TurnTyping, Announced
<1>3. /\ Pcs = {"new", "request", "storeUser", "storeItems", "notify", "tool", "storeOutput",
                "deliver", "failed", "done"}
      /\ TRUE \in BOOLEAN /\ FALSE \in BOOLEAN /\ 0 \in 0..2
      /\ {"none", "blank", "model", "default"} = Results
      /\ {"nothing", "status", "error", "blank", "model", "default"} = Seen
      /\ NoTool \in Tools \cup {NoTool}
  BY DEF Pcs, Results, Seen
<1>4. ASSUME NEW t \in Turns, Prepare(t) PROVE BlankInv'
  <2> DEFINE r == [turn[t] EXCEPT !.pc = "request"]
  <2>1. r \in TurnStates
    BY <1>1, <1>3, Writes
  <2>2. Kept(t, r)
    BY <1>1, <1>4 DEF Prepare, TurnStates
  <2> QED
    BY <1>2, <1>4, <2>1, <2>2 DEF Prepare
<1>5. ASSUME NEW t \in Turns, NEW text \in BOOLEAN, NEW calls \in 0..2,
             NEW tool \in Tools \cup {NoTool}, Respond(t, text, calls, tool)
      PROVE  BlankInv'
  <2> DEFINE r == [turn[t] EXCEPT !.pc = "storeUser", !.text = text, !.calls = calls,
                                  !.tool = tool]
  <2>1. r \in TurnStates
    <3>1. turn[t] \in TurnStates /\ "storeUser" \in Pcs
      BY <1>1, <1>3
    <3> QED
      BY <3>1, ResponseWrites
  <2>2. Kept(t, r)
    BY <1>1, <1>5 DEF Respond, TurnStates
  <2> QED
    BY <1>2, <1>5, <2>1, <2>2 DEF Respond
<1>6. ASSUME NEW t \in Turns, StoreUser(t) PROVE BlankInv'
  <2> DEFINE r == [turn[t] EXCEPT !.pc = "storeItems", !.stored = Persists(t)]
  <2>1. r \in TurnStates
    <3>1. Persists(t) \in BOOLEAN
      BY DEF Persists
    <3>2. turn[t] \in TurnStates /\ "storeItems" \in Pcs
      BY <1>1, <1>3
    <3> QED
      BY <3>1, <3>2, Writes
  <2>2. Kept(t, r)
    BY <1>1, <1>6 DEF StoreUser, TurnStates
  <2> QED
    BY <1>2, <1>6, <2>1, <2>2 DEF StoreUser
<1>7. ASSUME NEW t \in Turns, StoreItems(t) PROVE BlankInv'
  <2> DEFINE used == [turn[t] EXCEPT !.text = FALSE, !.calls = 0]
             r1 == [used EXCEPT !.pc = "failed"]
             r2 == [used EXCEPT !.pc = "deliver", !.result = FinalResult(t)]
             r3 == [used EXCEPT !.pc = "notify"]
  <2>1. used \in TurnStates
    BY <1>1, <1>3, ResponseWrites
  <2>2. /\ used.pc = "storeItems" /\ used.used = turn[t].used /\ used.result = turn[t].result
        /\ used.seen = turn[t].seen /\ used.step = turn[t].step
    BY <1>1, <1>7 DEF StoreItems, TurnStates
  <2>3. FinalResult(t) \in Results \ {"none"} /\ (FinalResult(t) = "blank" => turn[t].used)
    BY <1>3 DEF FinalResult
  <2> HIDE DEF used
  <2>4. r1 \in TurnStates /\ r2 \in TurnStates /\ r3 \in TurnStates
    BY <1>3, <2>1, <2>3, Writes, ResponseWrites
  <2>5. /\ \A p \in Pcs : LET r == [used EXCEPT !.pc = p] IN
             /\ r.pc = p /\ r.used = turn[t].used /\ r.result = turn[t].result
             /\ r.seen = turn[t].seen /\ r.step = turn[t].step
        /\ r2.pc = "deliver" /\ r2.used = turn[t].used /\ r2.result = FinalResult(t)
        /\ r2.seen = turn[t].seen
    BY <2>1, <2>2 DEF TurnStates
  <2>6. Kept(t, r1) /\ Kept(t, r3)
    BY <1>1, <1>3, <1>7, <2>5 DEF StoreItems
  <2>7. Kept(t, r2)
    BY <1>1, <1>7, <2>3, <2>5 DEF StoreItems
  <2>8. To(t, r1) \/ To(t, r2) \/ To(t, r3)
    BY <1>7 DEF StoreItems, used
  <2> QED
    BY <1>2, <2>4, <2>8, <2>6, <2>7
<1>8. ASSUME NEW t \in Turns, Notify(t) PROVE BlankInv'
  <2> DEFINE r1 == [turn[t] EXCEPT !.pc = "tool", !.used = TRUE, !.seen = "status"]
             r2 == [turn[t] EXCEPT !.pc = "tool", !.used = TRUE]
  <2>1. r1 \in TurnStates /\ r2 \in TurnStates
    <3>1. turn[t] \in TurnStates /\ "tool" \in Pcs /\ "status" \in Seen /\ TRUE \in BOOLEAN
      BY <1>1, <1>3
    <3> QED
      BY <3>1, Writes
  <2>2. Kept(t, r1) /\ (~Persists(t) => Kept(t, r2))
    BY <1>1, <1>8 DEF Notify, TurnStates, Persists
  <2> QED
    BY <1>2, <1>8, <2>1, <2>2 DEF Notify
<1>9. ASSUME NEW t \in Turns, NEW fails \in BOOLEAN, RunTool(t, fails) PROVE BlankInv'
  <2> DEFINE r1 == [turn[t] EXCEPT !.pc = "failed", !.tool = NoTool]
             r2 == [turn[t] EXCEPT !.pc = "storeOutput", !.tool = NoTool]
  <2>1. r1 \in TurnStates /\ r2 \in TurnStates
    <3>1. /\ turn[t] \in TurnStates /\ "failed" \in Pcs /\ "storeOutput" \in Pcs
          /\ NoTool \in Tools \cup {NoTool}
      BY <1>1, <1>3
    <3> QED
      BY <3>1, Writes
  <2>2. Kept(t, r1) /\ Kept(t, r2)
    BY <1>1, <1>9 DEF RunTool, TurnStates
  <2> QED
    BY <1>2, <1>9, <2>1, <2>2 DEF RunTool
<1>10. ASSUME NEW t \in Turns, StoreOutput(t) PROVE BlankInv'
  <2> DEFINE next == turn[t].step + 1
             r1 == [turn[t] EXCEPT !.pc = "request", !.step = next]
             r2 == [turn[t] EXCEPT !.pc = "deliver", !.step = next,
                      !.result = IF turn[t].used THEN "default" ELSE "blank"]
  <2>1. turn[t].used /\ turn[t].pc = "storeOutput"
    BY <1>1, <1>10 DEF StoreOutput
  <2>2. next \in 0..MaxSteps
    BY <1>1, <1>10 DEF StoreOutput, TurnStates
  <2>3. r1 \in TurnStates /\ r2 \in TurnStates
    <3>1. /\ turn[t] \in TurnStates /\ "request" \in Pcs /\ "deliver" \in Pcs
          /\ (IF turn[t].used THEN "default" ELSE "blank") \in Results
      BY <1>1, <1>3
    <3> HIDE DEF next
    <3> QED
      BY <2>2, <3>1, ResponseWrites
  <2>4. (next < MaxSteps => Kept(t, r1)) /\ Kept(t, r2)
    BY <1>1, <2>1 DEF TurnStates
  <2> QED
    BY <1>2, <1>10, <2>3, <2>4 DEF StoreOutput
<1>11. ASSUME NEW t \in Turns, NEW shown \in Seen \ {"blank"}, End(t, shown) PROVE BlankInv'
  <2> DEFINE r == [NewTurn EXCEPT !.pc = "done", !.seen = shown]
  <2>1. r \in TurnStates
    <3>1. "done" \in Pcs /\ shown \in Seen
      BY <1>3
    <3> QED
      BY <3>1, NewIsTurn, Writes
  <2>2. Kept(t, r)
    BY DEF NewTurn
  <2> QED
    BY <1>2, <1>11, <2>1, <2>2 DEF End
<1>12. ASSUME NEW t \in Turns, Deliver(t) PROVE BlankInv'
  <2> DEFINE r == turn[t].result
             shown == IF Persists(t) /\ turn[t].seen = "status" /\ r = "blank" THEN "default"
                      ELSE IF ~Persists(t) /\ r = "blank" THEN "nothing" ELSE r
  <2>1. r \in Results \ {"none"} /\ (r = "blank" => ~Persists(t) \/ turn[t].seen = "status")
    BY <1>1, <1>12 DEF Deliver, Persists, TurnStates
  <2>2. shown \in Seen \ {"blank"}
    BY <1>3, <2>1
  <2>3. End(t, shown)
    BY <1>12 DEF Deliver
  <2> QED
    BY <1>11, <2>2, <2>3
<1>13. ASSUME NEW t \in Turns, Fail(t) PROVE BlankInv'
  <2> DEFINE r == [turn[t] EXCEPT !.pc = "failed", !.text = FALSE, !.calls = 0,
                                  !.tool = NoTool, !.result = "none"]
  <2>1. r \in TurnStates
    <3>1. /\ turn[t] \in TurnStates /\ "failed" \in Pcs /\ "none" \in Results
          /\ FALSE \in BOOLEAN /\ 0 \in 0..2 /\ NoTool \in Tools \cup {NoTool}
      BY <1>1, <1>3
    <3> QED
      BY <3>1, ResponseWrites
  <2>2. Kept(t, r)
    BY <1>1 DEF TurnStates
  <2> QED
    BY <1>2, <1>13, <2>1, <2>2 DEF Fail
<1>14. ASSUME NEW t \in Turns, Report(t) PROVE BlankInv'
  <2>1. turn[t].seen \in Seen \ {"blank"} /\ "error" \in Seen \ {"blank"}
    BY <1>1, <1>3 DEF TurnStates
  <2>2. \E shown \in Seen \ {"blank"} : End(t, shown)
    BY <1>14, <2>1 DEF Report
  <2> QED
    BY <1>11, <2>2
<1>15. CASE Die
  <2> DEFINE r(t) == [NewTurn EXCEPT !.pc = "done", !.seen = turn[t].seen]
  <2>1. ASSUME NEW t \in Turns PROVE r(t) \in TurnStates /\ Kept(t, r(t))
    <3>1. turn[t].seen \in Seen \ {"blank"}
      BY <1>1 DEF TurnStates
    <3>2. "done" \in Pcs /\ NewTurn \in TurnStates
      BY <1>3, NewIsTurn
    <3>3. r(t) \in TurnStates
      BY <3>1, <3>2, Writes
    <3>4. Kept(t, r(t))
      BY <3>1 DEF NewTurn
    <3> QED
      BY <3>3, <3>4
  <2>2. \A t \in Turns : turn'[t] \in TurnStates /\ Kept(t, turn'[t])
    BY <1>1, <1>15, <2>1 DEF Die
  <2>3. turn' \in [Turns -> TurnStates]
    BY <1>15, <2>2 DEF Die
  <2> QED
    BY <2>2, <2>3 DEF BlankInv, TurnTyping, Announced
<1>16. CASE Clear \/ UNCHANGED vars
  BY <1>16 DEF Clear, vars, BlankInv, TurnTyping, Announced
<1>17. ASSUME NEW t \in Turns, TurnNext(t) PROVE BlankInv'
  BY <1>4, <1>5, <1>6, <1>7, <1>8, <1>9, <1>10, <1>12, <1>13, <1>14, <1>17 DEF TurnNext
<1> QED
  BY <1>15, <1>16, <1>17 DEF Next

\* Nobody is ever shown an empty message: an empty final text means a tool was
\* used, hence announced, and the placeholder is edited to the default text.
THEOREM NoBlankMessage == Spec => []NeverBlank
<1>1. BlankInv => NeverBlank
  BY DEF BlankInv, Announced, NeverBlank
<1> QED
  BY <1>1, BlankInit, BlankNext, PTL DEF Spec

-----------------------------------------------------------------------------
(* Rows of a turn.                                                         *)

\* Where the items of a concatenation are.
LEMMA Places ==
  ASSUME NEW a \in Seq(Items), NEW b \in Seq(Items)
  PROVE  /\ a \o b \in Seq(Items) /\ Len(a \o b) = Len(a) + Len(b)
         /\ Len(a) \in Nat /\ Len(b) \in Nat
         /\ DOMAIN a = 1..Len(a) /\ DOMAIN b = 1..Len(b) /\ DOMAIN (a \o b) = 1..(Len(a) + Len(b))
         /\ \A i \in 1..Len(a) : (a \o b)[i] = a[i]
         /\ \A n \in 1..Len(b) : (a \o b)[Len(a) + n] = b[n]
         /\ \A i \in 1..(Len(a) + Len(b)) : i \in 1..Len(a) \/ \E n \in 1..Len(b) : i = Len(a) + n
<1>1. /\ a \o b \in Seq(Items) /\ Len(a \o b) = Len(a) + Len(b)
      /\ \A i \in 1..(Len(a) + Len(b)) : (a \o b)[i] = IF i <= Len(a) THEN a[i] ELSE b[i - Len(a)]
  BY ConcatProperties
<1>2. /\ Len(a) \in Nat /\ Len(b) \in Nat
      /\ DOMAIN a = 1..Len(a) /\ DOMAIN b = 1..Len(b) /\ DOMAIN (a \o b) = 1..(Len(a) + Len(b))
  BY <1>1, LenProperties
<1>3. \A i \in 1..Len(a) : (a \o b)[i] = a[i]
  BY <1>1, <1>2
<1>4. \A n \in 1..Len(b) : (a \o b)[Len(a) + n] = b[n]
  <2> TAKE n \in 1..Len(b)
  <2>1. Len(a) + n \in 1..(Len(a) + Len(b)) /\ ~(Len(a) + n <= Len(a)) /\ (Len(a) + n) - Len(a) = n
    BY <1>2
  <2> QED
    BY <1>1, <2>1
<1>5. \A i \in 1..(Len(a) + Len(b)) : i \in 1..Len(a) \/ \E n \in 1..Len(b) : i = Len(a) + n
  <2> SUFFICES ASSUME NEW i \in 1..(Len(a) + Len(b)), i \notin 1..Len(a)
               PROVE  \E n \in 1..Len(b) : i = Len(a) + n
    OBVIOUS
  <2>1. i - Len(a) \in 1..Len(b) /\ i = Len(a) + (i - Len(a))
    BY <1>2
  <2> QED
    BY <2>1
<1> QED
  BY <1>1, <1>2, <1>3, <1>4, <1>5

\* A turn's rows stay the last part of its items while both get the same ones.
LEMMA TailGrowsTogether ==
  ASSUME NEW rows \in Seq(Items), NEW seq \in Seq(Items), NEW more \in Seq(Items),
         NEW t, \A n \in 1..Len(more) : more[n].turn = t, IsTail(rows, t, seq)
  PROVE  IsTail(rows \o more, t, seq \o more)
<1> DEFINE R == rows \o more
           S == seq \o more
<1>1. /\ R \in Seq(Items) /\ Len(R) = Len(rows) + Len(more) /\ DOMAIN R = 1..(Len(rows) + Len(more))
      /\ DOMAIN rows = 1..Len(rows) /\ Len(rows) \in Nat
      /\ \A i \in 1..Len(rows) : R[i] = rows[i]
      /\ \A n \in 1..Len(more) : R[Len(rows) + n] = more[n]
      /\ \A i \in 1..(Len(rows) + Len(more)) :
           i \in 1..Len(rows) \/ \E n \in 1..Len(more) : i = Len(rows) + n
  BY Places
<1>2. /\ S \in Seq(Items) /\ Len(S) = Len(seq) + Len(more) /\ DOMAIN S = 1..(Len(seq) + Len(more))
      /\ DOMAIN seq = 1..Len(seq) /\ Len(seq) \in Nat /\ Len(more) \in Nat
      /\ \A i \in 1..Len(seq) : S[i] = seq[i]
      /\ \A n \in 1..Len(more) : S[Len(seq) + n] = more[n]
      /\ \A i \in 1..(Len(seq) + Len(more)) :
           i \in 1..Len(seq) \/ \E n \in 1..Len(more) : i = Len(seq) + n
  BY Places
<1> HIDE DEF R, S
<1> SUFFICES ASSUME NEW i \in DOMAIN R, R[i].turn = t
             PROVE  \E k \in DOMAIN S :
                      /\ S[k] = R[i]
                      /\ \A l \in (k + 1)..Len(S) : \E j \in (i + 1)..Len(R) : R[j] = S[l]
                      /\ \A j \in (i + 1)..Len(R) : R[j].turn = t =>
                           \E l \in (k + 1)..Len(S) : S[l] = R[j]
  BY DEF IsTail, R, S
<1>3. CASE i \in 1..Len(rows)
  <2>1. PICK k \in 1..Len(seq) :
          /\ seq[k] = rows[i]
          /\ \A l \in (k + 1)..Len(seq) : \E j \in (i + 1)..Len(rows) : rows[j] = seq[l]
          /\ \A j \in (i + 1)..Len(rows) : rows[j].turn = t =>
               \E l \in (k + 1)..Len(seq) : seq[l] = rows[j]
    <3>1. i \in DOMAIN rows /\ rows[i].turn = t
      BY <1>1, <1>3
    <3>2. DOMAIN seq = 1..Len(seq)
      BY <1>2
    <3> QED
      BY <3>1, <3>2 DEF IsTail
  <2>2. k \in DOMAIN S /\ S[k] = R[i]
    BY <1>1, <1>2, <1>3, <2>1
  <2>3. ASSUME NEW l \in (k + 1)..Len(S) PROVE \E j \in (i + 1)..Len(R) : R[j] = S[l]
    <3>1. CASE l \in 1..Len(seq)
      <4>1. l \in (k + 1)..Len(seq)
        BY <1>2, <2>1, <3>1
      <4>2. PICK j \in (i + 1)..Len(rows) : rows[j] = seq[l]
        BY <2>1, <4>1
      <4>3. j \in 1..Len(rows) /\ j \in (i + 1)..Len(R)
        BY <1>1, <1>2, <1>3
      <4> QED
        BY <1>1, <1>2, <3>1, <4>2, <4>3
    <3>2. ASSUME NEW n \in 1..Len(more), l = Len(seq) + n
          PROVE  \E j \in (i + 1)..Len(R) : R[j] = S[l]
      <4>1. Len(rows) + n \in (i + 1)..Len(R)
        BY <1>1, <1>2, <1>3
      <4> QED
        BY <1>1, <1>2, <3>2, <4>1
    <3>3. l \in 1..(Len(seq) + Len(more))
      BY <1>2, <2>1
    <3> QED
      BY <1>2, <3>1, <3>2, <3>3
  <2>4. ASSUME NEW j \in (i + 1)..Len(R), R[j].turn = t PROVE \E l \in (k + 1)..Len(S) : S[l] = R[j]
    <3>1. CASE j \in 1..Len(rows)
      <4>1. j \in (i + 1)..Len(rows)
        BY <1>1, <1>3, <3>1
      <4>2. PICK l \in (k + 1)..Len(seq) : seq[l] = rows[j]
        BY <1>1, <2>1, <2>4, <3>1, <4>1
      <4>3. l \in 1..Len(seq) /\ l \in (k + 1)..Len(S)
        BY <1>2, <2>1
      <4> QED
        BY <1>1, <1>2, <3>1, <4>2, <4>3
    <3>2. ASSUME NEW n \in 1..Len(more), j = Len(rows) + n
          PROVE  \E l \in (k + 1)..Len(S) : S[l] = R[j]
      <4>1. Len(seq) + n \in (k + 1)..Len(S)
        BY <1>2, <2>1
      <4> QED
        BY <1>1, <1>2, <3>2, <4>1
    <3>3. j \in 1..(Len(rows) + Len(more))
      BY <1>1, <1>2, <1>3
    <3> QED
      BY <1>1, <3>1, <3>2, <3>3
  <2> QED
    BY <2>2, <2>3, <2>4
<1>4. ASSUME NEW n \in 1..Len(more), i = Len(rows) + n
      PROVE  \E k \in DOMAIN S :
                      /\ S[k] = R[i]
                      /\ \A l \in (k + 1)..Len(S) : \E j \in (i + 1)..Len(R) : R[j] = S[l]
                      /\ \A j \in (i + 1)..Len(R) : R[j].turn = t =>
                           \E l \in (k + 1)..Len(S) : S[l] = R[j]
  <2> DEFINE k == Len(seq) + n
  <2>1. k \in DOMAIN S /\ S[k] = R[i]
    BY <1>1, <1>2, <1>4
  <2>2. ASSUME NEW l \in (k + 1)..Len(S) PROVE \E j \in (i + 1)..Len(R) : R[j] = S[l]
    <3>1. l - Len(seq) \in 1..Len(more) /\ l = Len(seq) + (l - Len(seq))
      BY <1>2
    <3>2. Len(rows) + (l - Len(seq)) \in (i + 1)..Len(R)
      BY <1>1, <1>2, <1>4, <3>1
    <3> QED
      BY <1>1, <1>2, <3>1, <3>2
  <2>3. ASSUME NEW j \in (i + 1)..Len(R) PROVE \E l \in (k + 1)..Len(S) : S[l] = R[j]
    <3>1. j - Len(rows) \in 1..Len(more) /\ j = Len(rows) + (j - Len(rows))
      BY <1>1, <1>2, <1>4
    <3>2. Len(seq) + (j - Len(rows)) \in (k + 1)..Len(S)
      BY <1>1, <1>2, <1>4, <3>1, SMTT(30)
    <3> QED
      BY <1>1, <1>2, <3>1, <3>2
  <2> HIDE DEF k
  <2> QED
    BY <2>1, <2>2, <2>3
<1> QED
  BY <1>1, <1>3, <1>4

\* The rows of other turns do not matter.
LEMMA TailIgnoresOthers ==
  ASSUME NEW rows \in Seq(Items), NEW seq \in Seq(Items), NEW more \in Seq(Items),
         NEW t, \A n \in 1..Len(more) : more[n].turn # t, IsTail(rows, t, seq)
  PROVE  IsTail(rows \o more, t, seq)
<1> DEFINE R == rows \o more
<1>1. /\ R \in Seq(Items) /\ Len(R) = Len(rows) + Len(more) /\ DOMAIN R = 1..(Len(rows) + Len(more))
      /\ DOMAIN rows = 1..Len(rows) /\ Len(rows) \in Nat /\ Len(more) \in Nat
      /\ \A i \in 1..Len(rows) : R[i] = rows[i]
      /\ \A n \in 1..Len(more) : R[Len(rows) + n] = more[n]
      /\ \A i \in 1..(Len(rows) + Len(more)) :
           i \in 1..Len(rows) \/ \E n \in 1..Len(more) : i = Len(rows) + n
  BY Places
<1> HIDE DEF R
<1>2. \A i \in 1..(Len(rows) + Len(more)) : R[i].turn = t => i \in 1..Len(rows)
  <2> SUFFICES ASSUME NEW n \in 1..Len(more) PROVE R[Len(rows) + n].turn # t
    BY <1>1
  <2>1. R[Len(rows) + n] = more[n]
    BY <1>1
  <2> QED
    BY <2>1
<1> SUFFICES ASSUME NEW i \in DOMAIN R, R[i].turn = t
             PROVE  \E k \in DOMAIN seq :
                      /\ seq[k] = R[i]
                      /\ \A l \in (k + 1)..Len(seq) : \E j \in (i + 1)..Len(R) : R[j] = seq[l]
                      /\ \A j \in (i + 1)..Len(R) : R[j].turn = t =>
                           \E l \in (k + 1)..Len(seq) : seq[l] = R[j]
  BY DEF IsTail, R
<1>3. i \in 1..Len(rows)
  BY <1>1, <1>2
<1>4. PICK k \in DOMAIN seq :
        /\ seq[k] = rows[i]
        /\ \A l \in (k + 1)..Len(seq) : \E j \in (i + 1)..Len(rows) : rows[j] = seq[l]
        /\ \A j \in (i + 1)..Len(rows) : rows[j].turn = t =>
             \E l \in (k + 1)..Len(seq) : seq[l] = rows[j]
  BY <1>1, <1>3 DEF IsTail
<1>5. \A j \in (i + 1)..Len(rows) : j \in (i + 1)..Len(R) /\ R[j] = rows[j]
  BY <1>1, <1>3
<1>6. \A j \in (i + 1)..Len(R) : R[j].turn = t => j \in (i + 1)..Len(rows)
  BY <1>1, <1>2, <1>3
<1>7. \A l \in (k + 1)..Len(seq) : \E j \in (i + 1)..Len(R) : R[j] = seq[l]
  BY <1>4, <1>5
<1>8. \A j \in (i + 1)..Len(R) : R[j].turn = t => \E l \in (k + 1)..Len(seq) : seq[l] = R[j]
  BY <1>4, <1>5, <1>6
<1>9. seq[k] = R[i]
  BY <1>1, <1>3, <1>4
<1> QED
  BY <1>7, <1>8, <1>9

\* A call that is answered, or a row that is one, stays so when rows are added.
LEMMA OutputStays ==
  ASSUME NEW rows \in Seq(Items), NEW more \in Seq(Items), NEW i \in 1..Len(rows),
         HasOutput(rows, i)
  PROVE  HasOutput(rows \o more, i)
<1>1. /\ Len(rows \o more) = Len(rows) + Len(more) /\ Len(rows) \in Nat /\ Len(more) \in Nat
      /\ \A k \in 1..Len(rows) : (rows \o more)[k] = rows[k]
  BY Places
<1>2. PICK k \in (i + 1)..Len(rows) : rows[k] = [rows[i] EXCEPT !.type = "output"]
  BY DEF HasOutput
<1>3. k \in 1..Len(rows) /\ k \in (i + 1)..Len(rows \o more)
  BY <1>1, <1>2
<1> QED
  BY <1>1, <1>2, <1>3 DEF HasOutput

-----------------------------------------------------------------------------
(* The history.                                                            *)

SequencesTyping ==
  history \in Seq(Items) /\ replayed \in [Turns -> Seq(Items)] /\ own \in [Turns -> Seq(Items)]

Rowless(t) == \A i \in DOMAIN history : history[i].turn # t

(* A turn has rows only once its user item is stored, and until then its   *)
(* input holds nothing else of its own.                                    *)
StoredRows(t) ==
  /\ t \notin Replies \/ turn[t].pc = "new" \/ (Active(t) /\ ~turn[t].stored) => Rowless(t)
  /\ t \in Replies /\ Active(t) /\ ~turn[t].stored /\ turn[t].pc # "failed" =>
       turn[t].pc \in {"request", "storeUser"} /\ own[t] = <<Item("user", t, 0, 0)>>
  /\ Active(t) => IsTail(history, t, own[t])

HistoryInv == SequencesTyping /\ \A t \in Turns : StoredRows(t)

\* The items of a response are of its turn, and each call is one of its calls.
LEMMA ResponseOfTurn ==
  ASSUME NEW t \in Turns, turn[t] \in TurnStates
  PROVE  /\ ResponseItems(t) \in Seq(Items)
         /\ \A n \in 1..Len(ResponseItems(t)) :
              /\ ResponseItems(t)[n].turn = t
              /\ ResponseItems(t)[n].type = "call" =>
                   \E m \in 1..turn[t].calls :
                     ResponseItems(t)[n] = Item("call", t, turn[t].step, m)
<1> DEFINE s == turn[t].step
           text == IF turn[t].text THEN <<Item("text", t, s, 0)>> ELSE <<>>
           calls == [n \in 1..turn[t].calls |-> Item("call", t, s, n)]
<1>1. s \in 0..MaxSteps /\ turn[t].calls \in 0..2
  BY DEF TurnStates
<1>2. text \in Seq(Items) /\ \A n \in 1..Len(text) : text[n].turn = t /\ text[n].type = "text"
  <2>1. /\ Item("text", t, s, 0) \in Items /\ Item("text", t, s, 0).turn = t
        /\ Item("text", t, s, 0).type = "text"
    BY <1>1 DEF Item, Items
  <2>2. CASE turn[t].text
    <3>1. text = <<Item("text", t, s, 0)>>
      BY <2>2
    <3> HIDE DEF text
    <3> QED
      BY <2>1, <3>1
  <2>3. CASE ~turn[t].text
    <3>1. text = <<>>
      BY <2>3
    <3> HIDE DEF text
    <3> QED
      BY <3>1
  <2> QED
    BY <2>2, <2>3
<1>3. /\ calls \in Seq(Items) /\ Len(calls) = turn[t].calls
      /\ \A n \in 1..turn[t].calls : calls[n].turn = t /\ calls[n] = Item("call", t, s, n)
  <2>1. \A n \in 1..turn[t].calls :
          Item("call", t, s, n) \in Items /\ Item("call", t, s, n).turn = t
    BY <1>1 DEF Item, Items
  <2>2. /\ calls \in [1..turn[t].calls -> Items]
        /\ \A n \in 1..turn[t].calls : calls[n].turn = t /\ calls[n] = Item("call", t, s, n)
    BY <2>1
  <2> HIDE DEF calls
  <2>3. calls \in Seq(Items) /\ Len(calls) = turn[t].calls
    BY <1>1, <2>2
  <2> QED
    BY <2>2, <2>3
<1> HIDE DEF text, calls
<1>4. /\ text \o calls \in Seq(Items) /\ Len(text \o calls) = Len(text) + Len(calls)
      /\ \A i \in 1..Len(text) : (text \o calls)[i] = text[i]
      /\ \A n \in 1..Len(calls) : (text \o calls)[Len(text) + n] = calls[n]
      /\ \A i \in 1..(Len(text) + Len(calls)) :
           i \in 1..Len(text) \/ \E n \in 1..Len(calls) : i = Len(text) + n
  BY <1>2, <1>3, Places
<1>5. \A n \in 1..Len(text \o calls) :
        /\ (text \o calls)[n].turn = t
        /\ (text \o calls)[n].type = "call" =>
             \E m \in 1..turn[t].calls : (text \o calls)[n] = Item("call", t, s, m)
  BY <1>2, <1>3, <1>4, SMTT(30)
<1>6. ResponseItems(t) = text \o calls
  BY DEF ResponseItems, text, calls
<1> QED
  BY <1>4, <1>5, <1>6

\* What the rows of another turn are told by a step of t.
LEMMA OthersRows ==
  ASSUME HistoryInv, NEW t \in Turns, NEW u \in Turns, u # t,
         turn'[u] = turn[u], own'[u] = own[u],
         NEW more \in Seq(Items), \A n \in 1..Len(more) : more[n].turn = t,
         history' = history \/ history' = history \o more
  PROVE  StoredRows(u)'
<1>1. history \in Seq(Items) /\ own[u] \in Seq(Items) /\ StoredRows(u)
  BY DEF HistoryInv, SequencesTyping
<1>2. CASE history' = history
  BY <1>1, <1>2 DEF StoredRows, Active, Rowless
<1>3. CASE history' = history \o more
  <2>1. Rowless(u) => Rowless(u)'
    <3>1. /\ DOMAIN history = 1..Len(history) /\ DOMAIN history' = 1..(Len(history) + Len(more))
          /\ \A i \in 1..Len(history) : history'[i] = history[i]
          /\ \A n \in 1..Len(more) : history'[Len(history) + n] = more[n]
          /\ \A i \in 1..(Len(history) + Len(more)) :
               i \in 1..Len(history) \/ \E n \in 1..Len(more) : i = Len(history) + n
      BY <1>1, <1>3, Places, ZenonT(30)
    <3>2. \A n \in 1..Len(more) : history'[Len(history) + n].turn # u
      BY <3>1
    <3> QED
      BY <3>1, <3>2, SMTT(30) DEF Rowless
  <2>2. IsTail(history, u, own[u]) => IsTail(history', u, own[u])
    BY <1>1, <1>3, TailIgnoresOthers
  <2> QED
    BY <1>1, <2>1, <2>2 DEF StoredRows, Active
<1> QED
  BY <1>2, <1>3

\* A turn without rows has the last part of anything.
LEMMA RowlessTail == ASSUME NEW t, NEW seq, Rowless(t) PROVE IsTail(history, t, seq)
  BY DEF Rowless, IsTail

\* No turn has begun and nothing is stored.
LEMMA HistoryInit == Init => HistoryInv
<1> SUFFICES ASSUME Init PROVE HistoryInv
  OBVIOUS
<1>1. <<>> \in Seq(Items)
  BY EmptySeq
<1>2. SequencesTyping
  BY <1>1 DEF Init, SequencesTyping
<1>3. \A t \in Turns : StoredRows(t)
  BY DEF Init, StoredRows, Active, Rowless, NewTurn
<1> QED
  BY <1>2, <1>3 DEF HistoryInv

\* A step of a turn in progress that stores the same items as it adds to its input.
LEMMA StoresWhatItHolds ==
  ASSUME TurnTyping, HistoryInv, NEW t \in Turns, NEW more \in Seq(Items),
         \A n \in 1..Len(more) : more[n].turn = t,
         turn[t].pc \in {"storeItems", "storeOutput"}, Append_(t, more),
         own' = [own EXCEPT ![t] = @ \o more], replayed' = replayed,
         turn'[t].stored = turn[t].stored, turn'[t].pc # "new",
         \A u \in Turns : u # t => turn'[u] = turn[u]
  PROVE  HistoryInv'
<1>1. history \in Seq(Items) /\ own \in [Turns -> Seq(Items)] /\ StoredRows(t)
  BY DEF HistoryInv, SequencesTyping
<1>2. /\ own'[t] = own[t] \o more /\ own[t] \in Seq(Items)
      /\ \A u \in Turns : u # t => own'[u] = own[u]
      /\ Active(t)
  BY <1>1 DEF Active
<1>3. own[t] \o more \in Seq(Items) /\ history \o more \in Seq(Items)
  BY <1>1, <1>2, Places
<1>4. SequencesTyping'
  BY <1>1, <1>3 DEF HistoryInv, SequencesTyping, Append_
<1>5. \A u \in Turns : u # t => StoredRows(u)'
  BY <1>2, OthersRows DEF Append_
<1>6. CASE t \in Replies
  <2>1. turn[t].stored /\ IsTail(history, t, own[t])
    BY <1>1, <1>2, <1>6 DEF StoredRows
  <2>2. IsTail(history', t, own'[t])
    BY <1>1, <1>2, <1>6, <2>1, TailGrowsTogether DEF Append_, Persists
  <2>3. StoredRows(t)'
    BY <1>2, <1>6, <2>1, <2>2 DEF StoredRows, Active
  <2> QED
    BY <1>4, <1>5, <2>3 DEF HistoryInv
<1>7. CASE t \notin Replies
  <2>1. Rowless(t)
    BY <1>1, <1>7 DEF StoredRows
  <2>2. history' = history
    BY <1>7 DEF Append_, Persists
  <2>3. Rowless(t)' /\ IsTail(history', t, own'[t])
    BY <2>1, <2>2, RowlessTail DEF Rowless
  <2>4. StoredRows(t)'
    BY <1>7, <2>3 DEF StoredRows
  <2> QED
    BY <1>4, <1>5, <2>4 DEF HistoryInv
<1> QED
  BY <1>6, <1>7

\* A step of a turn in progress that stores nothing and adds nothing.
LEMMA StoresNothing ==
  ASSUME HistoryInv, NEW t \in Turns, UNCHANGED <<history, replayed, own>>,
         Active(t), turn'[t].stored = turn[t].stored, turn'[t].pc # "new",
         \/ /\ turn[t].pc \in {"request", "storeUser"}
            /\ turn'[t].pc \in {"request", "storeUser", "failed"}
         \/ turn[t].pc \notin {"request", "storeUser", "failed"} \/ turn'[t].pc = "failed",
         \A u \in Turns : u # t => turn'[u] = turn[u]
  PROVE  HistoryInv'
<1>1. SequencesTyping'
  BY DEF HistoryInv, SequencesTyping
<1>2. \A u \in Turns : StoredRows(u)
  BY DEF HistoryInv
<1>3. \A u \in Turns : u # t => StoredRows(u)'
  BY <1>2 DEF StoredRows, Rowless, Active
<1>4. StoredRows(t)'
  BY <1>2 DEF StoredRows, Rowless, Active
<1> QED
  BY <1>1, <1>3, <1>4 DEF HistoryInv

\* Every step keeps the history's types and each turn's rows.
LEMMA HistoryNext == BlankInv /\ HistoryInv /\ [Next]_vars => HistoryInv'
<1> SUFFICES ASSUME BlankInv, HistoryInv, [Next]_vars PROVE HistoryInv'
  OBVIOUS
<1>1. /\ history \in Seq(Items) /\ own \in [Turns -> Seq(Items)]
      /\ replayed \in [Turns -> Seq(Items)] /\ <<>> \in Seq(Items)
  BY EmptySeq DEF HistoryInv, SequencesTyping
<1>2. TurnTyping /\ turn \in [Turns -> TurnStates]
  BY DEF BlankInv, TurnTyping
<1>3. \A t \in Turns : StoredRows(t)
  BY DEF HistoryInv
<1>4. ASSUME NEW t \in Turns, NEW r, To(t, r)
      PROVE  turn'[t] = r /\ \A u \in Turns : u # t => turn'[u] = turn[u]
  BY <1>2, <1>4 DEF To
<1>5. ASSUME NEW t \in Turns, Prepare(t) PROVE HistoryInv'
  <2> DEFINE item == Item("user", t, 0, 0)
  <2>1. item \in Items
    BY StepsAssumption DEF Item, Items
  <2> HIDE DEF item
  <2>2. <<item>> \in Seq(Items)
    BY <2>1
  <2>3. /\ turn[t].pc = "new" /\ history' = history /\ turn'[t].pc = "request"
        /\ own' = [own EXCEPT ![t] = <<item>>]
        /\ replayed' = [replayed EXCEPT ![t] = IF Persists(t) THEN history ELSE <<>>]
        /\ \A u \in Turns : u # t => turn'[u] = turn[u]
    BY <1>2, <1>4, <1>5 DEF Prepare, TurnStates, item
  <2>4. own'[t] = <<item>> /\ \A u \in Turns : u # t => own'[u] = own[u]
    BY <1>1, <2>3
  <2>5. SequencesTyping'
    BY <1>1, <2>2, <2>3 DEF SequencesTyping
  <2>6. Rowless(t)'
    BY <1>3, <2>3 DEF StoredRows, Rowless
  <2>7. StoredRows(t)'
    BY <2>3, <2>4, <2>6, RowlessTail DEF StoredRows, Rowless, IsTail, item
  <2>8. \A u \in Turns : u # t => StoredRows(u)'
    BY <1>3, <2>3, <2>4 DEF StoredRows, Rowless, Active
  <2> QED
    BY <2>5, <2>7, <2>8 DEF HistoryInv
<1>6. ASSUME NEW t \in Turns, NEW text \in BOOLEAN, NEW calls \in 0..2,
             NEW tool \in Tools \cup {NoTool}, Respond(t, text, calls, tool)
      PROVE  HistoryInv'
  <2>1. /\ turn[t].pc = "request" /\ UNCHANGED <<history, replayed, own>>
        /\ To(t, [turn[t] EXCEPT !.pc = "storeUser", !.text = text, !.calls = calls,
                                 !.tool = tool])
    BY <1>6 DEF Respond
  <2>2. /\ turn'[t] = [turn[t] EXCEPT !.pc = "storeUser", !.text = text, !.calls = calls,
                                      !.tool = tool]
        /\ \A u \in Turns : u # t => turn'[u] = turn[u]
    BY <1>4, <2>1
  <2>3. turn'[t].pc = "storeUser" /\ turn'[t].stored = turn[t].stored
    BY <1>2, <2>2 DEF TurnStates
  <2> QED
    BY <2>1, <2>2, <2>3, StoresNothing DEF Active
<1>7. ASSUME NEW t \in Turns, StoreUser(t) PROVE HistoryInv'
  <2> DEFINE item == Item("user", t, 0, 0)
  <2>1. item \in Items /\ item.turn = t
    BY StepsAssumption DEF Item, Items
  <2>2. own[t] = <<Item("user", t, 0, 0)>> => own[t] = <<item>>
    OBVIOUS
  <2>3. /\ turn[t].pc = "storeUser" /\ turn'[t].pc = "storeItems"
        /\ turn'[t].stored = Persists(t)
        /\ \A u \in Turns : u # t => turn'[u] = turn[u]
        /\ UNCHANGED <<replayed, own>>
    <3>1. /\ turn[t].pc = "storeUser" /\ UNCHANGED <<replayed, own>>
          /\ To(t, [turn[t] EXCEPT !.pc = "storeItems", !.stored = Persists(t)])
      BY <1>7 DEF StoreUser
    <3>2. /\ turn'[t] = [turn[t] EXCEPT !.pc = "storeItems", !.stored = Persists(t)]
          /\ \A u \in Turns : u # t => turn'[u] = turn[u]
      BY <1>4, <3>1
    <3> QED
      BY <1>2, <3>1, <3>2 DEF TurnStates
  <2>4. CASE turn[t].stored \/ ~Persists(t)
    <3>1. history' = history
      BY <1>7, <2>4 DEF StoreUser
    <3>2. SequencesTyping'
      BY <1>1, <2>3, <3>1 DEF SequencesTyping
    <3>3. \A u \in Turns : StoredRows(u)'
      BY <1>3, <2>3, <2>4, <3>1 DEF StoredRows, Rowless, Active, Persists
    <3> QED
      BY <3>2, <3>3 DEF HistoryInv
  <2>5. CASE ~turn[t].stored /\ Persists(t)
    <3>1. history' = history \o <<item>>
      BY <1>7, <2>5 DEF StoreUser, Append_
    <3> HIDE DEF item
    <3>2. <<item>> \in Seq(Items) /\ \A n \in 1..Len(<<item>>) : <<item>>[n].turn = t
      BY <2>1
    <3>3. Rowless(t) /\ own[t] = <<item>>
      BY <1>3, <2>2, <2>3, <2>5 DEF StoredRows, Active, Persists
    <3>4. IsTail(history \o <<item>>, t, <<>> \o <<item>>)
      BY <1>1, <3>2, <3>3, RowlessTail, TailGrowsTogether
    <3>5. <<>> \o <<item>> = <<item>>
      BY <3>2, ConcatEmptySeq
    <3>6. IsTail(history', t, own'[t])
      BY <2>3, <3>1, <3>3, <3>4, <3>5
    <3>7. StoredRows(t)'
      BY <2>3, <2>5, <3>6 DEF StoredRows, Active, Persists
    <3>8. \A u \in Turns : u # t => StoredRows(u)'
      BY <2>3, <3>1, <3>2, OthersRows
    <3>9. history \o <<item>> \in Seq(Items)
      BY <1>1, <3>2, Places
    <3>10. SequencesTyping'
      BY <1>1, <2>3, <3>1, <3>9 DEF SequencesTyping
    <3> QED
      BY <3>7, <3>8, <3>10 DEF HistoryInv
  <2> QED
    BY <2>4, <2>5
<1>8. ASSUME NEW t \in Turns, StoreItems(t) PROVE HistoryInv'
  <2> DEFINE more == ResponseItems(t)
  <2>1. more \in Seq(Items) /\ \A n \in 1..Len(more) : more[n].turn = t
    BY <1>2, ResponseOfTurn
  <2>2. /\ turn[t].pc = "storeItems" /\ Append_(t, more) /\ replayed' = replayed
        /\ own' = [own EXCEPT ![t] = @ \o more]
    BY <1>8 DEF StoreItems
  <2>3. /\ turn'[t].stored = turn[t].stored /\ turn'[t].pc # "new"
        /\ \A u \in Turns : u # t => turn'[u] = turn[u]
    <3> DEFINE used == [turn[t] EXCEPT !.text = FALSE, !.calls = 0]
    <3>1. used \in TurnStates /\ used.stored = turn[t].stored
      <4>1. /\ turn[t] \in TurnStates /\ turn[t].pc \in Pcs
            /\ FALSE \in BOOLEAN /\ 0 \in 0..2
        BY <1>2 DEF TurnStates
      <4>2. used \in TurnStates
        BY <4>1, ResponseWrites
      <4>3. used.stored = turn[t].stored
        BY <4>1 DEF TurnStates
      <4> QED
        BY <4>2, <4>3
    <3>2. PICK p \in {"failed", "deliver", "notify"} :
            \/ To(t, [used EXCEPT !.pc = p])
            \/ \E q : To(t, [used EXCEPT !.pc = p, !.result = q])
      BY <1>8 DEF StoreItems
    <3> HIDE DEF used
    <3>3. /\ \/ turn'[t] = [used EXCEPT !.pc = p]
             \/ \E q : turn'[t] = [used EXCEPT !.pc = p, !.result = q]
          /\ \A u \in Turns : u # t => turn'[u] = turn[u]
      BY <1>4, <3>2
    <3> QED
      BY <3>1, <3>3 DEF TurnStates
  <2> HIDE DEF more
  <2> QED
    BY <1>2, <2>1, <2>2, <2>3, StoresWhatItHolds
<1>9. ASSUME NEW t \in Turns, StoreOutput(t) PROVE HistoryInv'
  <2> DEFINE item == Item("output", t, turn[t].step, 1)
             more == <<item>>
  <2>1. item \in Items /\ item.turn = t
    BY <1>2 DEF Item, Items, TurnStates
  <2>2. /\ turn[t].pc = "storeOutput" /\ Append_(t, more) /\ replayed' = replayed
        /\ own' = [own EXCEPT ![t] = @ \o more]
    BY <1>9 DEF StoreOutput
  <2>3. /\ turn'[t].stored = turn[t].stored /\ turn'[t].pc # "new"
        /\ \A u \in Turns : u # t => turn'[u] = turn[u]
    <3>1. PICK n, q : \/ To(t, [turn[t] EXCEPT !.pc = "request", !.step = n])
                      \/ To(t, [turn[t] EXCEPT !.pc = "deliver", !.step = n, !.result = q])
      BY <1>9 DEF StoreOutput
    <3>2. /\ \/ turn'[t] = [turn[t] EXCEPT !.pc = "request", !.step = n]
             \/ turn'[t] = [turn[t] EXCEPT !.pc = "deliver", !.step = n, !.result = q]
          /\ \A u \in Turns : u # t => turn'[u] = turn[u]
      BY <1>4, <3>1
    <3> QED
      BY <1>2, <3>2 DEF TurnStates
  <2> HIDE DEF item
  <2>4. more \in Seq(Items) /\ \A n \in 1..Len(more) : more[n].turn = t
    BY <2>1
  <2> HIDE DEF more
  <2> QED
    BY <1>2, <2>2, <2>3, <2>4, StoresWhatItHolds
<1>10. ASSUME NEW t \in Turns,
              Notify(t) \/ Fail(t) \/ \E fails \in BOOLEAN : RunTool(t, fails)
       PROVE  HistoryInv'
  <2>1. Active(t) /\ UNCHANGED <<history, replayed, own>>
    BY <1>10 DEF Notify, RunTool, Fail, Active
  <2>2. PICK r :
          /\ To(t, r) /\ r.stored = turn[t].stored /\ r.pc # "new"
          /\ turn[t].pc \notin {"request", "storeUser", "failed"} \/ r.pc = "failed"
    <3>1. turn[t] \in TurnStates
      BY <1>2
    <3>2. CASE Notify(t)
      BY <3>1, <3>2 DEF Notify, TurnStates
    <3>3. CASE \E fails \in BOOLEAN : RunTool(t, fails)
      BY <3>1, <3>3 DEF RunTool, TurnStates
    <3>4. CASE Fail(t)
      <4> DEFINE r == [turn[t] EXCEPT !.pc = "failed", !.text = FALSE, !.calls = 0,
                                      !.tool = NoTool, !.result = "none"]
      <4>1. r.pc = "failed" /\ r.stored = turn[t].stored
        BY <3>1 DEF TurnStates
      <4>2. To(t, r)
        BY <3>4 DEF Fail
      <4> QED
        BY <4>1, <4>2
    <3> QED
      BY <1>10, <3>2, <3>3, <3>4
  <2>3. turn'[t] = r /\ \A u \in Turns : u # t => turn'[u] = turn[u]
    BY <1>4, <2>2
  <2> QED
    BY <2>1, <2>2, <2>3, StoresNothing
<1>11. ASSUME NEW t \in Turns, Deliver(t) \/ Report(t) PROVE HistoryInv'
  <2>1. PICK shown : End(t, shown)
    BY <1>11 DEF Deliver, Report
  <2>2. /\ turn'[t].pc = "done" /\ history' = history
        /\ replayed' = [replayed EXCEPT ![t] = <<>>] /\ own' = [own EXCEPT ![t] = <<>>]
        /\ \A u \in Turns : u # t => turn'[u] = turn[u]
    <3>1. /\ To(t, [NewTurn EXCEPT !.pc = "done", !.seen = shown])
          /\ replayed' = [replayed EXCEPT ![t] = <<>>] /\ own' = [own EXCEPT ![t] = <<>>]
      BY <2>1 DEF End
    <3>2. /\ turn'[t] = [NewTurn EXCEPT !.pc = "done", !.seen = shown]
          /\ \A u \in Turns : u # t => turn'[u] = turn[u]
      BY <1>4, <3>1
    <3>3. history' = history
      BY <1>11 DEF Deliver, Report
    <3> QED
      BY <3>1, <3>2, <3>3 DEF NewTurn
  <2>3. SequencesTyping'
    BY <1>1, <2>2 DEF SequencesTyping
  <2>4. \A u \in Turns : StoredRows(u)'
    BY <1>3, <1>11, <2>2 DEF StoredRows, Rowless, Active, Deliver, Report
  <2> QED
    BY <2>3, <2>4 DEF HistoryInv
<1>12. CASE Clear
  <2>1. history' = <<>> /\ UNCHANGED <<replayed, own, turn>>
    BY <1>12 DEF Clear
  <2>2. SequencesTyping'
    BY <1>1, <2>1 DEF SequencesTyping
  <2>3. \A t \in Turns : Rowless(t)' /\ IsTail(history', t, own'[t])
    BY <2>1 DEF Rowless, IsTail
  <2>4. \A t \in Turns : StoredRows(t)'
    BY <1>3, <2>1, <2>3 DEF StoredRows, Active
  <2> QED
    BY <2>2, <2>4 DEF HistoryInv
<1>13. CASE Die
  <2>1. /\ history' = history /\ own' = [t \in Turns |-> <<>>] /\ replayed' = [t \in Turns |-> <<>>]
        /\ \A t \in Turns : turn'[t].pc = "done" \/ (turn'[t] = turn[t] /\ ~Active(t))
    BY <1>2, <1>13 DEF Die, NewTurn
  <2>2. SequencesTyping'
    BY <1>1, <2>1 DEF SequencesTyping
  <2>3. \A t \in Turns : StoredRows(t)'
    BY <1>3, <2>1 DEF StoredRows, Rowless, Active
  <2> QED
    BY <2>2, <2>3 DEF HistoryInv
<1>14. CASE UNCHANGED vars
  BY <1>14 DEF vars, HistoryInv, SequencesTyping, StoredRows, Rowless, Active
<1>15. ASSUME NEW t \in Turns, TurnNext(t) PROVE HistoryInv'
  BY <1>5, <1>6, <1>7, <1>8, <1>9, <1>10, <1>11, <1>15 DEF TurnNext
<1> QED
  BY <1>12, <1>13, <1>14, <1>15 DEF Next

\* The model's variables always have their types, for any number of turns in
\* progress and any history.
THEOREM Typing == Spec => []TypeOK
<1>1. BlankInv /\ HistoryInv => TypeOK
  BY DEF BlankInv, TurnTyping, HistoryInv, SequencesTyping, TypeOK
<1> QED
  BY <1>1, BlankInit, BlankNext, HistoryInit, HistoryNext, PTL DEF Spec

\* What is stored of a turn is the last part of what its requests held, however
\* turns interleave and whatever is cleared or fails: the user's item is stored
\* once, before anything else of its turn, and every later item as it is added.
THEOREM StoredInOrder == Spec => []StoredIsSuffix
<1>1. HistoryInv => StoredIsSuffix
  BY DEF HistoryInv, StoredRows, StoredIsSuffix
<1> QED
  BY <1>1, BlankInit, BlankNext, HistoryInit, HistoryNext, PTL DEF Spec

-----------------------------------------------------------------------------
(* Calls and their outputs.                                                *)

(* The call a reply is still to answer.                                    *)
OpenCall(t, i) ==
  turn[t].pc \in {"notify", "tool", "storeOutput"} /\ history[i] = Item("call", t, turn[t].step, 1)

Covered(t) ==
  \A i \in DOMAIN history : history[i].turn = t /\ history[i].type = "call" =>
    HasOutput(history, i) \/ OpenCall(t, i)

(* A reply is shown a final text only from "deliver", where no call is open. *)
CallsCovered(t) ==
  /\ turn[t].pc # "done" => turn[t].seen \in {"nothing", "status"}
  /\ turn[t].pc # "failed" /\ (turn[t].pc = "done" => turn[t].seen \in {"model", "default"}) =>
       Covered(t)

AnswerInv == \A t \in Replies : CallsCovered(t)

\* Rows added after a call leave it answered, or answer it.
LEMMA CoveredGrows ==
  ASSUME NEW t \in Replies, history \in Seq(Items), NEW more \in Seq(Items),
         history' = history \o more, Covered(t),
         \A i \in DOMAIN history : OpenCall(t, i) =>
           \/ turn'[t] = turn[t]
           \/ \E n \in 1..Len(more) : more[n] = [history[i] EXCEPT !.type = "output"],
         \A n \in 1..Len(more) : more[n].turn = t /\ more[n].type = "call" =>
           /\ turn'[t].pc \in {"notify", "tool", "storeOutput"}
           /\ more[n] = Item("call", t, turn'[t].step, 1)
  PROVE  Covered(t)'
<1>1. /\ DOMAIN history = 1..Len(history) /\ DOMAIN history' = 1..(Len(history) + Len(more))
      /\ Len(history) \in Nat /\ Len(more) \in Nat /\ Len(history') = Len(history) + Len(more)
      /\ \A i \in 1..Len(history) : history'[i] = history[i]
      /\ \A n \in 1..Len(more) : history'[Len(history) + n] = more[n]
      /\ \A i \in 1..(Len(history) + Len(more)) :
           i \in 1..Len(history) \/ \E n \in 1..Len(more) : i = Len(history) + n
  BY Places
<1> SUFFICES ASSUME NEW i \in DOMAIN history', history'[i].turn = t, history'[i].type = "call"
             PROVE  HasOutput(history', i) \/ OpenCall(t, i)'
  BY DEF Covered
<1>2. ASSUME NEW n \in 1..Len(more), i = Len(history) + n PROVE OpenCall(t, i)'
  BY <1>1, <1>2 DEF OpenCall
<1>3. CASE i \in 1..Len(history)
  <2>1. history'[i] = history[i] /\ (HasOutput(history, i) \/ OpenCall(t, i))
    BY <1>1, <1>3 DEF Covered
  <2>2. HasOutput(history, i) => HasOutput(history', i)
    BY <1>3, OutputStays
  <2>3. OpenCall(t, i) /\ turn'[t] = turn[t] => OpenCall(t, i)'
    BY <2>1 DEF OpenCall
  <2>4. ASSUME NEW n \in 1..Len(more), more[n] = [history[i] EXCEPT !.type = "output"]
        PROVE  HasOutput(history', i)
    <3>1. Len(history) + n \in (i + 1)..Len(history')
      BY <1>1, <1>3
    <3>2. history'[Len(history) + n] = more[n]
      BY <1>1
    <3>3. history'[Len(history) + n] = [history'[i] EXCEPT !.type = "output"]
      BY <2>1, <2>4, <3>2
    <3> QED
      BY <3>1, <3>3 DEF HasOutput
  <2> QED
    BY <1>1, <1>3, <2>1, <2>2, <2>3, <2>4
<1> QED
  BY <1>1, <1>2, <1>3

\* A step that leaves the history alone.
LEMMA CoveredStays ==
  ASSUME NEW t \in Replies, history' = history, CallsCovered(t),
         turn'[t].pc # "done" => turn'[t].seen \in {"nothing", "status"},
         turn'[t].pc = "done" /\ turn'[t].seen \in {"model", "default"} =>
           turn[t].pc = "deliver",
         turn'[t].pc \notin {"failed", "done"} =>
           /\ turn[t].pc \notin {"failed", "done"}
           /\ turn[t].pc \in {"notify", "tool", "storeOutput"} =>
                turn'[t].pc \in {"notify", "tool", "storeOutput"} /\ turn'[t].step = turn[t].step
  PROVE  CallsCovered(t)'
<1>1. ASSUME turn'[t].pc # "failed", turn'[t].pc = "done" => turn'[t].seen \in {"model", "default"}
      PROVE  Covered(t)'
  <2>1. Covered(t)
    BY <1>1 DEF CallsCovered
  <2> QED
    BY <1>1, <2>1 DEF Covered, OpenCall
<1> QED
  BY <1>1 DEF CallsCovered

\* Every step leaves the calls of every reply answered or about to be.
LEMMA AnswerNext == BlankInv /\ HistoryInv /\ AnswerInv /\ [Next]_vars => AnswerInv'
<1> SUFFICES ASSUME BlankInv, HistoryInv, AnswerInv, [Next]_vars, NEW t \in Replies
             PROVE  CallsCovered(t)'
  BY DEF AnswerInv
<1>1. history \in Seq(Items) /\ t \in Turns
  BY DEF HistoryInv, SequencesTyping, Turns
<1>2. turn \in [Turns -> TurnStates] /\ turn[t] \in TurnStates
  BY <1>1 DEF BlankInv, TurnTyping
<1>3. CallsCovered(t)
  BY DEF AnswerInv
<1>4. ASSUME NEW u \in Turns, NEW r, To(u, r)
      PROVE  turn'[u] = r /\ \A v \in Turns : v # u => turn'[v] = turn[v]
  BY <1>2, <1>4 DEF To
<1>5. ASSUME NEW u \in Turns, NEW item \in Items, item.turn = u
      PROVE  <<item>> \in Seq(Items) /\ \A n \in 1..Len(<<item>>) : <<item>>[n].turn = u
  BY <1>5
\* Another turn adds no row of t and does not touch its state.
<1>6. ASSUME turn'[t] = turn[t], history' = history PROVE CallsCovered(t)'
  BY <1>3, <1>6 DEF CallsCovered, Covered, OpenCall
<1>7. ASSUME NEW u \in Turns, u # t, turn'[t] = turn[t], NEW more \in Seq(Items), Append_(u, more),
             \A n \in 1..Len(more) : more[n].turn = u
      PROVE  CallsCovered(t)'
  <2>1. CASE history' = history
    BY <1>6, <1>7, <2>1
  <2>2. CASE history' = history \o more
    <3>1. Covered(t) => Covered(t)'
      BY <1>1, <1>7, <2>2, CoveredGrows
    <3> QED
      BY <1>3, <1>7, <3>1 DEF CallsCovered
  <2> QED
    BY <1>7, <2>1, <2>2 DEF Append_
<1>8. ASSUME NEW u \in Turns, TurnNext(u), u # t PROVE CallsCovered(t)'
  <2>1. turn'[t] = turn[t]
    <3>1. \E r : To(u, r)
      BY <1>8 DEF TurnNext, Prepare, Respond, StoreUser, StoreItems, Notify, RunTool, StoreOutput,
           Deliver, Fail, Report, End
    <3> QED
      BY <1>1, <1>4, <1>8, <3>1
  <2>2. CASE StoreUser(u)
    <3>1. Item("user", u, 0, 0) \in Items /\ Item("user", u, 0, 0).turn = u
      BY StepsAssumption DEF Item, Items
    <3>2. history' = history \/ Append_(u, <<Item("user", u, 0, 0)>>)
      BY <2>2 DEF StoreUser
    <3> QED
      BY <1>6, <1>7, <1>8, <1>5, <2>1, <3>1, <3>2
  <2>3. CASE StoreItems(u)
    <3>1. Append_(u, ResponseItems(u)) /\ turn[u] \in TurnStates
      BY <1>2, <2>3 DEF StoreItems
    <3> QED
      BY <1>7, <1>8, <2>1, <3>1, ResponseOfTurn
  <2>4. CASE StoreOutput(u)
    <3>1. /\ Item("output", u, turn[u].step, 1) \in Items
          /\ Item("output", u, turn[u].step, 1).turn = u
      BY <1>2 DEF Item, Items, TurnStates
    <3>2. Append_(u, <<Item("output", u, turn[u].step, 1)>>)
      BY <2>4 DEF StoreOutput
    <3> QED
      BY <1>7, <1>8, <1>5, <2>1, <3>1, <3>2
  <2>5. CASE history' = history
    BY <1>6, <2>1, <2>5
  <2> QED
    BY <1>8, <2>2, <2>3, <2>4, <2>5 DEF TurnNext, Prepare, Respond, Notify, RunTool,
                                     Deliver, Fail, Report
<1>9. CASE Prepare(t)
  <2>1. /\ turn[t].pc = "new" /\ history' = history
        /\ To(t, [turn[t] EXCEPT !.pc = "request"])
    BY <1>9 DEF Prepare
  <2>2. turn'[t] = [turn[t] EXCEPT !.pc = "request"]
    BY <1>1, <1>4, <2>1
  <2>3. turn'[t].pc = "request" /\ turn'[t].seen = turn[t].seen
    BY <1>2, <2>2 DEF TurnStates
  <2> QED
    BY <1>3, <2>1, <2>3, CoveredStays DEF CallsCovered
<1>10. ASSUME NEW text \in BOOLEAN, NEW calls \in 0..2, NEW tool \in Tools \cup {NoTool},
             Respond(t, text, calls, tool)
      PROVE  CallsCovered(t)'
  <2> DEFINE r == [turn[t] EXCEPT !.pc = "storeUser", !.text = text, !.calls = calls, !.tool = tool]
  <2>1. turn[t].pc = "request" /\ history' = history /\ To(t, r)
    BY <1>10 DEF Respond
  <2>2. r.pc = "storeUser" /\ r.seen = turn[t].seen
    BY <1>2 DEF TurnStates
  <2>3. turn'[t] = r
    BY <1>1, <1>4, <2>1
  <2> HIDE DEF r
  <2> QED
    BY <1>3, <2>1, <2>2, <2>3, CoveredStays DEF CallsCovered
<1>11. CASE StoreUser(t)
  <2> DEFINE item == Item("user", t, 0, 0)
             r == [turn[t] EXCEPT !.pc = "storeItems", !.stored = Persists(t)]
  <2>1. item \in Items /\ item.turn = t /\ item.type = "user"
    BY <1>1, StepsAssumption DEF Item, Items
  <2>2. /\ turn[t].pc = "storeUser" /\ To(t, r)
        /\ history' = history \/ history' = history \o <<item>>
    BY <1>11 DEF StoreUser, Append_, Persists
  <2>3. r.pc = "storeItems" /\ r.seen = turn[t].seen
    BY <1>2 DEF TurnStates
  <2>4. turn'[t] = r
    BY <1>1, <1>4, <2>2
  <2> HIDE DEF item, r
  <2>5. Covered(t)
    BY <1>3, <2>2 DEF CallsCovered
  <2>6. <<item>> \in Seq(Items) /\ \A n \in 1..Len(<<item>>) : <<item>>[n].type = "user"
    BY <2>1
  <2>7. ASSUME history' = history \o <<item>> PROVE Covered(t)'
    <3>1. \A i \in DOMAIN history : ~OpenCall(t, i)
      BY <2>2 DEF OpenCall
    <3> QED
      BY <1>1, <2>5, <2>6, <2>7, <3>1, CoveredGrows
  <2>8. ASSUME history' = history PROVE CallsCovered(t)'
    BY <1>3, <2>2, <2>3, <2>4, <2>8, CoveredStays DEF CallsCovered
  <2>9. turn'[t].pc = "storeItems" /\ turn'[t].seen \in {"nothing", "status"}
    BY <1>3, <2>2, <2>3, <2>4 DEF CallsCovered
  <2> QED
    BY <2>2, <2>7, <2>8, <2>9 DEF CallsCovered
<1>12. CASE StoreItems(t)
  <2> DEFINE more == ResponseItems(t)
             used == [turn[t] EXCEPT !.text = FALSE, !.calls = 0]
  <2>1. turn[t].pc = "storeItems" /\ turn[t].calls \in 0..2 /\ history' = history \o more
    BY <1>2, <1>12 DEF StoreItems, Append_, Persists, TurnStates
  <2>2. /\ more \in Seq(Items)
        /\ \A n \in 1..Len(more) : more[n].type = "call" =>
             \E m \in 1..turn[t].calls : more[n] = Item("call", t, turn[t].step, m)
    BY <1>1, <1>2, ResponseOfTurn
  <2>3. used \in TurnStates /\ used.seen = turn[t].seen /\ used.step = turn[t].step
    <3>1. turn[t].pc \in Pcs /\ FALSE \in BOOLEAN /\ 0 \in 0..2
      BY <1>2 DEF TurnStates
    <3>2. used \in TurnStates
      BY <1>2, <3>1, ResponseWrites
    <3>3. used.seen = turn[t].seen /\ used.step = turn[t].step
      BY <1>2 DEF TurnStates
    <3> QED
      BY <3>2, <3>3
  <2>4. \/ turn[t].calls = 2 /\ To(t, [used EXCEPT !.pc = "failed"])
        \/ turn[t].calls = 0 /\ \E q : To(t, [used EXCEPT !.pc = "deliver", !.result = q])
        \/ turn[t].calls = 1 /\ To(t, [used EXCEPT !.pc = "notify"])
    BY <1>12 DEF StoreItems
  <2> HIDE DEF more, used
  <2>5. \/ turn[t].calls = 2 /\ turn'[t] = [used EXCEPT !.pc = "failed"]
        \/ turn[t].calls = 0 /\ \E q : turn'[t] = [used EXCEPT !.pc = "deliver", !.result = q]
        \/ turn[t].calls = 1 /\ turn'[t] = [used EXCEPT !.pc = "notify"]
    BY <1>1, <1>4, <2>4
  <2>6. /\ turn'[t].seen = turn[t].seen /\ turn'[t].step = turn[t].step
        /\ \/ turn'[t].pc = "failed"
           \/ turn[t].calls = 0
           \/ turn[t].calls = 1 /\ turn'[t].pc = "notify"
        /\ turn'[t].pc # "done"
    BY <2>3, <2>5 DEF TurnStates
  <2>7. Covered(t)
    BY <1>3, <2>1 DEF CallsCovered
  <2>8. ASSUME turn'[t].pc # "failed" PROVE Covered(t)'
    <3>1. \A i \in DOMAIN history : ~OpenCall(t, i)
      BY <2>1 DEF OpenCall
    <3>2. ASSUME NEW n \in 1..Len(more), more[n].type = "call"
          PROVE  turn'[t].pc = "notify" /\ more[n] = Item("call", t, turn'[t].step, 1)
      <4>1. PICK m \in 1..turn[t].calls : more[n] = Item("call", t, turn[t].step, m)
        BY <2>2, <3>2
      <4>2. turn[t].calls = 1 /\ m = 1
        BY <2>1, <2>6, <2>8, <4>1
      <4> QED
        BY <2>6, <2>8, <4>1, <4>2
    <3> QED
      BY <1>1, <2>1, <2>2, <2>7, <3>1, <3>2, CoveredGrows
  <2> QED
    BY <1>3, <2>1, <2>6, <2>8 DEF CallsCovered
<1>13. CASE Notify(t)
  <2> DEFINE r == [turn[t] EXCEPT !.pc = "tool", !.used = TRUE, !.seen = "status"]
  <2>1. turn[t].pc = "notify" /\ history' = history /\ To(t, r)
    BY <1>13 DEF Notify, Persists
  <2>2. r.pc = "tool" /\ r.seen = "status" /\ r.step = turn[t].step
    BY <1>2 DEF TurnStates
  <2>3. turn'[t] = r
    BY <1>1, <1>4, <2>1
  <2> HIDE DEF r
  <2> QED
    BY <1>3, <2>1, <2>2, <2>3, CoveredStays
<1>14. CASE \E fails \in BOOLEAN : RunTool(t, fails)
  <2>1. PICK p \in {"failed", "storeOutput"} :
          /\ turn[t].pc = "tool" /\ history' = history
          /\ To(t, [turn[t] EXCEPT !.pc = p, !.tool = NoTool])
    BY <1>14 DEF RunTool
  <2>2. turn'[t] = [turn[t] EXCEPT !.pc = p, !.tool = NoTool]
    BY <1>1, <1>4, <2>1
  <2>3. turn'[t].pc = p /\ turn'[t].seen = turn[t].seen /\ turn'[t].step = turn[t].step
    BY <1>2, <2>2 DEF TurnStates
  <2> QED
    BY <1>3, <2>1, <2>3, CoveredStays DEF CallsCovered
<1>15. CASE StoreOutput(t)
  <2> DEFINE item == Item("output", t, turn[t].step, 1)
  <2>1. item \in Items /\ item.type = "output"
    BY <1>1, <1>2 DEF Item, Items, TurnStates
  <2>2. turn[t].pc = "storeOutput" /\ history' = history \o <<item>>
    BY <1>15 DEF StoreOutput, Append_, Persists
  <2>3. PICK n, q : \/ To(t, [turn[t] EXCEPT !.pc = "request", !.step = n])
                    \/ To(t, [turn[t] EXCEPT !.pc = "deliver", !.step = n, !.result = q])
    BY <1>15 DEF StoreOutput
  <2>4. \/ turn'[t] = [turn[t] EXCEPT !.pc = "request", !.step = n]
        \/ turn'[t] = [turn[t] EXCEPT !.pc = "deliver", !.step = n, !.result = q]
    BY <1>1, <1>4, <2>3
  <2>5. turn'[t].pc \in {"request", "deliver"} /\ turn'[t].seen = turn[t].seen
    BY <1>2, <2>4 DEF TurnStates
  <2>6. Covered(t)
    BY <1>3, <2>2 DEF CallsCovered
  <2>7. \A i \in DOMAIN history : OpenCall(t, i) => item = [history[i] EXCEPT !.type = "output"]
    BY DEF OpenCall, Item
  <2> HIDE DEF item
  <2>8. /\ <<item>> \in Seq(Items) /\ Len(<<item>>) = 1
        /\ \A k \in 1..Len(<<item>>) : <<item>>[k].type = "output"
        /\ 1 \in 1..Len(<<item>>) /\ <<item>>[1] = item
    BY <2>1
  <2>9. Covered(t)'
    BY <1>1, <2>2, <2>6, <2>7, <2>8, CoveredGrows
  <2> QED
    BY <1>3, <2>2, <2>5, <2>9 DEF CallsCovered
<1>16. ASSUME NEW shown, End(t, shown), history' = history,
              shown \in {"model", "default"} => turn[t].pc = "deliver"
       PROVE  CallsCovered(t)'
  <2>1. turn'[t].pc = "done" /\ turn'[t].seen = shown
    <3>1. To(t, [NewTurn EXCEPT !.pc = "done", !.seen = shown])
      BY <1>16 DEF End
    <3>2. turn'[t] = [NewTurn EXCEPT !.pc = "done", !.seen = shown]
      BY <1>1, <1>4, <3>1
    <3> QED
      BY <3>2 DEF NewTurn
  <2> QED
    BY <1>3, <1>16, <2>1, CoveredStays
<1>17. CASE Deliver(t)
  <2>1. turn[t].pc = "deliver" /\ history' = history /\ \E shown : End(t, shown)
    BY <1>17 DEF Deliver
  <2> QED
    BY <1>16, <2>1
<1>18. CASE Report(t)
  <2>1. /\ turn[t].pc = "failed" /\ history' = history
        /\ End(t, "error") \/ End(t, turn[t].seen)
    BY <1>18 DEF Report
  <2>2. turn[t].seen \in {"nothing", "status"}
    BY <1>3, <2>1 DEF CallsCovered
  <2> QED
    BY <1>16, <2>1, <2>2
<1>19. CASE Fail(t)
  <2> DEFINE r == [turn[t] EXCEPT !.pc = "failed", !.text = FALSE, !.calls = 0, !.tool = NoTool,
                                  !.result = "none"]
  <2>1. Active(t) /\ history' = history /\ To(t, r)
    BY <1>19 DEF Fail
  <2>2. r.pc = "failed" /\ r.seen = turn[t].seen
    BY <1>2 DEF TurnStates
  <2>3. turn'[t] = r
    BY <1>1, <1>4, <2>1
  <2> HIDE DEF r
  <2> QED
    BY <1>3, <2>1, <2>2, <2>3, CoveredStays DEF CallsCovered, Active
<1>20. CASE Clear
  <2>1. history' = <<>> /\ turn' = turn
    BY <1>20 DEF Clear
  <2> QED
    BY <1>3, <2>1 DEF CallsCovered, Covered
<1>21. CASE Die
  <2>1. CASE Active(t)
    <3>1. history' = history /\ turn'[t].pc = "done" /\ turn'[t].seen = turn[t].seen
      BY <1>1, <1>21, <2>1 DEF Die, NewTurn
    <3>2. turn[t].seen \in {"nothing", "status"}
      BY <1>3, <2>1 DEF CallsCovered, Active
    <3> QED
      BY <3>1, <3>2 DEF CallsCovered
  <2>2. CASE ~Active(t)
    <3>1. history' = history /\ turn'[t] = turn[t]
      BY <1>1, <1>21, <2>2 DEF Die
    <3> QED
      BY <1>6, <3>1
  <2> QED
    BY <2>1, <2>2
<1>22. CASE UNCHANGED vars
  BY <1>6, <1>22 DEF vars
<1>23. CASE TurnNext(t)
  BY <1>9, <1>10, <1>11, <1>12, <1>13, <1>14, <1>15, <1>17, <1>18, <1>19, <1>23 DEF TurnNext
<1> QED
  BY <1>8, <1>20, <1>21, <1>22, <1>23 DEF Next

\* A reply that showed a final text left no call of its own unanswered in the
\* history: it got there past the StoreOutput of every call, and what runs or is
\* cleared beside it removes no output without the call before it.
THEOREM NoCallLeft == Spec => []DeliveredAnswered
<1>1. Init => AnswerInv
  BY DEF Init, AnswerInv, CallsCovered, Covered, NewTurn, Turns
<1>2. AnswerInv => DeliveredAnswered
  BY DEF AnswerInv, CallsCovered, Covered, OpenCall, DeliveredAnswered
<1> QED
  BY <1>1, <1>2, BlankInit, BlankNext, HistoryInit, HistoryNext, AnswerNext, PTL DEF Spec
=============================================================================
