-------------------------- MODULE ChatAccessProofs --------------------------
(***************************************************************************)
(* What holds of ChatAccess for every number of chats, messages, presses   *)
(* and panels in progress and every page size: typing, one row per chat,   *)
(* nobody served unasked, the arithmetic of the panel's pages, what a press *)
(* shows, and which activations are announced.                             *)
(***************************************************************************)
EXTENDS ChatAccess, TLAPS

-----------------------------------------------------------------------------
(* The pages of the panel.                                                 *)

\* The last page holds the last chat: it begins before it and ends no earlier.
LEMMA LastPage ==
  ASSUME NEW n \in Nat \ {0}
  PROVE  /\ CalcTotalPages(n) \in Pages
         /\ (CalcTotalPages(n) - 1) * PageSize < n
         /\ n <= CalcTotalPages(n) * PageSize
<1> DEFINE k == CalcTotalPages(n)
<1>1. PICK q, r : q = n \div PageSize /\ r = n % PageSize
  OBVIOUS
<1>2. q \in Nat /\ r \in 0..(PageSize - 1) /\ n = q * PageSize + r
  BY <1>1, PageSizeAssumption
<1>3. k = q + (IF r # 0 THEN 1 ELSE 0)
  BY <1>1, <1>2 DEF CalcTotalPages
<1>4. PageSize * 1 = PageSize /\ q * PageSize \in Nat
  BY <1>2, PageSizeAssumption
<1> HIDE DEF k
<1>5. CASE r = 0
  <2>1. k = q /\ n = q * PageSize
    BY <1>2, <1>3, <1>4, <1>5
  <2>2. q # 0
    BY <2>1, PageSizeAssumption
  <2>3. (q - 1) * PageSize = q * PageSize - PageSize
    BY <1>2, PageSizeAssumption
  <2>4. k \in Pages
    BY <2>1, <2>2, <1>2 DEF Pages
  <2> QED BY <1>4, <2>1, <2>3, <2>4, PageSizeAssumption DEF k
<1>6. CASE r # 0
  <2>1. k = q + 1
    BY <1>2, <1>3, <1>6
  <2>2. (q + 1) * PageSize = q * PageSize + PageSize
    BY <1>2, PageSizeAssumption
  <2>3. k \in Pages /\ k - 1 = q
    BY <2>1, <1>2 DEF Pages
  <2> QED BY <1>2, <1>4, <1>6, <2>1, <2>2, <2>3, PageSizeAssumption DEF k
<1> QED BY <1>2, <1>5, <1>6

\* A position lies on one page only: pages follow one another.
LEMMA PagesApart ==
  ASSUME NEW n \in Nat, NEW p \in Pages, NEW q \in Pages, p < q
  PROVE  PagePositions(n, p) \cap PagePositions(n, q) = {}
<1>1. p * PageSize <= (q - 1) * PageSize
  <2>1. PICK d \in Nat : q - 1 = p + d
    BY DEF Pages
  <2>2. (p + d) * PageSize = p * PageSize + d * PageSize /\ d * PageSize \in Nat
    BY <2>1, PageSizeAssumption DEF Pages
  <2> QED BY <2>1, <2>2, PageSizeAssumption DEF Pages
<1> QED BY <1>1, PageSizeAssumption DEF PagePositions, Pages

\* The panel's pages cover the list: every chat is on one page and no other,
\* and no page is empty.
LEMMA Covering ==
  ASSUME NEW n \in Nat, NEW pages, pages = 1..CalcTotalPages(n)
  PROVE  /\ \A i \in 1..n : \E p \in pages : i \in PagePositions(n, p)
         /\ \A p, q \in pages : p # q => PagePositions(n, p) \cap PagePositions(n, q) = {}
         /\ n # 0 => \A p \in pages : PagePositions(n, p) # {}
<1>1. CalcTotalPages(n) \in Pages
  BY LastPage DEF CalcTotalPages, Pages
<1>2. ASSUME NEW i \in 1..n
      PROVE  \E p \in pages : i \in PagePositions(n, p)
  <2>1. n # 0 /\ i - 1 \in Nat
    BY <1>2
  <2>2. PICK q, r : q = (i - 1) \div PageSize /\ r = (i - 1) % PageSize
    OBVIOUS
  <2>3. q \in Nat /\ r \in 0..(PageSize - 1) /\ i - 1 = q * PageSize + r
    BY <2>1, <2>2, PageSizeAssumption
  <2>4. (q + 1) * PageSize = q * PageSize + PageSize /\ q * PageSize \in Nat
    BY <2>3, PageSizeAssumption
  <2>5. i \in PagePositions(n, q + 1)
    <3>1. (q + 1) - 1 = q
      BY <2>3
    <3> QED BY <2>3, <2>4, <3>1, PageSizeAssumption DEF PagePositions
  <2>6. q + 1 <= CalcTotalPages(n)
    <3>1. SUFFICES ASSUME CalcTotalPages(n) < q + 1 PROVE FALSE
      BY <1>1, <2>3 DEF Pages
    <3>2. PICK d \in Nat : q = CalcTotalPages(n) + d
      <4> DEFINE k == CalcTotalPages(n)
      <4>1. k \in Nat /\ k < q + 1
        BY <1>1, <3>1 DEF Pages
      <4> HIDE DEF k
      <4>2. q - k \in Nat /\ q = k + (q - k)
        BY <2>3, <4>1
      <4> QED BY <4>2 DEF k
    <3>3. q * PageSize = CalcTotalPages(n) * PageSize + d * PageSize /\ d * PageSize \in Nat
      BY <1>1, <3>2, PageSizeAssumption DEF Pages
    <3>4. n <= CalcTotalPages(n) * PageSize
      BY <2>1, LastPage
    <3>5. CalcTotalPages(n) * PageSize \in Nat
      BY <1>1, PageSizeAssumption DEF Pages
    <3> QED BY <2>3, <3>3, <3>4, <3>5, PageSizeAssumption
  <2> QED BY <1>1, <2>3, <2>5, <2>6 DEF Pages
<1>3. ASSUME NEW p \in pages, NEW q \in pages, p # q
      PROVE  PagePositions(n, p) \cap PagePositions(n, q) = {}
  <2>1. p \in Pages /\ q \in Pages
    BY <1>1 DEF Pages
  <2>2. p < q \/ q < p
    BY <1>3, <2>1 DEF Pages
  <2> QED BY <2>1, <2>2, PagesApart
<1>4. ASSUME n # 0, NEW p \in pages
      PROVE  PagePositions(n, p) # {}
  <2>1. PICK k : k = CalcTotalPages(n)
    OBVIOUS
  <2>2. k \in Pages /\ (k - 1) * PageSize < n /\ p \in 1..k
    BY <1>4, <2>1, LastPage
  <2>3. PICK d \in Nat : k - 1 = (p - 1) + d
    BY <2>2 DEF Pages
  <2>4. (k - 1) * PageSize = (p - 1) * PageSize + d * PageSize /\ d * PageSize \in Nat
    BY <2>2, <2>3, PageSizeAssumption DEF Pages
  <2>5. p * PageSize = (p - 1) * PageSize + PageSize /\ (p - 1) * PageSize \in Nat
    BY <2>2, PageSizeAssumption DEF Pages
  <2>6. (p - 1) * PageSize + 1 \in PagePositions(n, p)
    BY <2>2, <2>4, <2>5, PageSizeAssumption DEF PagePositions, Pages
  <2> QED BY <2>6
<1> QED BY <1>2, <1>3, <1>4

-----------------------------------------------------------------------------
(* Typing: the fields a record holds at each program counter.              *)

HandlerShape ==
  \A h \in Handlers : handlers[h].pc # "idle" =>
    handlers[h].chat \in Chats /\ handlers[h].profile \in Profiles

PressShape ==
  \A p \in Presses :
    /\ presses[p].pc # "idle" => presses[p].message \in Messages
    /\ presses[p].pc \in {"look", "update", "notify"} => presses[p].chat \in Chats
    /\ presses[p].pc \in {"look", "update"} => presses[p].to \in Statuses
    /\ presses[p].pc = "show" => presses[p].built \in Panels

TypeInv == TypeOK /\ HandlerShape /\ PressShape

\* What a message or a press is reset to has the type of one.
LEMMA IdleTypes ==
  /\ IdleHandler \in HandlerStates
  /\ IdlePress \in PressStates
BY DEF IdleHandler, IdlePress, HandlerStates, PressStates, Pages

\* The types hold at the start.
LEMMA TypeInit == Init => TypeInv
<1> SUFFICES ASSUME Init PROVE TypeInv
  OBVIOUS
<1>1. TypeOK
  <2>1. /\ handlers \in [Handlers -> HandlerStates] /\ presses \in [Presses -> PressStates]
    BY IdleTypes DEF Init
  <2>2. order \in Seq(Chats) /\ approved \subseteq Chats
    BY DEF Init
  <2>3. /\ status \in [Chats -> {"none"} \cup Statuses]
        /\ profile \in [Chats -> Profiles \cup {NoProfile}]
        /\ panels \in [Messages -> Panels \cup {NoPanel}]
    BY DEF Init
  <2> QED BY <2>1, <2>2, <2>3 DEF TypeOK
<1>2. HandlerShape /\ PressShape
  BY DEF Init, HandlerShape, PressShape, IdleHandler, IdlePress
<1> QED BY <1>1, <1>2 DEF TypeInv

\* A panel is well typed whatever page is asked for.
LEMMA BuiltTypes ==
  ASSUME order \in Seq(Chats), status \in [Chats -> {"none"} \cup Statuses], NEW asked \in Pages
  PROVE  BuildPanel(asked) \in Panels
<1> DEFINE total == CalcTotalPages(Len(order))
           page == NormalizePage(asked, total)
<1>1. total \in Pages
  BY LastPage DEF CalcTotalPages, Pages
<1>2. page \in Pages
  BY <1>1 DEF NormalizePage, Pages
<1>3. \A i \in PagePositions(Len(order), page) : order[i] \in Chats
  BY DEF PagePositions
<1>4. \A c \in Chats : Flip(status[c]) \in Statuses
  BY DEF Flip, Statuses
<1> HIDE DEF total, page
<1>5. {[chat |-> order[i], to |-> Flip(status[order[i]])] :
         i \in PagePositions(Len(order), page)} \in SUBSET Buttons
  BY <1>3, <1>4 DEF Buttons
<1> QED BY <1>1, <1>2, <1>5 DEF BuildPanel, Panel, Panels, total, page

\* A handler's step: its record is replaced by one of the right type and shape.
LEMMA HandlerWrite ==
  ASSUME TypeInv, NEW h \in Handlers, NEW r \in HandlerStates, HandlerStep(h, r),
         r.pc # "idle" => r.chat \in Chats /\ r.profile \in Profiles
  PROVE  handlers' \in [Handlers -> HandlerStates] /\ HandlerShape'
<1> HIDE DEF HandlerStates
<1> QED BY DEF TypeInv, TypeOK, HandlerShape, HandlerStep

\* What the steps of a message write has its type and keeps chat and profile.
LEMMA HandlerFields ==
  ASSUME NEW r \in HandlerStates, NEW pc \in {"reread", "gate"},
         NEW read \in {"none"} \cup Statuses
  PROVE  /\ [r EXCEPT !.pc = pc] \in HandlerStates
         /\ [r EXCEPT !.pc = pc].chat = r.chat
         /\ [r EXCEPT !.pc = pc].profile = r.profile
         /\ [r EXCEPT !.pc = pc, !.read = read] \in HandlerStates
         /\ [r EXCEPT !.pc = pc, !.read = read].chat = r.chat
         /\ [r EXCEPT !.pc = pc, !.read = read].profile = r.profile
  BY DEF HandlerStates

\* A press's step: its record is replaced by one of the right type and shape.
ShapedPress(r) ==
  /\ r \in PressStates
  /\ r.pc # "idle" => r.message \in Messages
  /\ r.pc \in {"look", "update", "notify"} => r.chat \in Chats
  /\ r.pc \in {"look", "update"} => r.to \in Statuses
  /\ r.pc = "show" => r.built \in Panels

LEMMA PressWrite ==
  ASSUME TypeInv, NEW p \in Presses, NEW r, ShapedPress(r), PressStep(p, r)
  PROVE  presses' \in [Presses -> PressStates] /\ PressShape'
<1> HIDE DEF PressStates
<1> QED BY DEF TypeInv, TypeOK, PressShape, PressStep, ShapedPress

\* What the steps of a press write, field by field.
LEMMA PressedFields ==
  ASSUME NEW m \in Messages, NEW page \in Pages, NEW b \in Buttons
  PROVE  LET listing == [[IdlePress EXCEPT !.pc = "list", !.page = page] EXCEPT !.message = m]
             looking == [[IdlePress EXCEPT !.pc = "look", !.chat = b.chat, !.to = b.to,
                                           !.page = page] EXCEPT !.message = m]
         IN  /\ ShapedPress(listing) /\ listing.pc = "list" /\ listing.chat = NoChat
             /\ ShapedPress(looking) /\ looking.pc = "look" /\ looking.chat = b.chat
             /\ looking.page = page /\ ~looking.raced
  BY DEF ShapedPress, PressStates, IdlePress, Buttons

LEMMA LookFields ==
  ASSUME NEW r, ShapedPress(r), r.pc = "look", NEW was \in BOOLEAN
  PROVE  LET w == [r EXCEPT !.pc = "update", !.wasInactive = was]
         IN  /\ ShapedPress(w) /\ w.pc = "update" /\ w.chat = r.chat /\ w.page = r.page
             /\ w.wasInactive = was
  BY DEF ShapedPress, PressStates

LEMMA NotifyFields ==
  ASSUME NEW r, ShapedPress(r), r.pc = "notify"
  PROVE  LET w == [r EXCEPT !.pc = "list"]
         IN  ShapedPress(w) /\ w.pc = "list" /\ w.chat = r.chat /\ w.page = r.page
  BY DEF ShapedPress, PressStates

LEMMA ListFields ==
  ASSUME NEW r, ShapedPress(r), r.pc = "list", NEW built \in Panels
  PROVE  LET w == [r EXCEPT !.pc = "show", !.page = 1, !.built = built]
         IN  ShapedPress(w) /\ w.pc = "show" /\ w.built = built /\ w.chat = r.chat
<1>1. 1 \in Pages
  BY DEF Pages
<1> HIDE DEF Panels
<1> QED BY <1>1 DEF ShapedPress, PressStates

LEMMA WriteFields ==
  ASSUME NEW r, ShapedPress(r), r.pc = "update", NEW pc \in {"notify", "list"}
  PROVE  LET w == [r EXCEPT !.pc = pc, !.to = "none", !.wasInactive = FALSE, !.raced = FALSE]
         IN  ShapedPress(w) /\ w.pc = pc /\ w.chat = r.chat /\ w.page = r.page
  BY DEF ShapedPress, PressStates

LEMMA RaceFields ==
  ASSUME NEW r, ShapedPress(r), NEW raced \in BOOLEAN
  PROVE  LET w == [r EXCEPT !.raced = raced]
         IN  /\ ShapedPress(w) /\ w.pc = r.pc /\ w.chat = r.chat /\ w.page = r.page
             /\ w.built = r.built /\ w.wasInactive = r.wasInactive /\ w.raced = raced
  BY DEF ShapedPress, PressStates

\* The rest of the state, which a step of a message or of a press may write.
Rest == /\ order \in Seq(Chats)
        /\ status \in [Chats -> {"none"} \cup Statuses]
        /\ profile \in [Chats -> Profiles \cup {NoProfile}]
        /\ approved \subseteq Chats

\* Every step of a message keeps the types.
LEMMA HandlerTypes ==
  ASSUME TypeInv, NEW h \in Handlers, HandlerNext(h)
  PROVE  TypeInv'
<1> USE DEF TypeInv, TypeOK, HandlerStates, HandlerShape, Statuses
<1>1. CASE \E c \in Chats, p \in Profiles : Receive(h, c, p)
  <2>1. PICK c \in Chats, p \in Profiles : Receive(h, c, p)
    BY <1>1
  <2>2. handlers' \in [Handlers -> HandlerStates] /\ HandlerShape'
    BY <2>1, HandlerWrite DEF Receive, IdleHandler
  <2> QED BY <2>1, <2>2 DEF Receive, rows, PressShape
<1>2. CASE Get(h)
  <2>1. PICK pc \in {"insert", "refresh", "gate"}, read \in {"none"} \cup Statuses :
          handlers' = [handlers EXCEPT ![h] = [handlers[h] EXCEPT !.read = read, !.pc = pc]]
    <3>1. CASE status[handlers[h].chat] = "none"
      <4>1. handlers[h].read \in {"none"} \cup Statuses /\ handlers[h] \in HandlerStates
        OBVIOUS
      <4>2. [handlers[h] EXCEPT !.pc = "insert"]
              = [handlers[h] EXCEPT !.read = handlers[h].read, !.pc = "insert"]
        BY <4>1
      <4> QED BY <1>2, <3>1, <4>1, <4>2 DEF Get, HandlerStep
    <3>2. CASE status[handlers[h].chat] # "none"
      <4>1. status[handlers[h].chat] \in Statuses
        BY <1>2, <3>2 DEF Get
      <4>2. PICK pc \in {"refresh", "gate"} :
              handlers' = [handlers EXCEPT ![h] =
                            [handlers[h] EXCEPT !.read = status[handlers[h].chat], !.pc = pc]]
        <5> HIDE DEF HandlerStates, TypeOK, TypeInv, HandlerShape
        <5> QED BY <1>2, <3>2 DEF Get, HandlerStep
      <4> QED BY <4>1, <4>2
    <3> QED BY <3>1, <3>2
  <2>2. handlers' \in [Handlers -> HandlerStates]
    <3>1. [handlers[h] EXCEPT !.read = read, !.pc = pc] \in HandlerStates
      <4> HIDE DEF Statuses
      <4> QED BY <2>1
    <3> QED BY <2>1, <3>1
  <2>3. HandlerShape'
    BY <1>2, <2>1 DEF Get
  <2> QED BY <1>2, <2>2, <2>3 DEF Get, rows, PressShape
<1>3. CASE Insert(h)
  <2>1. handlers' \in [Handlers -> HandlerStates] /\ HandlerShape'
    <3>1. handlers[h].chat \in Chats /\ handlers[h].profile \in Profiles
      BY <1>3 DEF Insert
    <3>2. CASE HandlerStep(h, IdleHandler)
      <4>1. IdleHandler.pc = "idle"
        BY DEF IdleHandler
      <4> HIDE DEF TypeInv, HandlerStates, HandlerShape
      <4> QED BY <3>2, <4>1, IdleTypes, HandlerWrite
    <3>3. CASE HandlerStep(h, [handlers[h] EXCEPT !.pc = "reread"])
      <4> DEFINE r == [handlers[h] EXCEPT !.pc = "reread"]
      <4>1. r \in HandlerStates /\ r.chat \in Chats /\ r.profile \in Profiles
        <5>1. handlers[h] \in HandlerStates
          OBVIOUS
        <5> HIDE DEF TypeInv, TypeOK, HandlerStates, HandlerShape
        <5> QED BY <3>1, <5>1, HandlerFields
      <4> HIDE DEF TypeInv, HandlerStates, HandlerShape
      <4> QED BY <3>3, <4>1, HandlerWrite
    <3> QED BY <1>3, <3>2, <3>3 DEF Insert
  <2>2. Rest'
    <3>1. CASE status[handlers[h].chat] # "none"
      BY <1>3, <3>1 DEF Insert, Rest, rows
    <3>2. CASE status[handlers[h].chat] = "none"
      <4>1. handlers[h].chat \in Chats /\ handlers[h].profile \in Profiles
        BY <1>3 DEF Insert
      <4>2. /\ order' = Append(order, handlers[h].chat)
            /\ status' = [status EXCEPT ![handlers[h].chat] = "inactive"]
            /\ profile' = [profile EXCEPT ![handlers[h].chat] = handlers[h].profile]
            /\ approved' = approved
        BY <1>3, <3>2 DEF Insert
      <4> QED BY <4>1, <4>2 DEF Rest
    <3> QED BY <3>1, <3>2
  <2> QED BY <1>3, <2>1, <2>2 DEF Insert, PressShape, Rest
<1>4. CASE Reread(h)
  <2>1. handlers' \in [Handlers -> HandlerStates] /\ HandlerShape'
    <3> DEFINE r == [handlers[h] EXCEPT !.pc = "gate", !.read = status[handlers[h].chat]]
    <3>1. handlers[h].chat \in Chats /\ handlers[h].profile \in Profiles
      BY <1>4 DEF Reread
    <3>2. r \in HandlerStates /\ r.chat \in Chats /\ r.profile \in Profiles
      <4>1. handlers[h] \in HandlerStates /\ status[handlers[h].chat] \in {"none"} \cup Statuses
        BY <3>1
      <4> HIDE DEF TypeInv, TypeOK, HandlerStates, HandlerShape, Statuses
      <4> QED BY <3>1, <4>1, HandlerFields
    <3>3. HandlerStep(h, r)
      BY <1>4 DEF Reread
    <3> HIDE DEF TypeInv, HandlerStates, HandlerShape, r
    <3> QED BY <3>2, <3>3, HandlerWrite
  <2> QED BY <1>4, <2>1 DEF Reread, rows, PressShape
<1>5. CASE Refresh(h)
  <2>1. handlers' \in [Handlers -> HandlerStates] /\ HandlerShape'
    BY <1>5 DEF Refresh, HandlerStep
  <2> QED BY <1>5, <2>1 DEF Refresh, PressShape
<1>6. CASE Gate(h)
  <2>1. handlers' \in [Handlers -> HandlerStates] /\ HandlerShape'
    BY <1>6, IdleTypes DEF Gate, HandlerStep, IdleHandler
  <2> QED BY <1>6, <2>1 DEF Gate, rows, PressShape
<1>7. CASE Serve(h) \/ HandlerError(h)
  <2>1. HandlerStep(h, IdleHandler)
    BY <1>7 DEF Serve, HandlerError
  <2>2. handlers' \in [Handlers -> HandlerStates] /\ HandlerShape'
    <3> HIDE DEF HandlerStates
    <3> QED BY <2>1, IdleTypes DEF HandlerStep, IdleHandler
  <2> QED BY <1>7, <2>2 DEF Serve, HandlerError, rows, PressShape
<1> QED BY <1>1, <1>2, <1>3, <1>4, <1>5, <1>6, <1>7 DEF HandlerNext

\* Every step of a press keeps the types.
LEMMA PressTypes ==
  ASSUME TypeInv, NEW p \in Presses, PressNext(p)
  PROVE  TypeInv'
<1>0. ShapedPress(presses[p])
  BY DEF TypeInv, TypeOK, PressShape, ShapedPress
<1>1. ASSUME NEW r, ShapedPress(r), PressStep(p, r), UNCHANGED <<rows, handlers, approved>>,
             panels' \in [Messages -> Panels \cup {NoPanel}]
      PROVE  TypeInv'
  <2>1. presses' \in [Presses -> PressStates] /\ PressShape'
    BY <1>1, PressWrite
  <2> HIDE DEF PressStates
  <2> QED BY <1>1, <2>1 DEF TypeInv, TypeOK, rows, HandlerShape
<1>2. ShapedPress(IdlePress)
  BY IdleTypes DEF ShapedPress, IdlePress
<1>3. panels \in [Messages -> Panels \cup {NoPanel}]
  BY DEF TypeInv, TypeOK
<1>4. CASE OpenPanel(p)
  <2>1. PICK m \in Messages : Pressed(p, m, [IdlePress EXCEPT !.pc = "list"])
    BY <1>4 DEF OpenPanel
  <2>2. 1 \in Pages
    BY DEF Pages
  <2>3. ShapedPress([[IdlePress EXCEPT !.pc = "list"] EXCEPT !.message = m])
    BY <2>2 DEF ShapedPress, PressStates, IdlePress
  <2> QED BY <1>1, <1>3, <2>1, <2>3 DEF Pressed
<1>5. CASE PressPage(p)
  <2>1. PICK m \in Messages : panels[m] # NoPanel /\ \E page \in PageButtons(panels[m]) :
                                Pressed(p, m, [IdlePress EXCEPT !.pc = "list", !.page = page])
    BY <1>5 DEF PressPage
  <2>2. PICK page \in PageButtons(panels[m]) :
               Pressed(p, m, [IdlePress EXCEPT !.pc = "list", !.page = page])
    BY <2>1
  <2>3. page \in Pages
    BY <1>3, <2>1, <2>2 DEF PageButtons, Panels, Pages
  <2>4. ShapedPress([[IdlePress EXCEPT !.pc = "list", !.page = page] EXCEPT !.message = m])
    BY <2>3 DEF ShapedPress, PressStates, IdlePress
  <2> QED BY <1>1, <1>3, <2>2, <2>4 DEF Pressed
<1>6. CASE PressToggle(p)
  <2>1. PICK m \in Messages : panels[m] # NoPanel /\ \E b \in panels[m].buttons :
               Pressed(p, m, [IdlePress EXCEPT !.pc = "look", !.chat = b.chat, !.to = b.to,
                                               !.page = panels[m].page])
    BY <1>6 DEF PressToggle
  <2>2. PICK b \in panels[m].buttons :
               Pressed(p, m, [IdlePress EXCEPT !.pc = "look", !.chat = b.chat, !.to = b.to,
                                               !.page = panels[m].page])
    BY <2>1
  <2>3. b \in Buttons /\ panels[m].page \in Pages
    BY <1>3, <2>1, <2>2 DEF Panels
  <2>4. ShapedPress([[IdlePress EXCEPT !.pc = "look", !.chat = b.chat, !.to = b.to,
                                       !.page = panels[m].page] EXCEPT !.message = m])
    BY <2>3, PressedFields
  <2> QED BY <1>1, <1>3, <2>2, <2>4 DEF Pressed
<1>7. CASE Look(p)
  <2>1. PICK was \in BOOLEAN : was = (status[presses[p].chat] = "inactive")
    OBVIOUS
  <2>2. PressStep(p, [presses[p] EXCEPT !.pc = "update", !.wasInactive = was])
    BY <1>7, <2>1 DEF Look
  <2>3. ShapedPress([presses[p] EXCEPT !.pc = "update", !.wasInactive = was])
    BY <1>0, <1>7, LookFields DEF Look
  <2> QED BY <1>1, <1>3, <1>7, <2>2, <2>3 DEF Look
<1>8. CASE Update(p)
  <2>1. PICK pc \in {"notify", "list"} : Write(p, pc)
    BY <1>8 DEF Update
  <2>2. presses[p].chat \in Chats /\ presses[p].to \in Statuses
    BY <1>8 DEF Update, TypeInv, PressShape
  <2>3. \A q \in Presses : ShapedPress(presses'[q])
    <3> SUFFICES ASSUME NEW q \in Presses PROVE ShapedPress(presses'[q])
      OBVIOUS
    <3>1. CASE q = p
      <4>1. presses'[p] = [presses[p] EXCEPT !.pc = pc, !.to = "none", !.wasInactive = FALSE,
                                             !.raced = FALSE]
        BY <2>1 DEF Write
      <4>2. ShapedPress([presses[p] EXCEPT !.pc = pc, !.to = "none", !.wasInactive = FALSE,
                                           !.raced = FALSE])
        BY <1>0, <1>8, WriteFields DEF Update
      <4> QED BY <3>1, <4>1, <4>2
    <3>2. CASE q # p
      <4>1. PICK raced \in BOOLEAN : presses'[q] = [presses[q] EXCEPT !.raced = raced]
        <5>1. presses[q] \in PressStates /\ presses[q].raced \in BOOLEAN
          BY DEF TypeInv, TypeOK, PressStates
        <5>2. PICK raced \in BOOLEAN : raced = (presses[q].raced
                \/ (presses[q].pc \in {"update", "show"} /\ presses[q].chat = presses[p].chat))
          BY <5>1
        <5>3. presses'[q] = [presses[q] EXCEPT !.raced = raced]
          BY <2>1, <3>2, <5>2 DEF Write
        <5> QED BY <5>3
      <4>2. ShapedPress(presses[q])
        BY DEF TypeInv, TypeOK, PressShape, ShapedPress
      <4> QED BY <4>1, <4>2, RaceFields
    <3> QED BY <3>1, <3>2
  <2>4. presses' \in [Presses -> PressStates] /\ PressShape'
    <3>1. \A q \in Presses : presses'[q] \in PressStates
      BY <2>3 DEF ShapedPress
    <3>2. presses' = [q \in Presses |-> presses'[q]]
      BY <2>1 DEF Write
    <3>3. presses' \in [Presses -> PressStates]
      BY <3>1, <3>2
    <3> QED BY <2>3, <3>3 DEF PressShape, ShapedPress
  <2>5. /\ status' \in [Chats -> {"none"} \cup Statuses]
        /\ approved' \subseteq Chats
    BY <2>1, <2>2 DEF Write, TypeInv, TypeOK
  <2> QED BY <2>1, <2>4, <2>5 DEF Write, TypeInv, TypeOK, HandlerShape
<1>9. CASE Notify(p)
  <2>1. ShapedPress([presses[p] EXCEPT !.pc = "list"])
    BY <1>0, <1>9, NotifyFields DEF Notify
  <2> QED BY <1>1, <1>3, <1>9, <2>1 DEF Notify
<1>10. CASE List(p)
  <2>1. PICK built \in Panels : built = BuildPanel(presses[p].page)
    <3>1. presses[p].page \in Pages
      BY DEF TypeInv, TypeOK, PressStates
    <3> QED BY <3>1, BuiltTypes DEF TypeInv, TypeOK
  <2>2. PressStep(p, [presses[p] EXCEPT !.pc = "show", !.page = 1, !.built = built])
    BY <1>10, <2>1 DEF List
  <2>3. ShapedPress([presses[p] EXCEPT !.pc = "show", !.page = 1, !.built = built])
    BY <1>0, <1>10, ListFields DEF List
  <2> QED BY <1>1, <1>3, <1>10, <2>2, <2>3 DEF List
<1>11. CASE Show(p)
  <2>1. panels' \in [Messages -> Panels \cup {NoPanel}]
    BY <1>0, <1>3, <1>11 DEF Show, ShapedPress
  <2> QED BY <1>1, <1>2, <1>11, <2>1 DEF Show
<1>12. CASE PressError(p)
  BY <1>1, <1>2, <1>3, <1>12 DEF PressError
<1> QED
  BY <1>4, <1>5, <1>6, <1>7, <1>8, <1>9, <1>10, <1>11, <1>12 DEF PressNext

\* Every step keeps the types, the death of the process among them.
LEMMA TypeNext == TypeInv /\ [Next]_vars => TypeInv'
<1> SUFFICES ASSUME TypeInv, [Next]_vars PROVE TypeInv'
  OBVIOUS
<1>1. CASE Die
  <2>1. handlers' \in [Handlers -> HandlerStates] /\ HandlerShape'
    BY <1>1, IdleTypes DEF Die, HandlerShape, IdleHandler
  <2>2. presses' \in [Presses -> PressStates] /\ PressShape'
    BY <1>1, IdleTypes DEF Die, PressShape, IdlePress
  <2> QED BY <1>1, <2>1, <2>2 DEF Die, TypeInv, TypeOK, rows
<1>2. CASE UNCHANGED vars
  BY <1>2 DEF vars, rows, TypeInv, TypeOK, HandlerShape, PressShape
<1> QED BY <1>1, <1>2, HandlerTypes, PressTypes DEF Next

\* Every reachable state is well typed.
THEOREM Typing == Spec => []TypeOK
<1>1. TypeInv => TypeOK
  BY DEF TypeInv
<1> QED BY <1>1, TypeInit, TypeNext, PTL DEF Spec

-----------------------------------------------------------------------------
(* What a step does to a press, a row or a panel that is not its own.      *)

\* A chat that has a row keeps its status in every step but a press's Update:
\* Insert writes only where there is no row.
LEMMA StatusStays ==
  ASSUME TypeInv, [Next]_vars, NEW c \in Chats, status[c] # "none", status'[c] # status[c]
  PROVE  \E p \in Presses : Update(p) /\ presses[p].chat = c
<1>1. ASSUME NEW h \in Handlers, Insert(h) PROVE FALSE
  BY <1>1 DEF Insert, rows, TypeInv, TypeOK, HandlerShape
<1>2. ASSUME NEW h \in Handlers, HandlerNext(h), ~Insert(h) PROVE FALSE
  BY <1>2 DEF HandlerNext, Receive, Get, Reread, Refresh, Gate, Serve, HandlerError, rows
<1>3. ASSUME NEW p \in Presses, PressNext(p), ~Update(p) PROVE FALSE
  BY <1>3 DEF PressNext, OpenPanel, PressPage, PressToggle, Pressed, Look, Notify, List, Show,
              PressError, rows
<1>4. CASE Die \/ UNCHANGED vars
  BY <1>4 DEF Die, vars, rows
<1>5. ASSUME NEW p \in Presses, Update(p) PROVE presses[p].chat = c
  BY <1>5 DEF Update, Write, TypeInv, TypeOK
<1> QED
  BY <1>1, <1>2, <1>3, <1>4, <1>5 DEF Next

\* A press that another one's step meets goes on as it was, and knows when its
\* row has been written.
Aside(p) ==
  \E raced \in BOOLEAN :
    /\ presses'[p] = [presses[p] EXCEPT !.raced = raced]
    /\ ~raced => ~presses[p].raced
    /\ ~raced /\ presses[p].pc \in {"update", "show"} =>
         \A q \in Presses : Update(q) => presses[q].chat # presses[p].chat

LEMMA PressSteps ==
  ASSUME TypeInv, [Next]_vars, NEW p \in Presses
  PROVE  PressNext(p) \/ Die \/ Aside(p)
<1> SUFFICES ASSUME ~PressNext(p), ~Die PROVE Aside(p)
  OBVIOUS
<1>1. presses[p] \in PressStates /\ presses[p].raced \in BOOLEAN
  BY DEF TypeInv, TypeOK, PressStates
<1>2. presses[p] = [presses[p] EXCEPT !.raced = presses[p].raced]
  BY <1>1 DEF PressStates
<1>3. ASSUME presses'[p] = presses[p], \A q \in Presses : ~Update(q) PROVE Aside(p)
  BY <1>1, <1>2, <1>3 DEF Aside
<1>4. ASSUME NEW q \in Presses, Update(q) PROVE Aside(p)
  <2>1. PICK pc : Write(q, pc)
    BY <1>4 DEF Update
  <2>2. q # p
    BY <1>4 DEF PressNext
  <2>3. PICK raced \in BOOLEAN : raced = (presses[p].raced
          \/ (presses[p].pc \in {"update", "show"} /\ presses[p].chat = presses[q].chat))
    BY <1>1
  <2>4. presses'[p] = [presses[p] EXCEPT !.raced = raced]
    BY <2>1, <2>2, <2>3 DEF Write
  <2>5. \A r \in Presses : Update(r) => r = q
    <3> SUFFICES ASSUME NEW r \in Presses, Update(r), r # q PROVE FALSE
      OBVIOUS
    <3>1. presses[r].pc = "update" /\ presses'[r].pc \in {"notify", "list"}
      BY DEF Update, Write, TypeInv, TypeOK, PressStates
    <3>2. \E raced2 : presses'[r] = [presses[r] EXCEPT !.raced = raced2]
      BY <2>1 DEF Write
    <3>3. presses[r] \in PressStates
      BY DEF TypeInv, TypeOK
    <3> QED BY <3>1, <3>2, <3>3 DEF PressStates
  <2> QED BY <2>3, <2>4, <2>5 DEF Aside
<1>5. ASSUME \A q \in Presses : ~Update(q) PROVE presses'[p] = presses[p]
  <2>1. CASE UNCHANGED vars
    BY <2>1 DEF vars
  <2>2. ASSUME NEW h \in Handlers, HandlerNext(h) PROVE presses' = presses
    BY <2>2 DEF HandlerNext, Receive, Get, Insert, Reread, Refresh, Gate, Serve, HandlerError
  <2>3. ASSUME NEW q \in Presses, q # p, PressNext(q) PROVE presses'[p] = presses[p]
    BY <1>5, <2>3 DEF PressNext, OpenPanel, PressPage, PressToggle, Pressed, Look, Notify, List,
                      Show, PressError, PressStep, TypeInv, TypeOK
  <2> QED BY <2>1, <2>2, <2>3 DEF Next
<1> QED BY <1>3, <1>4, <1>5

\* The fields of a press that is met so.
LEMMA AsideFields ==
  ASSUME TypeInv, NEW p \in Presses, Aside(p)
  PROVE  /\ presses'[p].pc = presses[p].pc /\ presses'[p].chat = presses[p].chat
         /\ presses'[p].page = presses[p].page /\ presses'[p].built = presses[p].built
         /\ presses'[p].wasInactive = presses[p].wasInactive
         /\ ~presses'[p].raced => ~presses[p].raced
         /\ ~presses'[p].raced /\ presses[p].pc \in {"update", "show"} =>
              \A q \in Presses : Update(q) => presses[q].chat # presses[p].chat
<1>1. ShapedPress(presses[p])
  BY DEF TypeInv, TypeOK, PressShape, ShapedPress
<1>2. PICK raced \in BOOLEAN :
          /\ presses'[p] = [presses[p] EXCEPT !.raced = raced]
          /\ ~raced => ~presses[p].raced
          /\ ~raced /\ presses[p].pc \in {"update", "show"} =>
               \A q \in Presses : Update(q) => presses[q].chat # presses[p].chat
  BY DEF Aside
<1> QED BY <1>1, <1>2, RaceFields

-----------------------------------------------------------------------------
(* Rows and panels: rows are added and never taken away.                   *)

\* The chat is on the page, and the page exists.
OnPage(list, page, c) ==
  /\ page <= CalcTotalPages(Len(list))
  /\ \E i \in PagePositions(Len(list), page) : list[i] = c

\* What stays true of a panel once built: its pages exist, its chats have rows and
\* are on its page.
GoodPanel(panel, list, state) ==
  /\ panel.page <= panel.total /\ panel.total <= CalcTotalPages(Len(list))
  /\ \A b \in panel.buttons : state[b.chat] # "none" /\ OnPage(list, panel.page, b.chat)

\* What stays true of a press.
GoodPress(press, list, state) ==
  /\ press.pc = "show" => GoodPanel(press.built, list, state)
  /\ press.pc \in {"look", "update", "notify"} => state[press.chat] # "none"
  /\ press.pc \in {"look", "update", "notify", "list"} /\ press.chat # NoChat =>
       OnPage(list, press.page, press.chat)

PanelInv ==
  /\ \A m \in Messages : panels[m] # NoPanel => GoodPanel(panels[m], order, status)
  /\ \A p \in Presses : GoodPress(presses[p], order, status)

RowInv == RowPerChat /\ PanelInv

\* More chats never make fewer pages.
LEMMA PagesGrow ==
  ASSUME NEW n \in Nat
  PROVE  CalcTotalPages(n) <= CalcTotalPages(n + 1)
<1>1. PICK k, m : k = CalcTotalPages(n) /\ m = CalcTotalPages(n + 1)
  OBVIOUS
<1>2. m \in Pages /\ n + 1 <= m * PageSize
  BY <1>1, LastPage
<1>3. CASE n = 0
  BY <1>1, <1>2, <1>3 DEF CalcTotalPages, Pages
<1>4. CASE n # 0
  <2>1. k \in Pages /\ (k - 1) * PageSize < n
    BY <1>1, <1>4, LastPage
  <2>2. SUFFICES ASSUME m < k PROVE FALSE
    BY <1>1, <1>2, <2>1 DEF Pages
  <2>3. (k - 1) - m \in Nat /\ k - 1 = m + ((k - 1) - m)
    BY <1>2, <2>1, <2>2 DEF Pages
  <2>4. PICK d \in Nat : k - 1 = m + d
    BY <2>3
  <2>5. (k - 1) * PageSize = m * PageSize + d * PageSize /\ d * PageSize \in Nat
    BY <1>2, <2>4, PageSizeAssumption DEF Pages
  <2>6. m * PageSize \in Nat
    BY <1>2, PageSizeAssumption DEF Pages
  <2> QED BY <1>2, <2>1, <2>5, <2>6
<1> QED BY <1>3, <1>4

\* A row stays, and the list only grows at its end.
LEMMA RowsStay ==
  ASSUME TypeInv, [Next]_vars
  PROVE  /\ \A c \in Chats : status[c] # "none" => status'[c] # "none"
         /\ order' = order \/ \E c \in Chats : order' = Append(order, c)
<1> USE DEF TypeInv, TypeOK
<1>1. ASSUME NEW h \in Handlers, Insert(h)
      PROVE  /\ \A c \in Chats : status[c] # "none" => status'[c] # "none"
             /\ order' = order \/ \E c \in Chats : order' = Append(order, c)
  BY <1>1 DEF Insert, rows, HandlerShape
<1>2. ASSUME NEW p \in Presses, Update(p)
      PROVE  order' = order /\ \A c \in Chats : status[c] # "none" => status'[c] # "none"
  BY <1>2 DEF Update, Write, PressShape, Statuses
<1>3. ASSUME NEW h \in Handlers, HandlerNext(h), ~Insert(h)
      PROVE  order' = order /\ status' = status
  BY <1>3 DEF HandlerNext, Receive, Get, Reread, Refresh, Gate, Serve, HandlerError, rows
<1>4. ASSUME NEW p \in Presses, PressNext(p), ~Update(p)
      PROVE  order' = order /\ status' = status
  BY <1>4 DEF PressNext, OpenPanel, PressPage, PressToggle, Pressed, Look, Notify, List, Show,
              PressError, rows
<1>5. CASE Die \/ UNCHANGED vars
  BY <1>5 DEF Die, vars, rows
<1> QED BY <1>1, <1>2, <1>3, <1>4, <1>5 DEF Next

\* The number of pages in the list and in the next one.
LEMMA TotalsStay ==
  ASSUME TypeInv, [Next]_vars
  PROVE  /\ CalcTotalPages(Len(order)) \in Pages /\ CalcTotalPages(Len(order')) \in Pages
         /\ CalcTotalPages(Len(order)) <= CalcTotalPages(Len(order'))
<1>1. /\ Len(order) \in Nat /\ Len(order') \in Nat
      /\ order' = order \/ Len(order') = Len(order) + 1
  BY RowsStay DEF TypeInv, TypeOK
<1>2. CalcTotalPages(Len(order)) \in Pages /\ CalcTotalPages(Len(order')) \in Pages
  BY <1>1, LastPage DEF CalcTotalPages, Pages
<1>3. CASE order' = order
  BY <1>2, <1>3 DEF Pages
<1>4. CASE Len(order') = Len(order) + 1
  <2>1. CalcTotalPages(Len(order)) <= CalcTotalPages(Len(order) + 1)
    BY <1>1, PagesGrow
  <2> QED BY <1>2, <1>4, <2>1
<1> QED BY <1>1, <1>2, <1>3, <1>4

\* A chat stays on its page.
LEMMA PlacesStay ==
  ASSUME TypeInv, [Next]_vars, NEW page \in Pages, NEW c, OnPage(order, page, c)
  PROVE  OnPage(order', page, c)
<1>1. page <= CalcTotalPages(Len(order'))
  BY TotalsStay DEF OnPage, Pages
<1>2. PICK i \in PagePositions(Len(order), page) : order[i] = c
  BY DEF OnPage
<1>3. Len(order) \in Nat /\ i \in 1..Len(order)
  BY <1>2 DEF PagePositions, TypeInv, TypeOK
<1>4. /\ Len(order') \in Nat /\ Len(order) <= Len(order') /\ order'[i] = order[i]
  BY <1>3, RowsStay DEF TypeInv, TypeOK
<1>5. i \in PagePositions(Len(order'), page)
  BY <1>2, <1>3, <1>4, PageSizeAssumption DEF PagePositions, Pages
<1> QED BY <1>1, <1>2, <1>4, <1>5 DEF OnPage

\* A panel that was good stays good.
LEMMA PanelsStay ==
  ASSUME TypeInv, [Next]_vars, NEW panel \in Panels, GoodPanel(panel, order, status)
  PROVE  GoodPanel(panel, order', status')
<1>1. panel.total \in Pages /\ panel.page \in Pages
  BY DEF Panels
<1>2. panel.total <= CalcTotalPages(Len(order'))
  BY <1>1, TotalsStay DEF GoodPanel, Pages
<1>3. ASSUME NEW b \in panel.buttons
      PROVE  status'[b.chat] # "none" /\ OnPage(order', panel.page, b.chat)
  <2>1. b.chat \in Chats /\ status[b.chat] # "none" /\ OnPage(order, panel.page, b.chat)
    BY DEF GoodPanel, Panels, Buttons
  <2> QED BY <1>1, <2>1, RowsStay, PlacesStay
<1> QED BY <1>2, <1>3 DEF GoodPanel

\* A panel is good when it is built, and asked for a page that there is it shows
\* that page.
LEMMA PanelsBuilt ==
  ASSUME TypeInv, RowPerChat, NEW asked \in Pages
  PROVE  /\ GoodPanel(BuildPanel(asked), order, status)
         /\ \A c : OnPage(order, asked, c) =>
              [chat |-> c, to |-> Flip(status[c])] \in BuildPanel(asked).buttons
<1> DEFINE total == CalcTotalPages(Len(order))
           page == NormalizePage(asked, total)
<1> USE DEF TypeInv, TypeOK
<1>1. total \in Pages
  BY LastPage DEF CalcTotalPages, Pages
<1>2. page <= total /\ page \in Pages /\ (asked <= total => page = asked)
  BY <1>1 DEF NormalizePage, Pages
<1>3. \A i \in PagePositions(Len(order), page) : i \in DOMAIN order /\ order[i] \in Chats
  BY DEF PagePositions
<1>4. \A i \in PagePositions(Len(order), page) : status[order[i]] # "none"
  BY <1>3 DEF RowPerChat
<1>5. total <= total
  BY <1>1 DEF Pages
<1>6. ASSUME NEW c, OnPage(order, asked, c)
      PROVE  \E i \in PagePositions(Len(order), page) : order[i] = c
  BY <1>2, <1>6 DEF OnPage
<1>7. ASSUME NEW i \in PagePositions(Len(order), page)
      PROVE  OnPage(order, page, order[i])
  BY <1>2, <1>7 DEF OnPage
<1>8. BuildPanel(asked) = [page |-> page, total |-> total,
        buttons |-> {[chat |-> order[i], to |-> Flip(status[order[i]])] :
                       i \in PagePositions(Len(order), page)}]
  BY DEF BuildPanel, Panel
<1> HIDE DEF total, page
<1>9. total <= CalcTotalPages(Len(order))
  BY <1>5 DEF total
<1>10. PICK panel : panel = BuildPanel(asked)
  OBVIOUS
<1>11. \A b \in panel.buttons : status[b.chat] # "none" /\ OnPage(order, page, b.chat)
  BY <1>4, <1>7, <1>8, <1>10
<1>12. GoodPanel(panel, order, status)
  BY <1>2, <1>8, <1>9, <1>10, <1>11 DEF GoodPanel
<1>13. ASSUME NEW c, OnPage(order, asked, c)
       PROVE  [chat |-> c, to |-> Flip(status[c])] \in panel.buttons
  <2>1. PICK i \in PagePositions(Len(order), page) : order[i] = c
    BY <1>6, <1>13
  <2>2. panel.buttons = {[chat |-> order[k], to |-> Flip(status[order[k]])] :
                           k \in PagePositions(Len(order), page)}
    BY <1>8, <1>10
  <2>3. [chat |-> order[i], to |-> Flip(status[order[i]])] \in panel.buttons
    BY <2>2
  <2> QED BY <2>1, <2>3
<1> QED BY <1>10, <1>12, <1>13

\* One row for each chat, in every step: only Insert adds one, and only where
\* there is none.
LEMMA RowNext ==
  ASSUME TypeInv, RowInv, [Next]_vars
  PROVE  RowPerChat'
<1> USE DEF TypeInv, TypeOK
<1>1. ASSUME NEW h \in Handlers, Insert(h), status[handlers[h].chat] = "none"
      PROVE  RowPerChat'
  <2>1. PICK c \in Chats : /\ status[c] = "none" /\ order' = Append(order, c)
                           /\ status' = [status EXCEPT ![c] = "inactive"]
    BY <1>1 DEF Insert, HandlerShape
  <2>2. \A i \in DOMAIN order : order[i] # c
    BY <2>1 DEF RowInv, RowPerChat
  <2>3. /\ DOMAIN order = 1..Len(order) /\ DOMAIN order' = 1..(Len(order) + 1)
        /\ \A i \in 1..Len(order) : order'[i] = order[i]
        /\ order'[Len(order) + 1] = c
    BY <2>1
  <2>4. \A i, j \in DOMAIN order' : i # j => order'[i] # order'[j]
    BY <2>2, <2>3 DEF RowInv, RowPerChat
  <2>5. ASSUME NEW d \in Chats
        PROVE  status'[d] # "none" <=> \E i \in DOMAIN order' : order'[i] = d
    <3>1. CASE d = c
      <4>1. Len(order) + 1 \in DOMAIN order'
        BY <2>3
      <4> QED BY <2>1, <2>3, <3>1, <4>1
    <3>2. CASE d # c
      <4>1. status'[d] = status[d]
        BY <2>1, <3>2
      <4>2. (\E i \in DOMAIN order' : order'[i] = d) <=> \E i \in DOMAIN order : order[i] = d
        BY <2>3, <3>2
      <4> QED BY <4>1, <4>2 DEF RowInv, RowPerChat
    <3> QED BY <3>1, <3>2
  <2> QED BY <2>4, <2>5 DEF RowPerChat
<1>2. ASSUME NEW h \in Handlers, Insert(h), status[handlers[h].chat] # "none"
      PROVE  RowPerChat'
  BY <1>2 DEF Insert, rows, RowInv, RowPerChat
<1>3. ASSUME NEW p \in Presses, Update(p)
      PROVE  RowPerChat'
  <2>1. PICK c \in Chats, to \in Statuses : status[c] # "none"
                                             /\ status' = [status EXCEPT ![c] = to]
    BY <1>3 DEF Update, Write, PressShape, RowInv, PanelInv, GoodPress
  <2>2. \A d \in Chats : status'[d] # "none" <=> status[d] # "none"
    BY <2>1 DEF Statuses
  <2> QED BY <1>3, <2>2 DEF Update, Write, RowInv, RowPerChat
<1>4. ASSUME NEW h \in Handlers, HandlerNext(h), ~Insert(h)
      PROVE  RowPerChat'
  BY <1>4 DEF HandlerNext, Receive, Get, Reread, Refresh, Gate, Serve, HandlerError, rows,
              RowInv, RowPerChat
<1>5. ASSUME NEW p \in Presses, PressNext(p), ~Update(p)
      PROVE  RowPerChat'
  BY <1>5 DEF PressNext, OpenPanel, PressPage, PressToggle, Pressed, Look, Notify, List, Show,
              PressError, rows, RowInv, RowPerChat
<1>6. CASE Die \/ UNCHANGED vars
  BY <1>6 DEF Die, vars, rows, RowInv, RowPerChat
<1> QED BY <1>1, <1>2, <1>3, <1>4, <1>5, <1>6 DEF Next

\* What a press's own step writes of it, or that it is back where it began.
LEMMA OwnFields ==
  ASSUME TypeInv, NEW p \in Presses, PressNext(p)
  PROVE  \/ presses'[p] = IdlePress
         \/ /\ OpenPanel(p) \/ PressPage(p)
            /\ presses'[p].pc = "list" /\ presses'[p].chat = NoChat
         \/ /\ PressToggle(p) /\ presses'[p].pc = "look"
            /\ \E m \in Messages : panels[m] # NoPanel /\ \E b \in panels[m].buttons :
                 presses'[p].chat = b.chat /\ presses'[p].page = panels[m].page
         \/ /\ Look(p) \/ Update(p) \/ Notify(p)
            /\ \/ Look(p) /\ presses'[p].pc = "update"
               \/ Update(p) /\ presses'[p].pc \in {"notify", "list"}
               \/ Notify(p) /\ presses'[p].pc = "list"
            /\ presses'[p].chat = presses[p].chat /\ presses'[p].page = presses[p].page
         \/ /\ List(p) /\ presses'[p].pc = "show" /\ presses'[p].chat = presses[p].chat
            /\ presses'[p].built = BuildPanel(presses[p].page)
<1>0. ShapedPress(presses[p]) /\ presses \in [Presses -> PressStates]
  BY DEF TypeInv, TypeOK, PressShape, ShapedPress
<1>1. ASSUME NEW r, PressStep(p, r) PROVE presses'[p] = r
  BY <1>0, <1>1 DEF PressStep
<1>2. CASE OpenPanel(p)
  <2>1. PICK m \in Messages : Pressed(p, m, [IdlePress EXCEPT !.pc = "list"])
    BY <1>2 DEF OpenPanel
  <2>2. presses'[p] = [[IdlePress EXCEPT !.pc = "list"] EXCEPT !.message = m]
    BY <1>1, <2>1 DEF Pressed
  <2> QED BY <1>2, <2>2 DEF IdlePress
<1>3. CASE PressPage(p)
  <2>1. PICK m, page : Pressed(p, m, [IdlePress EXCEPT !.pc = "list", !.page = page])
    BY <1>3 DEF PressPage
  <2>2. presses'[p] = [[IdlePress EXCEPT !.pc = "list", !.page = page] EXCEPT !.message = m]
    BY <1>1, <2>1 DEF Pressed
  <2> QED BY <1>3, <2>2 DEF IdlePress
<1>4. CASE PressToggle(p)
  <2>1. PICK m \in Messages : panels[m] # NoPanel /\ \E b \in panels[m].buttons :
               Pressed(p, m, [IdlePress EXCEPT !.pc = "look", !.chat = b.chat, !.to = b.to,
                                               !.page = panels[m].page])
    BY <1>4 DEF PressToggle
  <2>2. PICK b \in panels[m].buttons :
               Pressed(p, m, [IdlePress EXCEPT !.pc = "look", !.chat = b.chat, !.to = b.to,
                                               !.page = panels[m].page])
    BY <2>1
  <2>3. presses'[p] = [[IdlePress EXCEPT !.pc = "look", !.chat = b.chat, !.to = b.to,
                                         !.page = panels[m].page] EXCEPT !.message = m]
    BY <1>1, <2>2 DEF Pressed
  <2>4. presses'[p].pc = "look" /\ presses'[p].chat = b.chat /\ presses'[p].page = panels[m].page
    BY <2>3 DEF IdlePress
  <2> QED BY <1>4, <2>1, <2>4
<1>5. CASE Look(p)
  <2>1. PICK was \in BOOLEAN : was = (status[presses[p].chat] = "inactive")
    OBVIOUS
  <2>2. presses'[p] = [presses[p] EXCEPT !.pc = "update", !.wasInactive = was]
    BY <1>1, <1>5, <2>1 DEF Look
  <2>3. presses[p].pc = "look"
    BY <1>5 DEF Look
  <2>4. /\ presses'[p].pc = "update" /\ presses'[p].chat = presses[p].chat
        /\ presses'[p].page = presses[p].page
    BY <1>0, <2>2, <2>3 DEF ShapedPress, PressStates
  <2> QED BY <1>5, <2>4
<1>6. CASE Update(p)
  <2>1. PICK pc \in {"notify", "list"} : Write(p, pc)
    BY <1>6 DEF Update
  <2>2. presses'[p] = [presses[p] EXCEPT !.pc = pc, !.to = "none", !.wasInactive = FALSE,
                                         !.raced = FALSE]
    BY <2>1 DEF Write
  <2>3. presses[p].pc = "update"
    BY <1>6 DEF Update
  <2>4. /\ presses'[p].pc = pc /\ presses'[p].chat = presses[p].chat
        /\ presses'[p].page = presses[p].page
    BY <1>0, <2>2, <2>3 DEF ShapedPress, PressStates
  <2> QED BY <1>6, <2>4
<1>7. CASE Notify(p)
  <2>1. presses'[p] = [presses[p] EXCEPT !.pc = "list"]
    BY <1>1, <1>7 DEF Notify
  <2> QED BY <1>0, <1>7, <2>1, NotifyFields DEF Notify
<1>8. CASE List(p)
  <2>1. PICK built \in Panels : built = BuildPanel(presses[p].page)
    <3>1. presses[p].page \in Pages
      BY <1>0 DEF PressStates
    <3> QED BY <3>1, BuiltTypes DEF TypeInv, TypeOK
  <2>2. presses'[p] = [presses[p] EXCEPT !.pc = "show", !.page = 1, !.built = built]
    BY <1>1, <1>8, <2>1 DEF List
  <2>3. presses[p].pc = "list"
    BY <1>8 DEF List
  <2>4. /\ presses'[p].pc = "show" /\ presses'[p].chat = presses[p].chat
        /\ presses'[p].built = built
    BY <1>0, <2>2, <2>3 DEF ShapedPress, PressStates
  <2> QED BY <1>8, <2>1, <2>4
<1>9. CASE Show(p) \/ PressError(p)
  BY <1>1, <1>9 DEF Show, PressError
<1> QED BY <1>2, <1>3, <1>4, <1>5, <1>6, <1>7, <1>8, <1>9 DEF PressNext

\* Panels and presses stay good: a panel is shown as it was built, a press takes
\* its chat and its page from a panel.
LEMMA PanelNext ==
  ASSUME TypeInv, RowInv, [Next]_vars
  PROVE  PanelInv'
<1>1. ASSUME NEW p \in Presses PROVE GoodPress(presses'[p], order', status')
  <2>0. ShapedPress(presses[p]) /\ GoodPress(presses[p], order, status)
    BY DEF TypeInv, TypeOK, PressShape, ShapedPress, RowInv, PanelInv
  <2>1. CASE presses'[p] = IdlePress
    BY <2>1 DEF GoodPress, IdlePress
  <2>2. ASSUME presses'[p].pc \in {"look", "update", "notify", "list"},
               presses'[p].chat = presses[p].chat, presses'[p].page = presses[p].page,
               presses[p].pc \in {"look", "update", "notify", "list"},
               presses'[p].pc # "list" => presses[p].pc \in {"look", "update", "notify"}
        PROVE  GoodPress(presses'[p], order', status')
    <3>1. presses[p].page \in Pages
      BY <2>0 DEF ShapedPress, PressStates
    <3>2. presses[p].chat # NoChat => OnPage(order', presses[p].page, presses[p].chat)
      BY <2>0, <2>2, <3>1, PlacesStay DEF GoodPress
    <3>3. presses'[p].pc # "list" => status'[presses[p].chat] # "none"
      BY <2>0, <2>2, RowsStay DEF GoodPress, ShapedPress
    <3> QED BY <2>2, <3>2, <3>3 DEF GoodPress
  <2>3. CASE Aside(p)
    <3>1. /\ presses'[p].pc = presses[p].pc /\ presses'[p].chat = presses[p].chat
          /\ presses'[p].page = presses[p].page /\ presses'[p].built = presses[p].built
      BY <2>3, AsideFields
    <3>2. CASE presses[p].pc = "show"
      <4>1. GoodPanel(presses[p].built, order', status')
        BY <2>0, <3>2, PanelsStay DEF GoodPress, ShapedPress
      <4> QED BY <3>1, <3>2, <4>1 DEF GoodPress
    <3>3. CASE presses[p].pc \in {"look", "update", "notify", "list"}
      BY <2>2, <3>1, <3>3
    <3>4. CASE presses[p].pc = "idle"
      BY <3>1, <3>4 DEF GoodPress
    <3> QED BY <2>0, <3>2, <3>3, <3>4 DEF ShapedPress, PressStates
  <2>4. CASE presses'[p].pc = "list" /\ presses'[p].chat = NoChat
    BY <2>4 DEF GoodPress
  <2>5. CASE /\ PressToggle(p) /\ presses'[p].pc = "look"
             /\ \E m \in Messages : panels[m] # NoPanel /\ \E b \in panels[m].buttons :
                  presses'[p].chat = b.chat /\ presses'[p].page = panels[m].page
    <3>1. PICK m, b :
                 /\ m \in Messages /\ panels[m] # NoPanel /\ b \in panels[m].buttons
                 /\ presses'[p].chat = b.chat /\ presses'[p].page = panels[m].page
      BY <2>5
    <3>2. panels[m] \in Panels /\ GoodPanel(panels[m], order, status)
      BY <3>1 DEF TypeInv, TypeOK, RowInv, PanelInv
    <3>3. GoodPanel(panels[m], order', status')
      BY <3>2, PanelsStay
    <3> QED BY <2>5, <3>1, <3>3 DEF GoodPress, GoodPanel
  <2>6. CASE /\ \/ Look(p) /\ presses'[p].pc = "update"
                \/ Update(p) /\ presses'[p].pc \in {"notify", "list"}
                \/ Notify(p) /\ presses'[p].pc = "list"
             /\ presses'[p].chat = presses[p].chat /\ presses'[p].page = presses[p].page
    <3>1. presses[p].pc \in {"look", "update", "notify"}
      BY <2>6 DEF Look, Update, Notify
    <3> QED BY <2>2, <2>6, <3>1
  <2>7. CASE /\ List(p) /\ presses'[p].pc = "show"
             /\ presses'[p].built = BuildPanel(presses[p].page)
    <3>1. presses[p].page \in Pages
      BY <2>0 DEF ShapedPress, PressStates
    <3>2. PICK built \in Panels : GoodPanel(built, order, status)
                                   /\ built = BuildPanel(presses[p].page)
      BY <3>1, PanelsBuilt, BuiltTypes DEF TypeInv, TypeOK, RowInv
    <3>3. GoodPanel(built, order', status')
      BY <3>2, PanelsStay
    <3> QED BY <2>7, <3>2, <3>3 DEF GoodPress
  <2>8. Die => presses'[p] = IdlePress
    BY DEF Die
  <2>9. CASE PressNext(p)
    BY <2>1, <2>4, <2>5, <2>6, <2>7, <2>9, OwnFields
  <2> QED BY <2>1, <2>3, <2>8, <2>9, PressSteps
<1>2. ASSUME NEW m \in Messages, panels'[m] # NoPanel
      PROVE  GoodPanel(panels'[m], order', status')
  <2>1. CASE panels'[m] = panels[m]
    <3>1. panels[m] \in Panels /\ GoodPanel(panels[m], order, status)
      BY <1>2, <2>1 DEF TypeInv, TypeOK, RowInv, PanelInv
    <3> QED BY <2>1, <3>1, PanelsStay
  <2>2. ASSUME NEW p \in Presses, Show(p), panels'[m] # panels[m]
        PROVE  GoodPanel(panels'[m], order', status')
    <3>1. panels'[m] = presses[p].built /\ presses[p].pc = "show"
      BY <2>2 DEF Show, TypeInv, TypeOK
    <3>2. presses[p].built \in Panels /\ GoodPanel(presses[p].built, order, status)
      BY <3>1 DEF TypeInv, PressShape, RowInv, PanelInv, GoodPress
    <3> QED BY <3>1, <3>2, PanelsStay
  <2>3. panels' = panels \/ \E p \in Presses : Show(p)
    BY DEF Next, HandlerNext, Receive, Get, Insert, Reread, Refresh, Gate, Serve, HandlerError,
           PressNext, OpenPanel, PressPage, PressToggle, Pressed, Look, Update, Write, Notify,
           List, PressError, Die, vars
  <2> QED BY <2>1, <2>2, <2>3
<1> QED BY <1>1, <1>2 DEF PanelInv

\* At the start nothing is listed and there is no panel.
LEMMA RowInit == Init => RowInv
BY DEF Init, RowInv, RowPerChat, PanelInv, GoodPress, IdlePress

\* Typing and the rows' invariant hold together in every state.
LEMMA RowAlways == Spec => [](TypeInv /\ RowInv)
<1>1. TypeInv /\ RowInv /\ [Next]_vars => (TypeInv /\ RowInv)'
  BY TypeNext, RowNext, PanelNext DEF RowInv
<1> QED BY <1>1, TypeInit, RowInit, PTL DEF Spec

\* A chat never gets a second row, nor is a row ever missing from the list.
THEOREM OneRow == Spec => []RowPerChat
<1>1. TypeInv /\ RowInv => RowPerChat
  BY DEF RowInv
<1> QED BY <1>1, RowAlways, PTL

\* Every listed chat is on one page of the panel, whatever the page size.
THEOREM Paging == Spec => []PagesCover
<1>1. TypeInv /\ RowInv => PagesCover
  <2>1. SUFFICES ASSUME TypeInv PROVE PagesCover
    OBVIOUS
  <2>2. Len(order) \in Nat
    BY <2>1 DEF TypeInv, TypeOK
  <2> QED BY <2>2, Covering DEF PagesCover
<1> QED BY <1>1, RowAlways, PTL

\* A page button of any panel, however old, leads to the page it names.
THEOREM Leading == Spec => []PageButtonsLead
<1>1. TypeInv /\ RowInv => PageButtonsLead
  <2>1. SUFFICES ASSUME TypeInv, RowInv, NEW m \in Messages, panels[m] # NoPanel,
                        NEW page \in PageButtons(panels[m])
                 PROVE  NormalizePage(page, CalcTotalPages(Len(order))) = page
    BY DEF PageButtonsLead
  <2>2. panels[m] \in Panels /\ GoodPanel(panels[m], order, status)
    BY <2>1 DEF TypeInv, TypeOK, RowInv, PanelInv
  <2>3. /\ page \in Nat /\ 1 <= page /\ page <= panels[m].total
        /\ panels[m].total \in Pages
    BY <2>2 DEF PageButtons, Panels, Pages
  <2>4. CalcTotalPages(Len(order)) \in Pages
    BY <2>1, LastPage DEF TypeInv, TypeOK, CalcTotalPages, Pages
  <2> QED BY <2>2, <2>3, <2>4 DEF NormalizePage, GoodPanel, Pages
<1> QED BY <1>1, RowAlways, PTL

-----------------------------------------------------------------------------
(* Approval.                                                               *)

ApprovalInv ==
  /\ \A c \in Chats : status[c] = "active" => c \in approved
  /\ \A h \in Handlers :
       /\ handlers[h].read = "active" => handlers[h].chat \in approved
       /\ handlers[h].pc = "serve" => handlers[h].read = "active"

\* Only a press makes a status active, and a message believes only a
\* status it has read.
LEMMA ApprovalNext ==
  ASSUME TypeInv, ApprovalInv, [Next]_vars
  PROVE  ApprovalInv'
<1> USE DEF TypeInv, TypeOK
<1> DEFINE R(h) == /\ handlers'[h].read = "active" => handlers'[h].chat \in approved'
                   /\ handlers'[h].pc = "serve" => handlers'[h].read = "active"
<1>1. ASSUME NEW h \in Handlers, HandlerNext(h) PROVE ApprovalInv'
  <2>1. \A g \in Handlers : g # h => handlers'[g] = handlers[g]
    BY <1>1 DEF HandlerNext, Receive, Get, Insert, Reread, Refresh, Gate, Serve, HandlerError,
                HandlerStep
  <2>2. approved' = approved
    BY <1>1 DEF HandlerNext, Receive, Get, Insert, Reread, Refresh, Gate, Serve, HandlerError
  <2>3. \A c \in Chats : status'[c] = "active" => c \in approved'
    BY <1>1, <2>2 DEF HandlerNext, Receive, Get, Insert, Reread, Refresh, Gate, Serve,
                      HandlerError, rows, ApprovalInv
  <2>4. CASE \E c \in Chats, p \in Profiles : Receive(h, c, p)
    BY <2>1, <2>2, <2>3, <2>4 DEF Receive, HandlerStep, IdleHandler, ApprovalInv
  <2>5. CASE Get(h)
    BY <2>1, <2>2, <2>3, <2>5 DEF Get, HandlerStep, HandlerStates, ApprovalInv, HandlerShape
  <2>6. CASE Insert(h) \/ Serve(h) \/ HandlerError(h)
    <3>1. \/ handlers'[h] = IdleHandler
          \/ handlers'[h] = [handlers[h] EXCEPT !.pc = "reread"]
      BY <2>6 DEF Insert, Serve, HandlerError, HandlerStep
    <3>2. R(h)
      BY <2>2, <3>1 DEF IdleHandler, HandlerStates, ApprovalInv
    <3> QED BY <2>1, <2>2, <2>3, <3>2 DEF ApprovalInv
  <2>7. CASE Reread(h) \/ Refresh(h)
    <3>1. \/ /\ handlers'[h] = [handlers[h] EXCEPT !.pc = "gate", !.read = status[handlers[h].chat]]
             /\ handlers[h].pc # "idle"
          \/ handlers'[h] = [handlers[h] EXCEPT !.pc = "gate"]
      BY <2>7 DEF Reread, Refresh, HandlerStep
    <3>2. handlers[h].chat \in Chats
      BY <2>7 DEF Reread, Refresh, HandlerShape
    <3>3. handlers'[h].chat = handlers[h].chat /\ handlers'[h].pc = "gate"
      BY <3>1 DEF HandlerStates
    <3>4. handlers'[h].read \in {handlers[h].read, status[handlers[h].chat]}
      BY <3>1 DEF HandlerStates
    <3>5. R(h)
      BY <2>2, <3>2, <3>3, <3>4 DEF ApprovalInv
    <3> QED BY <2>1, <2>2, <2>3, <3>5 DEF ApprovalInv
  <2>8. CASE Gate(h)
    BY <2>1, <2>2, <2>3, <2>8 DEF Gate, HandlerStep, IdleHandler, HandlerStates, ApprovalInv
  <2> QED BY <1>1, <2>4, <2>5, <2>6, <2>7, <2>8 DEF HandlerNext
<1>2. ASSUME NEW p \in Presses, PressNext(p) PROVE ApprovalInv'
  <2>1. handlers' = handlers
    BY <1>2 DEF PressNext, OpenPanel, PressPage, PressToggle, Pressed, Look, Update, Write,
                Notify, List, Show, PressError
  <2>2. CASE Update(p)
    <3>1. approved \subseteq approved'
      BY <2>2 DEF Update, Write
    <3>2. \A c \in Chats : status'[c] = "active" => c \in approved'
      BY <2>2 DEF Update, Write, ApprovalInv
    <3> QED BY <2>1, <3>1, <3>2 DEF ApprovalInv
  <2>3. CASE ~Update(p)
    <3>1. status' = status /\ approved' = approved
      BY <1>2, <2>3 DEF PressNext, OpenPanel, PressPage, PressToggle, Pressed, Look, Notify, List,
                        Show, PressError, rows
    <3> QED BY <2>1, <3>1 DEF ApprovalInv
  <2> QED BY <2>2, <2>3
<1>3. CASE Die
  BY <1>3 DEF Die, rows, IdleHandler, ApprovalInv
<1>4. CASE UNCHANGED vars
  BY <1>4 DEF vars, rows, ApprovalInv
<1> QED BY <1>1, <1>2, <1>3, <1>4 DEF Next

\* Approval holds in every state, beside the types and the rows.
LEMMA ApprovalAlways == Spec => [](TypeInv /\ RowInv /\ ApprovalInv)
<1>1. Init => ApprovalInv
  BY DEF Init, ApprovalInv, IdleHandler
<1>2. TypeInv /\ RowInv /\ ApprovalInv /\ [Next]_vars => ApprovalInv'
  BY ApprovalNext
<1> QED BY <1>1, <1>2, RowAlways, PTL DEF Spec

\* Nothing is ever done for a chat that no admin has switched on.
THEOREM Approval == Spec => []ServedApproved
<1>1. TypeInv /\ RowInv /\ ApprovalInv => ServedApproved
  BY DEF ApprovalInv, ServedApproved
<1> QED BY <1>1, ApprovalAlways, PTL

-----------------------------------------------------------------------------
(* What a press knows of its chat's row: what it read, while no other press *)
(* has written it, and of a chat never let in before, that it was not.     *)

KnowsRow(p) ==
  presses[p].pc = "update" =>
    /\ ~presses[p].raced => presses[p].wasInactive = (status[presses[p].chat] = "inactive")
    /\ presses[p].chat \notin approved => presses[p].wasInactive

ShowsRow(p) ==
  presses[p].pc = "show" /\ presses[p].chat # NoChat /\ ~presses[p].raced =>
    [chat |-> presses[p].chat, to |-> Flip(status[presses[p].chat])] \in presses[p].built.buttons

\* A press that is met by another's step knows no less than before.
LEMMA KnowledgeStays ==
  ASSUME TypeInv, RowInv, [Next]_vars, NEW p \in Presses, Aside(p), KnowsRow(p), ShowsRow(p)
  PROVE  KnowsRow(p)' /\ ShowsRow(p)'
<1>1. /\ presses'[p].pc = presses[p].pc /\ presses'[p].chat = presses[p].chat
      /\ presses'[p].built = presses[p].built
      /\ presses'[p].wasInactive = presses[p].wasInactive
      /\ ~presses'[p].raced => ~presses[p].raced
  BY AsideFields
<1>2. approved \subseteq approved'
  BY DEF Next, HandlerNext, Receive, Get, Insert, Reread, Refresh, Gate, Serve, HandlerError,
         PressNext, OpenPanel, PressPage, PressToggle, Pressed, Look, Update, Write, Notify,
         List, Show, PressError, Die, vars
<1>3. ASSUME ~presses'[p].raced, presses[p].pc \in {"update", "show"},
             presses[p].chat \in Chats, status[presses[p].chat] # "none"
      PROVE  status'[presses[p].chat] = status[presses[p].chat]
  <2>1. \A q \in Presses : Update(q) => presses[q].chat # presses[p].chat
    BY <1>3, AsideFields
  <2> QED BY <1>3, <2>1, StatusStays
<1>4. KnowsRow(p)'
  <2> SUFFICES ASSUME presses'[p].pc = "update"
               PROVE  /\ ~presses'[p].raced =>
                           presses'[p].wasInactive = (status'[presses'[p].chat] = "inactive")
                      /\ presses'[p].chat \notin approved' => presses'[p].wasInactive
    BY DEF KnowsRow
  <2>1. presses[p].chat \in Chats /\ status[presses[p].chat] # "none"
    BY <1>1 DEF TypeInv, PressShape, RowInv, PanelInv, GoodPress
  <2>2. ~presses'[p].raced => status'[presses[p].chat] = status[presses[p].chat]
    BY <1>1, <1>3, <2>1
  <2> QED BY <1>1, <1>2, <2>2 DEF KnowsRow
<1>5. ShowsRow(p)'
  <2> SUFFICES ASSUME presses'[p].pc = "show", presses'[p].chat # NoChat, ~presses'[p].raced
               PROVE  [chat |-> presses'[p].chat, to |-> Flip(status'[presses'[p].chat])]
                        \in presses'[p].built.buttons
    BY DEF ShowsRow
  <2>1. [chat |-> presses[p].chat, to |-> Flip(status[presses[p].chat])]
          \in presses[p].built.buttons
    BY <1>1 DEF ShowsRow
  <2>2. presses[p].built \in Panels /\ GoodPanel(presses[p].built, order, status)
    BY <1>1 DEF TypeInv, PressShape, RowInv, PanelInv, GoodPress
  <2>3. PICK b \in presses[p].built.buttons : b.chat = presses[p].chat
    BY <2>1
  <2>4. presses[p].chat \in Chats /\ status[presses[p].chat] # "none"
    BY <2>2, <2>3 DEF GoodPanel, Panels, Buttons
  <2>5. status'[presses[p].chat] = status[presses[p].chat]
    BY <1>1, <1>3, <2>4
  <2> QED BY <1>1, <2>1, <2>5
<1> QED BY <1>4, <1>5

PressInv == \A p \in Presses : KnowsRow(p) /\ ShowsRow(p)

\* Every step keeps what the presses know.
LEMMA KnowledgeNext ==
  ASSUME TypeInv, RowInv, ApprovalInv, PressInv, [Next]_vars
  PROVE  PressInv'
<1> SUFFICES ASSUME NEW p \in Presses PROVE KnowsRow(p)' /\ ShowsRow(p)'
  BY DEF PressInv
<1>0. /\ presses[p] \in PressStates /\ presses \in [Presses -> PressStates]
      /\ ShapedPress(presses[p]) /\ GoodPress(presses[p], order, status)
  BY DEF TypeInv, TypeOK, PressShape, ShapedPress, RowInv, PanelInv
<1>1. CASE presses'[p].pc \notin {"update", "show"}
  BY <1>1 DEF KnowsRow, ShowsRow
<1>2. CASE Aside(p)
  BY <1>2, KnowledgeStays DEF PressInv
<1>3. CASE Look(p)
  <2>1. PICK was \in BOOLEAN : was = (status[presses[p].chat] = "inactive")
    OBVIOUS
  <2>2. presses'[p] = [presses[p] EXCEPT !.pc = "update", !.wasInactive = was]
    BY <1>0, <1>3, <2>1 DEF Look, PressStep
  <2>3. /\ presses'[p].pc = "update" /\ presses'[p].chat = presses[p].chat
        /\ presses'[p].wasInactive = was
    BY <1>0, <2>2 DEF PressStates
  <2>4. presses[p].chat \in Chats /\ status[presses[p].chat] # "none"
    BY <1>0, <1>3 DEF Look, ShapedPress, GoodPress
  <2>5. presses[p].chat \notin approved => status[presses[p].chat] = "inactive"
    BY <2>4 DEF ApprovalInv, TypeInv, TypeOK, Statuses
  <2>6. status' = status /\ approved' = approved
    BY <1>3 DEF Look, rows
  <2> QED BY <2>1, <2>3, <2>5, <2>6 DEF KnowsRow, ShowsRow
<1>4. CASE List(p) /\ presses'[p].pc = "show" /\ presses'[p].chat = presses[p].chat
           /\ presses'[p].built = BuildPanel(presses[p].page)
  <2>1. presses[p].page \in Pages /\ presses[p].pc = "list"
    BY <1>0, <1>4 DEF PressStates, List
  <2>2. presses[p].chat # NoChat => OnPage(order, presses[p].page, presses[p].chat)
    BY <1>0, <2>1 DEF GoodPress
  <2>3. presses[p].chat # NoChat =>
          [chat |-> presses[p].chat, to |-> Flip(status[presses[p].chat])]
             \in BuildPanel(presses[p].page).buttons
    BY <2>1, <2>2, PanelsBuilt DEF RowInv
  <2>4. status' = status
    BY <1>4 DEF List, rows
  <2> QED BY <1>4, <2>3, <2>4 DEF KnowsRow, ShowsRow
<1>5. CASE Die
  BY <1>1, <1>5 DEF Die, IdlePress
<1>6. CASE PressNext(p)
  <2>1. IdlePress.pc = "idle"
    BY DEF IdlePress
  <2> QED BY <1>1, <1>3, <1>4, <1>6, <2>1, OwnFields
<1> QED BY <1>2, <1>5, <1>6, PressSteps

\* At the start there is no press.
LEMMA PressAlways == Spec => [](TypeInv /\ RowInv /\ ApprovalInv /\ PressInv)
<1>1. Init => PressInv
  BY DEF Init, PressInv, KnowsRow, ShowsRow, IdlePress
<1>2. TypeInv /\ RowInv /\ ApprovalInv /\ PressInv /\ [Next]_vars => PressInv'
  BY KnowledgeNext
<1> QED BY <1>1, <1>2, ApprovalAlways, PTL DEF Spec

\* A press of a chat's button shows the page of that chat and the button of what
\* it is not, on however old a panel and however many presses overlap, unless one
\* of them has switched the chat since the rows were listed.
THEOREM Fresh == Spec => []PanelFresh
<1>1. PressInv => PanelFresh
  BY DEF PressInv, ShowsRow, PanelFresh
<1> QED BY <1>1, PressAlways, PTL

\* The step that lets a chat in goes on to send the approval message into it: the
\* first time always, later unless another press has written the row in between.
THEOREM Announcement == Spec => ActivationAnnounced
<1>1. TypeInv /\ RowInv /\ ApprovalInv /\ PressInv /\ [Next]_vars => AnnouncesSwitch
  <2> SUFFICES ASSUME TypeInv, PressInv, [Next]_vars, NEW p \in Presses, SwitchesOn(p),
                      ~(presses[p].raced /\ presses[p].chat \in approved)
               PROVE  presses'[p].pc = "notify"
    BY DEF AnnouncesSwitch
  <2>1. /\ presses[p].pc = "update" /\ presses[p] \in PressStates /\ presses[p].chat \in Chats
        /\ presses'[p].pc \in {"notify", "list"}
    BY DEF SwitchesOn, TypeInv, TypeOK, PressShape
  <2>2. ~Aside(p) /\ ~Die
    BY <2>1, AsideFields DEF Die, IdlePress
  <2>3. PressNext(p)
    BY <2>2, PressSteps
  <2>4. Update(p)
    BY <2>1, <2>3 DEF PressNext, OpenPanel, PressPage, PressToggle, Pressed, Look, Notify, List,
                      Show, PressError, PressStep, IdlePress, TypeInv, TypeOK
  <2>5. presses[p].wasInactive
    BY <2>1 DEF PressInv, KnowsRow, SwitchesOn
  <2>6. presses[p].to = "active"
    BY <2>1, <2>4 DEF Update, Write, SwitchesOn, TypeInv, TypeOK
  <2>7. Write(p, "notify")
    BY <2>4, <2>5, <2>6 DEF Update
  <2>8. presses'[p] = [presses[p] EXCEPT !.pc = "notify", !.to = "none", !.wasInactive = FALSE,
                                         !.raced = FALSE]
    BY <2>7 DEF Write
  <2> QED BY <2>1, <2>8 DEF PressStates
<1> QED BY <1>1, PressAlways, PTL DEF Spec, ActivationAnnounced

=============================================================================
