----------------------------- MODULE ChatAccess -----------------------------
(***************************************************************************)
(* Who may talk to the bot: the chats table, the handlers that record a    *)
(* chat and let it in or ask it to wait (EnsureCurrentChat,                *)
(* RequireResolvedActiveChat), and the admins' control panel, whose        *)
(* buttons switch chats on and off.                                        *)
(*                                                                         *)
(* telebot runs every update in a goroutine of its own, so messages of one *)
(* chat overlap, and so do presses, of one admin or of several. A panel is *)
(* a Telegram message, and every /chats sends one more: each shows what was *)
(* listed when it was last edited, and its buttons can be pressed long     *)
(* after, or after a restart. Whose panel it is changes nothing: the same  *)
(* rows are behind all of them.                                            *)
(***************************************************************************)
EXTENDS Naturals, Sequences

CONSTANTS
  Chats,      \* Telegram chats that may write to the bot
  Profiles,   \* titles and usernames a chat may have
  Handlers,   \* messages that may be in progress at once
  Presses,    \* bound: presses and /chats commands of the admins in progress at once
  Messages,   \* bound: panel messages in the admins' chats
  PageSize,   \* chatsPageSize
  Fails,      \* whether the database and Telegram may fail
  NoChat, NoProfile, NoPanel, NoMessage

ASSUME PageSizeAssumption == PageSize \in Nat \ {0}
ASSUME FailsAssumption == Fails \in BOOLEAN
ASSUME NullsAssumption ==
  NoChat \notin Chats /\ NoProfile \notin Profiles /\ NoMessage \notin Messages

VARIABLES
  order,      \* the rows' chats as List orders them: by creation
  status,     \* per chat: "none" while it has no row, "inactive" or "active"
  profile,    \* per chat: the stored profile
  handlers,   \* the messages in progress
  presses,    \* the presses in progress
  panels,     \* per message: the panel it shows
  approved    \* auxiliary: the chats an admin has ever switched on

rows == <<order, status, profile>>
vars == <<rows, handlers, presses, panels, approved>>

Statuses == {"inactive", "active"}
Flip(s) == IF s = "active" THEN "inactive" ELSE "active"
Buttons == [chat : Chats, to : Statuses]

\* page and total as printed, and the buttons that switch a chat.
Panel(page, total, buttons) == [page |-> page, total |-> total, buttons |-> buttons]
Pages == Nat \ {0}
Panels == [page : Pages, total : Pages, buttons : SUBSET Buttons]

HandlerStates == [pc : {"idle", "get", "insert", "reread", "refresh", "gate", "serve"},
                  chat : Chats \cup {NoChat}, profile : Profiles \cup {NoProfile},
                  read : {"none"} \cup Statuses]
\* raced is auxiliary: another press has switched the chat since this one last
\* read the rows.
PressStates == [pc : {"idle", "look", "update", "notify", "list", "show"},
                message : Messages \cup {NoMessage}, chat : Chats \cup {NoChat},
                to : {"none"} \cup Statuses, page : Pages, wasInactive : BOOLEAN,
                built : Panels \cup {NoPanel}, raced : BOOLEAN]

IdleHandler == [pc |-> "idle", chat |-> NoChat, profile |-> NoProfile, read |-> "none"]
IdlePress == [pc |-> "idle", message |-> NoMessage, chat |-> NoChat, to |-> "none", page |-> 1,
              wasInactive |-> FALSE, built |-> NoPanel, raced |-> FALSE]

Init ==
  /\ order = <<>>
  /\ status = [c \in Chats |-> "none"]
  /\ profile = [c \in Chats |-> NoProfile]
  /\ handlers = [h \in Handlers |-> IdleHandler]
  /\ presses = [p \in Presses |-> IdlePress]
  /\ panels = [m \in Messages |-> NoPanel]
  /\ approved = {}

-----------------------------------------------------------------------------
(* A message, /start or /clear_context of a chat.                          *)

HandlerStep(h, record) == handlers' = [handlers EXCEPT ![h] = record]

\* An update arrives with the profile the chat has at that moment.
Receive(h, c, p) ==
  /\ handlers[h].pc = "idle"
  /\ HandlerStep(h, [IdleHandler EXCEPT !.pc = "get", !.chat = c, !.profile = p])
  /\ UNCHANGED <<rows, presses, panels, approved>>

\* GetByTGID: no row, a row with another profile, or the row as it should be.
Get(h) ==
  /\ handlers[h].pc = "get"
  /\ LET c == handlers[h].chat IN
       HandlerStep(h,
         IF status[c] = "none" THEN [handlers[h] EXCEPT !.pc = "insert"]
         ELSE [handlers[h] EXCEPT !.read = status[c],
                 !.pc = IF profile[c] = handlers[h].profile THEN "gate" ELSE "refresh"])
  /\ UNCHANGED <<rows, presses, panels, approved>>

\* Mutant: tg_id is not UNIQUE.
InsertAgain(h) ==
  /\ handlers[h].pc = "insert"
  /\ LET c == handlers[h].chat IN
       /\ order' = Append(order, c)
       /\ status' = [status EXCEPT ![c] = "inactive"]
       /\ profile' = [profile EXCEPT ![c] = handlers[h].profile]
  /\ HandlerStep(h, [handlers[h] EXCEPT !.pc = "reread"])
  /\ UNCHANGED <<presses, panels, approved>>

\* ChatsRepo.Create, first statement: INSERT; tg_id is UNIQUE, so it fails when
\* another message of the chat has made the row since.
Insert(h) ==
  /\ handlers[h].pc = "insert"
  /\ LET c == handlers[h].chat IN
       IF status[c] # "none"
       THEN HandlerStep(h, IdleHandler) /\ UNCHANGED rows
       ELSE /\ order' = Append(order, c)
            /\ status' = [status EXCEPT ![c] = "inactive"]
            /\ profile' = [profile EXCEPT ![c] = handlers[h].profile]
            /\ HandlerStep(h, [handlers[h] EXCEPT !.pc = "reread"])
  /\ UNCHANGED <<presses, panels, approved>>

\* ChatsRepo.Create, second statement: GetByID of the new row.
Reread(h) ==
  /\ handlers[h].pc = "reread"
  /\ HandlerStep(h, [handlers[h] EXCEPT !.pc = "gate", !.read = status[handlers[h].chat]])
  /\ UNCHANGED <<rows, presses, panels, approved>>

\* UpdateProfile: the columns of the profile alone; the status read stays as read.
Refresh(h) ==
  /\ handlers[h].pc = "refresh"
  /\ profile' = [profile EXCEPT ![handlers[h].chat] = handlers[h].profile]
  /\ HandlerStep(h, [handlers[h] EXCEPT !.pc = "gate"])
  /\ UNCHANGED <<order, status, presses, panels, approved>>

\* Mutant: after asking the chat to wait the handler goes on.
GateOpen(h) ==
  /\ handlers[h].pc = "gate"
  /\ HandlerStep(h, [handlers[h] EXCEPT !.pc = "serve"])
  /\ UNCHANGED <<rows, presses, panels, approved>>

\* RequireResolvedActiveChat: an inactive chat is asked to wait and the message
\* is done with, sent or not; an active one is let in.
Gate(h) ==
  /\ handlers[h].pc = "gate"
  /\ HandlerStep(h, IF handlers[h].read = "active"
                    THEN [handlers[h] EXCEPT !.pc = "serve"] ELSE IdleHandler)
  /\ UNCHANGED <<rows, presses, panels, approved>>

\* What the handler does for an active chat, until it returns.
Serve(h) ==
  /\ handlers[h].pc = "serve"
  /\ HandlerStep(h, IdleHandler)
  /\ UNCHANGED <<rows, presses, panels, approved>>

\* A statement fails; the bot's error handler reports it.
HandlerError(h) ==
  /\ Fails /\ handlers[h].pc \in {"get", "insert", "reread", "refresh"}
  /\ HandlerStep(h, IdleHandler)
  /\ UNCHANGED <<rows, presses, panels, approved>>

-----------------------------------------------------------------------------
(* The control panel: pages of the listed chats.                           *)

\* Mutant: one page too many, when the last one is full.
CalcRoundedPages(n) == (n \div PageSize) + 1

\* calcTotalPages, normalizePage.
CalcTotalPages(n) ==
  IF n = 0 THEN 1
  ELSE (n \div PageSize) + (IF n % PageSize # 0 THEN 1 ELSE 0)

NormalizePage(page, total) ==
  IF page < 1 THEN 1 ELSE IF page > total THEN total ELSE page

\* sliceChatsPage: the positions of the list that are on a page.
PagePositions(n, page) ==
  {i \in 1..n : (page - 1) * PageSize < i /\ i <= page * PageSize}

\* Mutant: the page asked for is not clamped, and the total is not printed.
BuildUnclamped(asked) ==
  Panel(asked, asked + 1, {[chat |-> order[i], to |-> Flip(status[order[i]])] :
                             i \in PagePositions(Len(order), asked)})

\* buildChatsPanel of the rows there are: one SELECT, then the page asked for.
BuildPanel(asked) ==
  LET total == CalcTotalPages(Len(order))
      page == NormalizePage(asked, total)
  IN  Panel(page, total, {[chat |-> order[i], to |-> Flip(status[order[i]])] :
                            i \in PagePositions(Len(order), page)})

\* The pages the Prev and Next buttons ask for.
PageButtons(panel) ==
  {p \in {panel.page - 1, panel.page + 1} : 1 <= p /\ p <= panel.total}

-----------------------------------------------------------------------------
(* A press of an admin: /chats, a page button or a chat's button.          *)

PressStep(p, record) == presses' = [presses EXCEPT ![p] = record]

\* A press of a message's buttons, or of /chats when it has none yet: the
\* button says all that is known of it, whatever is done to the panel since.
Pressed(p, m, record) ==
  /\ presses[p].pc = "idle"
  /\ PressStep(p, [record EXCEPT !.message = m])
  /\ UNCHANGED <<rows, handlers, panels, approved>>

\* Mutant: the state of a new panel is the zero value.
OpenPanelZero(p) ==
  \E m \in Messages : /\ panels[m] = NoPanel /\ \A q \in Presses : presses[q].message # m
                      /\ Pressed(p, m, [IdlePress EXCEPT !.pc = "list", !.page = 0])

\* /chats sends a further panel, at its first page.
OpenPanel(p) ==
  \E m \in Messages : /\ panels[m] = NoPanel /\ \A q \in Presses : presses[q].message # m
                      /\ Pressed(p, m, [IdlePress EXCEPT !.pc = "list"])

PressPage(p) ==
  \E m \in Messages :
    /\ panels[m] # NoPanel
    /\ \E page \in PageButtons(panels[m]) :
         Pressed(p, m, [IdlePress EXCEPT !.pc = "list", !.page = page])

\* Mutant: the panel goes back to its first page.
PressToggleFirst(p) ==
  \E m \in Messages :
    /\ panels[m] # NoPanel
    /\ \E b \in panels[m].buttons :
         Pressed(p, m, [IdlePress EXCEPT !.pc = "look", !.chat = b.chat, !.to = b.to])

PressToggle(p) ==
  \E m \in Messages :
    /\ panels[m] # NoPanel
    /\ \E b \in panels[m].buttons :
         Pressed(p, m, [IdlePress EXCEPT !.pc = "look", !.chat = b.chat, !.to = b.to,
                                         !.page = panels[m].page])

\* updateTargetChatStatus, GetByTGID: rows are never deleted, so it is there.
Look(p) ==
  /\ presses[p].pc = "look"
  /\ PressStep(p, [presses[p] EXCEPT !.pc = "update",
                     !.wasInactive = (status[presses[p].chat] = "inactive")])
  /\ UNCHANGED <<rows, handlers, panels, approved>>

\* The row of p's chat is written, and p goes on with the chat and the page alone;
\* the presses that have read the row know it as it was.
Write(p, pc) ==
  LET c == presses[p].chat IN
  /\ status' = [status EXCEPT ![c] = presses[p].to]
  /\ approved' = IF presses[p].to = "active" THEN approved \cup {c} ELSE approved
  /\ presses' = [q \in Presses |->
       IF q = p
       THEN [presses[p] EXCEPT !.pc = pc, !.to = "none", !.wasInactive = FALSE, !.raced = FALSE]
       ELSE [presses[q] EXCEPT
               !.raced = @ \/ (presses[q].pc \in {"update", "show"} /\ presses[q].chat = c)]]
  /\ UNCHANGED <<order, profile, handlers, panels>>

\* Mutant: whether the chat was inactive is taken from the row just updated.
UpdateThenLook(p) == presses[p].pc = "update" /\ Write(p, "list")

\* updateTargetChatStatus, UpdateStatus, and notifyChatApproved's two returns.
Update(p) ==
  /\ presses[p].pc = "update"
  /\ Write(p, IF presses[p].wasInactive /\ presses[p].to = "active" THEN "notify" ELSE "list")

\* NotifyApproved: the approval message is sent.
Notify(p) ==
  /\ presses[p].pc = "notify"
  /\ PressStep(p, [presses[p] EXCEPT !.pc = "list"])
  /\ UNCHANGED <<rows, handlers, panels, approved>>

\* buildChatsPanel.
List(p) ==
  /\ presses[p].pc = "list"
  /\ PressStep(p, [presses[p] EXCEPT !.pc = "show", !.page = 1,
                     !.built = BuildPanel(presses[p].page)])
  /\ UNCHANGED <<rows, handlers, panels, approved>>

\* The panel is sent, or the message pressed is edited, whatever it shows by now;
\* "message is not modified" counts as success.
Show(p) ==
  /\ presses[p].pc = "show"
  /\ panels' = [panels EXCEPT ![presses[p].message] = presses[p].built]
  /\ PressStep(p, IdlePress)
  /\ UNCHANGED <<rows, handlers, approved>>

\* A statement, the approval message or the edit fails: the bot's error handler
\* reports it, and the panel stays as it was.
PressError(p) ==
  /\ Fails /\ presses[p].pc # "idle"
  /\ PressStep(p, IdlePress)
  /\ UNCHANGED <<rows, handlers, panels, approved>>

\* The process dies; rows and the panels in Telegram stay.
Die ==
  /\ Fails
  /\ handlers' = [h \in Handlers |-> IdleHandler]
  /\ presses' = [p \in Presses |-> IdlePress]
  /\ UNCHANGED <<rows, panels, approved>>

-----------------------------------------------------------------------------
HandlerNext(h) ==
  \/ \E c \in Chats, p \in Profiles : Receive(h, c, p)
  \/ Get(h) \/ Insert(h) \/ Reread(h) \/ Refresh(h) \/ Gate(h) \/ Serve(h) \/ HandlerError(h)

PressNext(p) ==
  \/ OpenPanel(p) \/ PressPage(p) \/ PressToggle(p) \/ Look(p) \/ Update(p) \/ Notify(p)
  \/ List(p) \/ Show(p) \/ PressError(p)

Next == \/ \E h \in Handlers : HandlerNext(h)
        \/ \E p \in Presses : PressNext(p)
        \/ Die

Spec == Init /\ [][Next]_vars

-----------------------------------------------------------------------------
(* Properties.                                                             *)

TypeOK ==
  /\ order \in Seq(Chats)
  /\ status \in [Chats -> {"none"} \cup Statuses]
  /\ profile \in [Chats -> Profiles \cup {NoProfile}]
  /\ handlers \in [Handlers -> HandlerStates]
  /\ presses \in [Presses -> PressStates]
  /\ panels \in [Messages -> Panels \cup {NoPanel}]
  /\ approved \subseteq Chats

\* A chat has one row, listed once, however its first messages overlap.
RowPerChat ==
  /\ \A i, j \in DOMAIN order : i # j => order[i] # order[j]
  /\ \A c \in Chats : status[c] # "none" <=> \E i \in DOMAIN order : order[i] = c

\* Nothing is done for a chat that no admin has ever switched on.
ServedApproved == \A h \in Handlers : handlers[h].pc = "serve" => handlers[h].chat \in approved

\* Every listed chat can be reached in the panel: it is on one page and on no
\* other, and no page is empty, so following Next from the first shows them all.
PagesCover ==
  LET n == Len(order)
      pages == 1..CalcTotalPages(n)
  IN  /\ \A i \in 1..n : \E p \in pages : i \in PagePositions(n, p)
      /\ \A p, q \in pages : p # q => PagePositions(n, p) \cap PagePositions(n, q) = {}
      /\ n # 0 => \A p \in pages : PagePositions(n, p) # {}

\* A page button leads to the page it names, however long ago its panel was
\* built: pages are never taken away, so nothing is clamped.
PageButtonsLead ==
  \A m \in Messages : panels[m] # NoPanel =>
    \A page \in PageButtons(panels[m]) : NormalizePage(page, CalcTotalPages(Len(order))) = page

\* A press of a chat's button, on however old a panel and after whatever
\* presses that failed, shows the page with that chat, and the button of what the
\* chat is not, unless another press has switched the chat since the rows were
\* listed.
PanelFresh ==
  \A p \in Presses :
    presses[p].pc = "show" /\ presses[p].chat # NoChat /\ ~presses[p].raced =>
      [chat |-> presses[p].chat, to |-> Flip(status[presses[p].chat])] \in presses[p].built.buttons

SwitchesOn(p) ==
  /\ presses[p].pc = "update" /\ presses'[p].pc \in {"notify", "list"}
  /\ status[presses[p].chat] = "inactive" /\ status'[presses[p].chat] = "active"

AnnouncesSwitch ==
  \A p \in Presses : SwitchesOn(p) =>
    presses'[p].pc = "notify" \/ (presses[p].raced /\ presses[p].chat \in approved)

\* "When an admin activates a chat [...] the bot sends an approval message" (README):
\* however presses overlap, a chat is not let in without it the first time, and later
\* only when another press has written its row since the press that lets it in read it.
ActivationAnnounced == [][AnnouncesSwitch]_vars

=============================================================================
