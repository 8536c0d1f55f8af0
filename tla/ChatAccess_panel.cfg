SPECIFICATION Spec
CONSTANTS
  c1 = c1
  c2 = c2
  c3 = c3
  p1 = p1
  p2 = p2
  h1 = h1
  h2 = h2
  a1 = a1
  a2 = a2
  m1 = m1
  m2 = m2
  NoChat = NoChat
  NoProfile = NoProfile
  NoPanel = NoPanel
  NoMessage = NoMessage
  Chats = {c1, c2, c3}
  Profiles = {p1, p2}
  Handlers = {h1, h2}
  Presses = {a1, a2}
  Messages = {m1, m2}
  PageSize = 2
  Fails = TRUE
SYMMETRY Symmetry
CONSTRAINT Bound
INVARIANT TypeOK
INVARIANT RowPerChat
INVARIANT ServedApproved
INVARIANT PagesCover
INVARIANT PageButtonsLead
INVARIANT PanelFresh
PROPERTY ActivationAnnounced
