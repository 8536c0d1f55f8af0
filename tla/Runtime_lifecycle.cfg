SPECIFICATION FairSpec
CONSTANTS
  Absent = Absent
  NoConfig = NoConfig
  Ids = {1, 2}
  Files <- FewFiles
  Databases <- DatabaseStates
INVARIANT TypeOK
INVARIANT ServesWholeSchema
INVARIANT ServesChecked
INVARIANT AcceptedConfigBuilds
PROPERTY StartsOrEnds
PROPERTY SignalEnds
