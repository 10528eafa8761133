SPECIFICATION FairSpec
CONSTANTS
  Modes = {proxy}
  Files <- MCFiles
  NoFile = NoFile
  MaxInputs = 2
INVARIANTS TypeOK DownHasACause
PROPERTIES LoginEntryKept MenuSettles
