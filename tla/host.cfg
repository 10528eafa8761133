SPECIFICATION Spec
CONSTANTS
  DefaultPort <- MCDefaultPort
  Releases <- MCReleases
  NoFile = NoFile
  Digits = {9}
  MaxDigits = 1
  MaxPort = 6
  HeadlessPorts = {4}
  Key = Key
  NoKey = NoKey
  Absent = Absent
  Torn = Torn
  Stopped = Stopped
INVARIANTS ConfirmedIsServed ProgramsFit
PROPERTY UpdateIsUpgrade
