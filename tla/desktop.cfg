SPECIFICATION DesktopSpec
CONSTANTS
  Names <- MCNames
  NoName = NoName
  NoMeta = NoMeta
  MaxDepth = 6
  Versions <- MCVersions
  Scenarios <- DesktopScenarios
  Archive <- MCArchive
  Spelling <- MCSpelling
  Letters <- MCLetters
  Lower <- MCLower
  Bytes <- MCBytes
  MaxSize = 4000
  MaxTime = 4000
  DayLength = 10
  Now = 2998
  Offset <- MCOffset
  Dates <- MCDates
INVARIANTS
  ShowsUnscanned StaysLoadable CoalescingIsSafeUnrenamed BatchTellsAll RowsAnswerQuery ExactFirst SelectionShown
PROPERTIES
  OpensShown
CHECK_DEADLOCK FALSE
