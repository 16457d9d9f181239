\* Nine commands and eleven constructs; three pieces to a line.
CONSTANTS
  Absent = Absent
  Byte = 4
  Lower <- MCLower
  Canonical6 <- MCCanonical6
  MaxDepth = 1
  MaxSpellings = 2
  Home <- MCHome
  Glob <- MCGlob
  Beneath <- MCBeneath
  Risky = {}
  Commands <- MCCommands
  Typed <- NAS
  Spelled <- MCSpelled
  Reading <- MCReading
  Cleaned <- Clean
  Effects <- MCEffects
  Unreadable <- MCUnreadable
  Undetermined <- Astray
  Calls <- MCCalls
  Directories <- MCDirectories
  Process <- MCHere
  Repository <- MCRepository
  MaxPieces = 3
  MaxOpen = 2
  Now = 1
SPECIFICATION HookSpec
INVARIANTS ReadsWhatRuns AllowedIsJudged
CHECK_DEADLOCK FALSE
