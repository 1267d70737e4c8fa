SPECIFICATION Spec
CONSTANTS
  Invocations <- MCInvocations
  Users <- MCUsers
  Dirs <- MCDirs
  Commands <- MCCommands
  BareNames <- MCBareNames
  Root = "root"
  Empty = Empty
  None = None
  Length <- MCLength
  CodeLength = 3
  Headline = FALSE
INVARIANTS
  SheetFits
  TranscriptInOrder
  TwinsShowTheSame
  MarkersBacked
PROPERTY
  NeverHoldsSudo
CHECK_DEADLOCK FALSE
