SPECIFICATION FairSpec
CONSTANTS
  Inodes = {i1, i2}
  NoFile = NoFile
  MaxFiles = 2
  Texts <- MCTexts
  PolicyDeference = TRUE
  ExecConfirm = TRUE
  ExecDisplay = FALSE
INVARIANTS
  PinExactlyWhileAsked
  EuidScoped
  SheetIsTheCallersOwn
  MarkerTellsThisCommand
  AllowHasGround
  QuestionNotBlind
PROPERTIES
  ApprovedFileRuns
  CancelIsFinal
  ImplementsGate
  CheckReturns
