SPECIFICATION CallsSpec
CONSTANTS
  Chunks <- MCChunks
  MaxSize <- MCMaxSize
  MaxTokens <- MCMaxTokens
  Drawn = {"drawn"}
  Requests <- MCRequests
  Text <- TextOfRequest
  Byte <- Int
  Junk = Junk
  Nil = Nil
INVARIANTS
  EscapeReadsBack
  LineReadsBack
  StripsToPlain
  StylesMeanWhatTheyMark
  TwinReadsAlike
  CallInv
PROPERTY
  DrawnWholeOrNotAtAll
CHECK_DEADLOCK FALSE
