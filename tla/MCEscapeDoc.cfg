SPECIFICATION CallsSpec
CONSTANTS
  Chunks <- PadChunks
  MaxSize <- PadMaxSize
  MaxTokens <- PadMaxTokens
  Drawn = {}
  Requests <- MCRequests
  Text <- TextOfRequest
  Byte <- Int
  Junk = Junk
  Nil = Nil
INVARIANT PaddingIsMarked
CHECK_DEADLOCK FALSE
