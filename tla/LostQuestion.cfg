SPECIFICATION Spec
CONSTANTS
  KeepRecent <- MCKeepRecent
  MaxTokens <- MCMaxTokens
  Size <- MCSize
  SummaryWords <- MCSummaryWords
  MaxMessages <- MCMaxMessages
  MaxCalls <- MCMaxCalls
  Parallel <- MCParallel
  Vendors = {google, anthropic}
  Strict = {google}
  Unknown = Unknown
INVARIANT QuestionIsKept
CHECK_DEADLOCK FALSE
