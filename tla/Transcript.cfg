SPECIFICATION Spec
CONSTANTS
  KeepRecent <- MCKeepRecent
  MaxTokens <- MCMaxTokens
  Size <- MCSize
  SummaryWords <- MCSummaryWords
  MaxMessages <- MCMaxMessages
  MaxCalls <- MCMaxCalls
  Parallel <- MCParallel
  Vendors = {google, anthropic}
  Strict = {google}
  Unknown = Unknown
INVARIANTS
  CallsKeepResults
  EndsAreVerbatim
  OutputsSurvive
  AttachmentsArrive
CHECK_DEADLOCK FALSE
