SPECIFICATION Spec
CONSTANTS
  Histories <- MCHistories
  Prompts <- MCPrompts
  Chunks <- MCChunks
  Answers <- MCAnswers
  Payloads <- MCPayloads
  MaxHistoryMessages = 3
  MaxHistoryChars = 4
  MaxToolIterations = 2
  MaxChunks = 4
  MaxTokens = 8
  MaxNesting = 1
  MaxExponent = 3
  MaxMagnitude = 100
INVARIANTS HistoryWindow VisibleText DeliveredIsHonest ToldTheTruth
CHECK_DEADLOCK FALSE
