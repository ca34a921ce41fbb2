SPECIFICATION EverySpec
CONSTANTS
  Dictionary <- MCDictionary
  Spelling <- MCSpelling
  Alias <- MCAlias
  StopWords <- MCStopWords
  Letters = {1, 2}
  MaxLetters = 4
  Numerals <- MCNumerals
  Within <- MCWithin
  WordsOf <- MCWordsOf
  Requests <- MCRequests
  Steps <- MCSteps
  MaxSteps <- MCMaxSteps
  LaterSteps = 0
  OtherWins <- MCOtherWins
  Prefilled <- MCPrefilled
  Payloads <- MCPayloads
  Catalogues <- MCCatalogues
INVARIANTS
  SlotsAreEvidenced
  LearnedSkillReplays
  FullIntentIsWarm
  AbandonmentIsSound
  OwnRequestIsRecovered
CHECK_DEADLOCK FALSE
