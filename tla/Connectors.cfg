CONSTANTS
  Facts = {"a", "b"}
  UnknownFields = {"u"}
  Within = 1
  DefaultWindow = 2
  Parse <- parse
  Eval <- EvalPred
  Phrases <- MCPhrases
  MaxPhrases = 5
  SequenceHunts <- MCSequenceHunts
  Times = {0, 1, 3}
  Names <- MCNames
  TableRows <- MCTableRows
  MaxEvents = 3
  Limits = {0, 9}
  MaxLimit = 2
  LookupLimit = 1
  MinRows = {0, 2}
  Rows <- MCRows
  MaxBatch = 2
  MaxRequests = 2
  FreshBase = 10
SPECIFICATION FeedSpec
INVARIANTS
  LanguageExact
  SequencesExact
  
  OwnTenantOnly
  FeedsAccounted
  
CHECK_DEADLOCK FALSE
