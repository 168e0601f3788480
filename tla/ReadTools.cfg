\* Every cached read tool with up to two optional arguments, one file in the cache.
CONSTANTS
  Ids <- MCIds
  Searches <- MCPlainSearches
  Languages <- MCLanguages
  DefaultLanguage <- MCDefaultLanguage
  MaxOptional = 2
  MaxFiles = 1
SPECIFICATION Spec
INVARIANTS TypeOK AnswersItsOwnCall OutageServesTheLastAnswer RefreshLeavesNothing
