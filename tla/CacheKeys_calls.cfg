SPECIFICATION KeysSpec
CONSTANTS
  Objects <- AllObjects
  Names <- TwoNames
  Kind <- KindOf
  Content <- ContentOf
  Functions <- SomeFunctions
  Base <- BaseOf
  CacheOf <- Caches
  Receiver <- Receivers
  Included <- Includes
  Calls <- SomeCalls
CONSTRAINT FewEntries
INVARIANTS AnswersMatch KeywordOrderIrrelevant 
