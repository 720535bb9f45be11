\* Up to two documents, two queries after one another.
CONSTANTS
  Documents <- MCDocuments
  Queries <- MCQueries
  SpellErrors <- MCSpellErrors
  MaxDocs = 2
  MaxQueries = 2
SPECIFICATION Spec
INVARIANT CorrectionFound
INVARIANT CompletionsDistinct
INVARIANT EstimatesSumToOne
INVARIANT EditsAsListed
CHECK_DEADLOCK FALSE
