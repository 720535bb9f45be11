SPECIFICATION Spec
CONSTANTS
  a = a
  b = b
  Empty = Empty
  MaxRuns = 3
  Vocabulary <- MCVocabulary
INVARIANTS TypeOK PostingsInPlace ServesOneRun RefusesWithReason OpensInBuffer
