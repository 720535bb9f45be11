SPECIFICATION Spec
CONSTANTS
  t1 = t1
  t2 = t2
  r1 = r1
  r2 = r2
  Requests = {r1}
  Terms = {t1, t2}
  MaxQueries = 2
  Shapes <- TwoQueries
  Meta <- MCMeta
  FileLen <- MCFileLen
  MayShutdown = FALSE
INVARIANTS
  ExactReads
