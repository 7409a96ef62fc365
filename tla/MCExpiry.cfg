CONSTANTS
  c1 = c1
  c2 = c2
  t1 = t1
  t2 = t2
  a = a
  b = b
  A = A
  Null = Null
  Client = {c1, c2}
  Task = {t1}
  Key <- FoldedKeys
  Stripe = {0, 1}
  GetKeyPos <- OwnStripe
  Lower <- FoldA
  Duration = {0, 1}
  MaxTime = 1
  IntRange = 1
  Command <- AllLoads
  Load = {"expiring"}
SPECIFICATION FairLoadSpec
PROPERTIES Expires CommandsReturn
CHECK_DEADLOCK FALSE
