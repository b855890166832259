CONSTANTS
  c1 = c1  c2 = c2  t1 = t1  t2 = t2  k1 = k1  k2 = k2  x = x  v = v  w = w  odd = odd
  Conns = {c1, c2}
  Tables = {t1, t2}
  Keys = {k1, k2}
  Texts = {x}
  Vecs = {v, w}
  OddVecs = {odd}
  VectorName <- MCVectorName
  Slots = {1, 2, 3}
  NoSlot = NoSlot
  NoConn = NoConn
  NoStmt = NoStmt
  None = None
  NoDoc = NoDoc
  Scenario <- MCScenario
SPECIFICATION Spec
INVARIANTS AckedText AckedVector
PROPERTIES  EveryStatementAnswered
