CONSTANTS
  c1 = c1  c2 = c2  r1 = r1  r2 = r2  a = a  b = b  u = u  v = v  array = array
  Conns = {c1}
  Ids = {r1, r2}
  Fields = {a, b}
  Vals = {u, v, array}
  Unindexable = {array}
  Names = {1, 2}
  Missing = Missing
  NoId = NoId
  NoDoc = NoDoc
  NoIndex = NoIndex
  NoStmt = NoStmt
  Statements <- MCPartialTuple
  Catalogs <- OneComposite
SPECIFICATION Spec
INVARIANTS SelectExact
