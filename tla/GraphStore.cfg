CONSTANTS
  c1 = c1  c2 = c2  a = a  b = b  d = d  knows = knows  likes = likes  p = p  q = q
  Conns = {c1, c2}
  Vertices = {a, b, d}
  Types = {knows, likes}
  Props = {p, q, Empty}
  Empty = Empty
  NoEdge = NoEdge
  NoStmt = NoStmt
  Scenario <- MCScenario
SPECIFICATION Spec
INVARIANTS TypeOK NoDanglingIncoming ReadsConsistent
PROPERTIES AtomicEdges
