CONSTANTS
  c1 = c1  c2 = c2  t1 = t1  t2 = t2  k1 = k1  k2 = k2  k3 = k3
  Conns = {c1, c2}
  Tables = {t1, t2}
  Keys = {k1, k2, k3}
  KeyTable <- MCKeyTable
  Sizes = {1, 3}
  Cap = 2
  MaxBytes = 3
  MaxCommits = 2
  Statements <- MCRace
  Absent = Absent
  NoConn = NoConn
  NoTable = NoTable
  NoStmt = NoStmt
SPECIFICATION HSpec
INVARIANTS NoStaleHit
