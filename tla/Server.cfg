CONSTANTS
  Conns = {1}
  MaxLines = 4
  NoUnit = NoUnit
SPECIFICATION Spec
INVARIANTS InOrder BatchWhole AnswersTell
PROPERTIES  ShutdownEnds
