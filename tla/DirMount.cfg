SPECIFICATION Spec
CONSTANTS
  p1 = p1
  p2 = p2
  Paths <- MCPaths
  Writers = {w1}
  Targets <- Either
  Calls = {"write", "copy", "move", "update"}
  Txs = {t}
  Order <- MCOrder
  Old = Old
  Absent = Absent
  Torn = Torn
  Disturbed = Disturbed
INVARIANT
  WholeFiles
PROPERTY
  AnswerTells
