SPECIFICATION Spec
CONSTANTS
  Names = {n1}
  MapKeys = {k1}
  Values = {v1, v2}
  Threads = {t1, t2, t3}
  MaxIndex = 2
  List = List
  Map = Map
  Nil = Nil
INVARIANTS
  OneShape
  StoredStays
PROPERTY
  UpdateOfCurrent
SYMMETRY MCSymmetry
