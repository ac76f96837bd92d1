SPECIFICATION Spec
CONSTANTS
  s1 = s1
  c1 = c1
  c2 = c2
  c3 = c3
  k1 = k1
  Servers <- MCServers
  Conns <- MCConns
  Calls <- MCCalls
  Handle = handle
  Blank = blank
  NoList = nolist
  MaxQueue = 2
INVARIANTS
  SlotsMatch
  LiveIdxLeadsHome
  NoOrphanChannel
PROPERTY ImplementsSlotTable
SYMMETRY MCSymmetry
