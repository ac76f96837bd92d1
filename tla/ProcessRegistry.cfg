SPECIFICATION Spec
CONSTANTS
  plain = plain
  daemon = daemon
  Threads = {t1, t2}
  Procs <- MCProcs
  Daemons = {daemon}
  Stream <- MCStream
  Free = free
  NoProc = noproc
INVARIANTS
  OneFinal
  NoneLost
  WholeCharacters
PROPERTY ReturnsUnlessHeld
CHECK_DEADLOCK FALSE
