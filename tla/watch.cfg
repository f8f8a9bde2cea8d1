\* Writers may stop, and a process that panicked is gone.
CHECK_DEADLOCK FALSE
CONSTANTS
  Writers = {p1, p2}
  Watchers = {w1}
  Keys = {k1, k2}
  Loop = Loop
  Nil = Nil
  ChanCap = 2
  MaxWrites = 3
SPECIFICATION Spec
SYMMETRY Symmetry
INVARIANT WatchersCatchUp
