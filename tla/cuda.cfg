SPECIFICATION Spec
SYMMETRY Symmetry
CONSTANTS
  k = k
  free = free
  Threads = {t1, t2}
  Devices = {d1, d2}
  Contexts = {c1, c2}
  Streams = {s}
  Implicit = {legacy}
  Pairs = {p1, p2}
  Names <- OnlyKernels
  Tasks <- OnlyKernels
  EarlyReuse = FALSE
  MaxLaunches = 2
  MaxDepth = 2
  MaxRefs = 2
  Retained = {d1}
  Created = {d2}
  None = None
INVARIANTS
  TypeOK
  NamesFaithful
  EventsInLiveContexts
  LaunchedOnDevice
CHECK_DEADLOCK FALSE
