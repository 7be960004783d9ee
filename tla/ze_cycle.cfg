SPECIFICATION Spec
CONSTANTS
  reg = reg
  reg2 = reg2
  imm = imm
  e1 = e1
  e2 = e2
  q1 = q1
  f1 = f1
  None = None
  Regular <- MCRegular
  Immediate <- MCImmediate
  InOrder <- MCImmediate
  Events <- MCEvents
  Queues <- MCQueues
  Fences <- MCNoFences
  Slabs <- MCSlabs
  SlabSlots = 1
  MaxWaits = 1
  Timed = {}
  Rules = {"one_signal", "run_first", "sync_first", "quiet_sync"}
INVARIANTS
  PredsAcyclic
SYMMETRY MCEventSymmetry
CHECK_DEADLOCK FALSE
