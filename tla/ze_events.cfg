SPECIFICATION Spec
CONSTANTS
  reg = reg
  reg2 = reg2
  imm = imm
  e1 = e1
  e2 = e2
  q1 = q1
  f1 = f1
  None = None
  Regular <- TwoRegular
  Immediate <- MCImmediate
  InOrder <- AllInOrder
  Events <- MCEvents
  Queues <- MCQueues
  Fences <- MCNoFences
  Slabs <- TwoSlabs
  SlabSlots = 1
  MaxWaits = 1
  Timed = {}
  Rules <- MCAllRules
INVARIANTS
  PredsAcyclic
  NoDanglingPred
  LatestIsLive
  OnlyReplaysWait
  NeverStuck
SYMMETRY MCSymmetry
CHECK_DEADLOCK FALSE
