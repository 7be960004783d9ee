SPECIFICATION Spec
CONSTANTS
  reg = reg
  reg2 = reg2
  imm = imm
  e1 = e1
  e2 = e2
  q1 = q1
  f1 = f1
  None = None
  Regular <- MCRegular
  Immediate <- MCImmediate
  InOrder <- MCRegular
  Events <- OneEvent
  Queues <- MCQueues
  Fences <- MCFences
  Slabs <- TwoSlabs
  SlabSlots = 2
  MaxWaits = 1
  Timed <- OneEvent
  Rules <- MCRules
INVARIANTS
  TypeOK
  NoDanglingPred
  CountsExact
  SlabsNeeded
  OnlyReplaysWait
  
CHECK_DEADLOCK FALSE
