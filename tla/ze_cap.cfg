SPECIFICATION Spec
SYMMETRY Symmetry
CONSTANTS
  Threads = {t1, t2}
  Regular = {reg}
  Immediate = {imm}
  Events = {e1, e2, e3}
  Cap = 1
  Rules <- QuietOnly
  MaxCommands = 3
  None = None
INVARIANTS
  SignalFaithful
CHECK_DEADLOCK FALSE
