SPECIFICATION Spec
SYMMETRY Symmetry
CONSTANTS
  Threads = {t1, t2}
  Regular = {reg}
  Immediate = {imm}
  Events = {e1, e2, e3}
  Cap = 2
  Rules <- AllRules
  MaxCommands = 4
  None = None
INVARIANTS
  TypeOK
  EventsUnique
  SignalFaithful
  TimingFaithful
  IdleEventsClean
CHECK_DEADLOCK FALSE
