---------------------------- MODULE MCZeProfiling ----------------------------
(* Two sizes: two regular lists, each of which may depend on the other when  *)
(* that is not yet submitted, an immediate list, two events and slabs of one *)
(* slot; or one list of each kind, one event, a fence and slabs of two slots.*)
EXTENDS ZeProfiling
CONSTANTS reg, reg2, imm, e1, e2, q1, f1

MCRegular == {reg}
TwoRegular == {reg, reg2}
MCImmediate == {imm}
MCQueues == {q1}
MCFences == {f1}
MCNoFences == {}

MCEvents == {e1, e2}
MCSlabs == 1 .. 3
MCEventSymmetry == Permutations(MCEvents)
MCSymmetry == MCEventSymmetry \union Permutations(TwoRegular)

AllInOrder == TwoRegular \union MCImmediate
OneEvent == {e1}
TwoSlabs == 1 .. 2

MCRules == {"one_signal", "run_first", "sync_first", "quiet_sync", "consume"}
MCAllRules == MCRules \union {"signal_first"}
=============================================================================
