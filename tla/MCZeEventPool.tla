--------------------------- MODULE MCZeEventPool ---------------------------
(* Two threads, a regular and an immediate list. *)
EXTENDS ZeEventPool, TLC

AllRules == {"within_cap", "quiet_fail"}
QuietOnly == {"quiet_fail"}
Symmetry == Permutations(Threads) \union Permutations(Events)
=============================================================================
