--------------------------- MODULE MCCudaTracing ---------------------------
(* Sets are symmetric, but for the commands that the plugin takes for tasks. *)
EXTENDS CudaTracing, TLC

CONSTANTS k, free

OnlyKernels == {k}
WithFree == {k, free}
Symmetry == Permutations(Threads) \union Permutations(Contexts) \union Permutations(Pairs)
=============================================================================
