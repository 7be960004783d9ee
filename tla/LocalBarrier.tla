---------------------------- MODULE LocalBarrier ----------------------------
(* What SyncDaemon#local_barrier promises to the iprof processes of a node:  *)
(* a reusable barrier among the ranks of each node, and nothing between      *)
(* nodes.  The daemons of module SyncDaemon implement it.                    *)
EXTENDS Naturals

CONSTANTS Ranks, NodeOf

VARIABLES arrived,  \* arrived[r]: the local barriers rank r has entered
          left      \* left[r]: the local barriers rank r has come out of

vars == <<arrived, left>>

Peers(r) == {q \in Ranks : NodeOf[q] = NodeOf[r]}

Init == /\ arrived = [r \in Ranks |-> 0]
        /\ left = [r \in Ranks |-> 0]

Arrive(r) == /\ arrived[r] = left[r]
             /\ arrived' = [arrived EXCEPT ![r] = @ + 1]
             /\ UNCHANGED left

Leave(r) == /\ left[r] < arrived[r]
            /\ \A q \in Peers(r) : arrived[q] > left[r]
            /\ left' = [left EXCEPT ![r] = @ + 1]
            /\ UNCHANGED arrived

Next == \E r \in Ranks : Arrive(r) \/ Leave(r)

Spec == Init /\ [][Next]_vars
=============================================================================
