------------------------------ MODULE MCIprof -------------------------------
(* Two nodes: node A hosts the master and one more rank, node B one rank or   *)
(* (Big) two.                                                                *)
EXTENDS Iprof

MCRanks == {0, 1, 2}
MCNodes == {"A", "B"}
MCNodeOf == [r \in MCRanks |-> IF r = 2 THEN "B" ELSE "A"]
MCLocalMasters == {0, 2}
MCMaster == 0

BigRanks == 0 .. 3
BigNodeOf == [r \in BigRanks |-> IF r < 2 THEN "A" ELSE "B"]
BigLocalMasters == {0, 2}

MCFaults == FaultKinds
=============================================================================
