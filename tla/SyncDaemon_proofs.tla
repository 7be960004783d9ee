-------------------------- MODULE SyncDaemon_proofs --------------------------
(* The local barrier of the synchronisation daemons, for every set of ranks  *)
(* and nodes, both kinds of daemon and any client of the protocol.           *)
EXTENDS SyncDaemon, FiniteSetTheorems, TLAPS

\* Answering READY keeps the reply queue and the program counters typed.
LEMMA ReplyTyped ==
  ASSUME SDTypeOK, NEW r \in Ranks, NEW p \in DaemonPcs, Reply(r, p)
  PROVE  /\ toIprof' \in [Ranks -> Seq({"READY"})]
         /\ dpc' \in [Ranks -> DaemonPcs]
<1>1. \A s \in Seq({"READY"}) : Append(s, "READY") \in Seq({"READY"})
  OBVIOUS
<1>2. toIprof' \in [Ranks -> Seq({"READY"})]
  <2>1. toIprof \in [Ranks -> Seq({"READY"})]
    BY DEF SDTypeOK
  <2>2. \/ toIprof' = [toIprof EXCEPT ![r] = Append(toIprof[r], "READY")]
        \/ toIprof' = toIprof
    BY DEF Reply
  <2>3. Append(toIprof[r], "READY") \in Seq({"READY"})
    BY <1>1, <2>1
  <2> QED
    BY <2>1, <2>2, <2>3
<1>3. dpc' \in [Ranks -> DaemonPcs]
  BY DEF SDTypeOK, Reply, DaemonPcs
<1> QED
  BY <1>2, <1>3

\* So does reading a message, for the request queue.
LEMMA ReadTyped ==
  ASSUME SDTypeOK, NEW r \in Ranks, NEW m, Read(r, m)
  PROVE  /\ toDaemon' \in [Ranks -> Seq(Requests)]
         /\ connected' \in [Ranks -> BOOLEAN]
<1>1. \A s \in Seq(Requests) : s # <<>> => Tail(s) \in Seq(Requests)
  OBVIOUS
<1> QED
  BY <1>1 DEF SDTypeOK, Read

\* And what the client does to both queues.
LEMMA ClientTyped ==
  ASSUME SDTypeOK, NEW r \in Ranks, ClientStep(r)
  PROVE  SDTypeOK'
<1> USE DEF SDTypeOK, folders
<1>1. CASE Spawn(r)
  <2>1. <<"INIT">> \in Seq(Requests)
    BY DEF Requests
  <2> QED
    BY <1>1, <2>1 DEF Spawn, DaemonPcs
<1>2. ASSUME NEW m \in Requests, Send(r, m) PROVE SDTypeOK'
  <2>1. \A s \in Seq(Requests) : Append(s, m) \in Seq(Requests)
    OBVIOUS
  <2> QED
    BY <1>2, <2>1 DEF Send
<1>3. CASE Receive(r)
  <2>1. \A s \in Seq({"READY"}) : s # <<>> => Tail(s) \in Seq({"READY"})
    OBVIOUS
  <2> QED
    BY <1>3, <2>1 DEF Receive
<1>4. CASE Close(r)
  BY <1>4 DEF Close
<1> QED
  BY <1>1, <1>2, <1>3, <1>4 DEF ClientStep

\* The initial state is typed.
LEMMA InitTyped == SDInit => SDTypeOK
<1> SUFFICES ASSUME SDInit PROVE SDTypeOK
  OBVIOUS
<1>1. <<>> \in Seq(Requests) /\ <<>> \in Seq({"READY"})
  OBVIOUS
<1> QED
  BY <1>1 DEF SDInit, SDTypeOK, DaemonPcs

\* Every step keeps the state typed.
LEMMA StepTyped == SDTypeOK /\ [SDNext]_sdVars => SDTypeOK'
<1> SUFFICES ASSUME SDTypeOK, [SDNext]_sdVars PROVE SDTypeOK'
  OBVIOUS
<1> USE DEF folders
<1>a. lbCount \in [Ranks -> Nat] /\ gbCount \in [Ranks -> Nat]
  BY DEF SDTypeOK
<1>b. /\ dpc \in [Ranks -> DaemonPcs]
      /\ toIprof \in [Ranks -> Seq({"READY"})]
      /\ "loop" \in DaemonPcs /\ "local" \in DaemonPcs /\ "global" \in DaemonPcs
      /\ "clean" \in DaemonPcs /\ "exited" \in DaemonPcs
  BY DEF SDTypeOK, DaemonPcs
<1>c. /\ localDir \in [Nodes -> SUBSET (Nat \X Ranks)]
      /\ globalDir \in SUBSET LocalMasters
  BY DEF SDTypeOK
<1>1. ASSUME NEW r \in Ranks, DaemonStart(r) PROVE SDTypeOK'
  BY <1>1, TopologyAssumption DEF SDTypeOK, DaemonStart, DaemonPcs, socket
<1>2. ASSUME NEW r \in Ranks, ReadInit(r) PROVE SDTypeOK'
  BY <1>b, <1>2, ReplyTyped, ReadTyped DEF SDTypeOK, ReadInit
<1>3. ASSUME NEW r \in Ranks, ReadFinish(r) PROVE SDTypeOK'
  BY <1>b, <1>3, ReplyTyped, ReadTyped DEF SDTypeOK, ReadFinish
<1>4. ASSUME NEW r \in Ranks, ReadEof(r) PROVE SDTypeOK'
  BY <1>4 DEF SDTypeOK, ReadEof, DaemonPcs, socket
<1>5. ASSUME NEW r \in Ranks, EnterLocal(r) PROVE SDTypeOK'
  <2>1. localDir' \in [Nodes -> SUBSET (Nat \X Ranks)]
    <3>1. <<lbCount[r], r>> \in Nat \X Ranks /\ NodeOf[r] \in Nodes
      BY <1>a, TopologyAssumption
    <3> QED
      BY <1>c, <1>5, <3>1 DEF EnterLocal
  <2>2. dpc' \in [Ranks -> DaemonPcs]
    BY <1>b, <1>5 DEF EnterLocal
  <2> QED
    BY <1>5, <2>1, <2>2, ReadTyped DEF SDTypeOK, EnterLocal
<1>6. ASSUME NEW r \in Ranks, LeaveLocal(r) PROVE SDTypeOK'
  <2>1. lbCount' \in [Ranks -> Nat]
    <3>1. lbCount' = [lbCount EXCEPT ![r] = @ + 1]
      BY <1>6 DEF LeaveLocal
    <3> QED
      BY <1>a, <3>1
  <2>2. /\ toIprof' \in [Ranks -> Seq({"READY"})]
        /\ dpc' \in [Ranks -> DaemonPcs]
    BY <1>b, <1>6, ReplyTyped DEF LeaveLocal
  <2> QED
    BY <1>6, <2>1, <2>2 DEF SDTypeOK, LeaveLocal
<1>7. ASSUME NEW r \in Ranks, EnterGlobal(r) PROVE SDTypeOK'
  <2>1. gbCount' \in [Ranks -> Nat]
    <3>1. gbCount' = gbCount \/ gbCount' = [gbCount EXCEPT ![r] = @ + 1]
      BY <1>7 DEF EnterGlobal
    <3> QED
      BY <1>a, <3>1
  <2>2. /\ toIprof' \in [Ranks -> Seq({"READY"})]
        /\ dpc' \in [Ranks -> DaemonPcs]
    <3>1. CASE Kind = "fs" /\ r \notin LocalMasters
      BY <1>b, <1>7, <3>1, ReplyTyped DEF EnterGlobal
    <3>2. CASE ~(Kind = "fs" /\ r \notin LocalMasters)
      <4>1. /\ toIprof' = toIprof
            /\ dpc' = [dpc EXCEPT ![r] = "global"]
        BY <1>7, <3>2 DEF EnterGlobal
      <4> QED
        BY <1>b, <4>1
    <3> QED
      BY <3>1, <3>2
  <2>3. globalDir' \in SUBSET LocalMasters
    BY <1>c, <1>7 DEF EnterGlobal
  <2> QED
    BY <1>7, <2>1, <2>2, <2>3, ReadTyped DEF SDTypeOK, EnterGlobal
<1>8. ASSUME NEW r \in Ranks, LeaveGlobal(r) PROVE SDTypeOK'
  <2>1. gbCount' \in [Ranks -> Nat]
    <3>1. gbCount' = gbCount \/ gbCount' = [gbCount EXCEPT ![r] = @ + 1]
      BY <1>8 DEF LeaveGlobal
    <3> QED
      BY <1>a, <3>1
  <2>2. /\ toIprof' \in [Ranks -> Seq({"READY"})]
        /\ dpc' \in [Ranks -> DaemonPcs]
    <3>1. CASE Kind = "fs" /\ r = Master
      <4>1. /\ toIprof' = toIprof
            /\ dpc' = [dpc EXCEPT ![r] = "clean"]
        BY <1>8, <3>1 DEF LeaveGlobal
      <4> QED
        BY <1>b, <4>1
    <3>2. CASE ~(Kind = "fs" /\ r = Master)
      BY <1>b, <1>8, <3>2, ReplyTyped DEF LeaveGlobal
    <3> QED
      BY <3>1, <3>2
  <2> QED
    BY <1>8, <2>1, <2>2 DEF SDTypeOK, LeaveGlobal
<1>9. ASSUME NEW r \in Ranks, CleanGlobal(r) PROVE SDTypeOK'
  <2>1. gbCount' \in [Ranks -> Nat]
    <3>1. gbCount' = gbCount \/ gbCount' = [gbCount EXCEPT ![r] = @ + 1]
      BY <1>9 DEF CleanGlobal
    <3> QED
      BY <1>a, <3>1
  <2>2. /\ toIprof' \in [Ranks -> Seq({"READY"})]
        /\ dpc' \in [Ranks -> DaemonPcs]
    BY <1>b, <1>9, ReplyTyped DEF CleanGlobal
  <2> QED
    BY <1>9, <2>1, <2>2 DEF SDTypeOK, CleanGlobal
<1>10. CASE UNCHANGED sdVars
  BY <1>10 DEF SDTypeOK, sdVars
<1> QED
  BY <1>1, <1>2, <1>3, <1>4, <1>5, <1>6, <1>7, <1>8, <1>9, <1>10, ClientTyped
  DEF SDNext, DaemonStep

\* Type correctness of the daemons and their sockets (sync_daemon_fs,
\* sync_daemon_mpi, DaemonClient).
THEOREM TypeCorrect == SDSpec => []SDTypeOK
BY InitTyped, StepTyped, PTL DEF SDSpec

-----------------------------------------------------------------------------
(* The barrier. *)

\* The sentinels of a node are those of the barriers its ranks have entered.
SentinelsMatch ==
  Kind = "fs" =>
    \A n \in Nodes, k \in Nat, q \in Ranks :
      <<k, q>> \in localDir[n] <=> NodeOf[q] = n /\ LocalArrived(q) > k

BarrierInv == SDTypeOK /\ SentinelsMatch /\ LocalBarrierSafe

\* Only two steps move a rank with respect to the local barriers.
LEMMA OtherStepsKeepBarrier ==
  ASSUME SDTypeOK, NEW r \in Ranks, DaemonStep(r) \/ ClientStep(r),
         ~EnterLocal(r), ~LeaveLocal(r)
  PROVE  /\ UNCHANGED <<lbCount, localDir>>
         /\ \A q \in Ranks : InLocal(q)' = InLocal(q)
<1> USE DEF SDTypeOK, InLocal, socket, folders
<1>1. ASSUME DaemonStart(r)
      PROVE  UNCHANGED <<lbCount, localDir>> /\ \A q \in Ranks : InLocal(q)' = InLocal(q)
  BY <1>1 DEF DaemonStart
<1>2. ASSUME ReadInit(r) \/ ReadFinish(r)
      PROVE  UNCHANGED <<lbCount, localDir>> /\ \A q \in Ranks : InLocal(q)' = InLocal(q)
  BY <1>2 DEF ReadInit, ReadFinish, Read, Reply
<1>3. ASSUME ReadEof(r)
      PROVE  UNCHANGED <<lbCount, localDir>> /\ \A q \in Ranks : InLocal(q)' = InLocal(q)
  BY <1>3 DEF ReadEof
<1>4. ASSUME EnterGlobal(r)
      PROVE  UNCHANGED <<lbCount, localDir>> /\ \A q \in Ranks : InLocal(q)' = InLocal(q)
  BY <1>4 DEF EnterGlobal, Read, Reply
<1>5. ASSUME LeaveGlobal(r) \/ CleanGlobal(r)
      PROVE  UNCHANGED <<lbCount, localDir>> /\ \A q \in Ranks : InLocal(q)' = InLocal(q)
  BY <1>5 DEF LeaveGlobal, CleanGlobal, Reply
<1>6. ASSUME ClientStep(r)
      PROVE  UNCHANGED <<lbCount, localDir>> /\ \A q \in Ranks : InLocal(q)' = InLocal(q)
  BY <1>6 DEF ClientStep, Spawn, Send, Receive, Close
<1> QED
  BY <1>1, <1>2, <1>3, <1>4, <1>5, <1>6 DEF DaemonStep

\* Counting the sentinels of a folder is enough: when there are as many as
\* ranks on the node, every rank of the node has entered the barrier.
LEMMA CompleteMeansAll ==
  ASSUME BarrierInv, NEW r \in Ranks, LocalComplete(r),
         NEW q \in Ranks, NodeOf[q] = NodeOf[r]
  PROVE  LocalArrived(q) > lbCount[r]
<1> DEFINE n == NodeOf[r]
<1>1. n \in Nodes /\ lbCount[r] \in Nat /\ q \in LocalRanks(n)
  BY TopologyAssumption DEF BarrierInv, SDTypeOK, LocalRanks
<1>2. CASE Kind = "fs"
  <2>1. Cardinality(Folder(n, lbCount[r])) = Cardinality(LocalRanks(n))
    BY <1>2 DEF LocalComplete
  <2>2. Folder(n, lbCount[r]) \subseteq LocalRanks(n)
    BY <1>1, <1>2 DEF BarrierInv, SentinelsMatch, Folder, LocalRanks
  <2>3. IsFiniteSet(LocalRanks(n))
    BY TopologyAssumption, FS_Subset DEF LocalRanks
  <2>4. Folder(n, lbCount[r]) = LocalRanks(n)
    BY <2>1, <2>2, <2>3, FS_Subset
  <2>5. <<lbCount[r], q>> \in localDir[n]
    BY <1>1, <2>4 DEF Folder
  <2> QED
    BY <1>1, <1>2, <2>5 DEF BarrierInv, SentinelsMatch
<1>3. CASE Kind = "mpi"
  BY <1>1, <1>3 DEF LocalComplete
<1> QED
  BY <1>2, <1>3, BoundsAssumption

\* The invariant is inductive.
LEMMA BarrierInvInductive ==
  ASSUME BarrierInv, [SDNext]_sdVars, SDTypeOK'
  PROVE  BarrierInv'
<1> USE TopologyAssumption
<1>0. /\ dpc \in [Ranks -> DaemonPcs]
      /\ lbCount \in [Ranks -> Nat]
      /\ localDir \in [Nodes -> SUBSET (Nat \X Ranks)]
      /\ \A q \in Ranks : LocalArrived(q) \in Nat
  <2>1. /\ dpc \in [Ranks -> DaemonPcs]
        /\ lbCount \in [Ranks -> Nat]
        /\ localDir \in [Nodes -> SUBSET (Nat \X Ranks)]
    BY DEF BarrierInv, SDTypeOK
  <2> QED
    BY <2>1 DEF LocalArrived, InLocal
<1>1. ASSUME NEW r \in Ranks, EnterLocal(r) PROVE BarrierInv'
  <2>1. /\ dpc[r] = "loop"
        /\ dpc' = [dpc EXCEPT ![r] = "local"]
        /\ lbCount' = lbCount
    BY <1>1 DEF EnterLocal, Read
  <2>2. \A q \in Ranks : LocalArrived(q)' =
          IF q = r THEN LocalArrived(q) + 1 ELSE LocalArrived(q)
    BY <1>0, <2>1 DEF LocalArrived, InLocal
  <2>3. LocalBarrierSafe'
    BY <1>0, <2>1, <2>2 DEF BarrierInv, LocalBarrierSafe
  <2>4. SentinelsMatch'
    <3> SUFFICES ASSUME Kind = "fs", NEW n \in Nodes, NEW k \in Nat, NEW q \in Ranks
                 PROVE  (<<k, q>> \in localDir'[n]) <=>
                          NodeOf[q] = n /\ LocalArrived(q)' > k
      BY DEF SentinelsMatch
    <3>1. (<<k, q>> \in localDir'[n]) <=>
            \/ <<k, q>> \in localDir[n]
            \/ n = NodeOf[r] /\ k = lbCount[r] /\ q = r
      BY <1>0, <1>1 DEF EnterLocal
    <3>2. (<<k, q>> \in localDir[n]) <=> NodeOf[q] = n /\ LocalArrived(q) > k
      BY DEF BarrierInv, SentinelsMatch
    <3>3. LocalArrived(r) = lbCount[r] /\ lbCount[r] \in Nat
      BY <1>0, <2>1 DEF LocalArrived, InLocal
    <3> QED
      BY <2>2, <3>1, <3>2, <3>3
  <2> QED
    BY <2>3, <2>4 DEF BarrierInv
<1>2. ASSUME NEW r \in Ranks, LeaveLocal(r) PROVE BarrierInv'
  <2>1. /\ dpc[r] = "local"
        /\ lbCount' = [lbCount EXCEPT ![r] = @ + 1]
        /\ localDir' = localDir
        /\ \/ dpc' = [dpc EXCEPT ![r] = "loop"]
           \/ dpc' = [dpc EXCEPT ![r] = "crashed"]
    BY <1>2 DEF LeaveLocal, Reply, folders
  <2>2. \A q \in Ranks : LocalArrived(q)' = LocalArrived(q)
    BY <1>0, <2>1 DEF LocalArrived, InLocal
  <2>3. \A q \in Ranks : NodeOf[q] = NodeOf[r] => LocalArrived(q) > lbCount[r]
    BY <1>2, CompleteMeansAll DEF LeaveLocal
  <2>4. LocalBarrierSafe'
    BY <1>0, <2>1, <2>2, <2>3 DEF BarrierInv, LocalBarrierSafe
  <2>5. SentinelsMatch'
    <3> SUFFICES ASSUME Kind = "fs", NEW n \in Nodes, NEW k \in Nat, NEW q \in Ranks
                 PROVE  (<<k, q>> \in localDir[n]) <=>
                          NodeOf[q] = n /\ LocalArrived(q)' > k
      BY <2>1 DEF SentinelsMatch
    <3> QED
      BY <2>2 DEF BarrierInv, SentinelsMatch
  <2> QED
    BY <2>4, <2>5 DEF BarrierInv
<1>3. ASSUME UNCHANGED <<lbCount, localDir>>,
             \A q \in Ranks : InLocal(q)' = InLocal(q)
      PROVE  BarrierInv'
  BY <1>3 DEF BarrierInv, SentinelsMatch, LocalBarrierSafe, LocalArrived
<1>4. ASSUME UNCHANGED sdVars
      PROVE  UNCHANGED <<lbCount, localDir>> /\ \A q \in Ranks : InLocal(q)' = InLocal(q)
  BY <1>4 DEF sdVars, InLocal
<1> QED
  BY <1>1, <1>2, <1>3, <1>4, OtherStepsKeepBarrier DEF SDNext, BarrierInv

\* The invariant holds of every behaviour.
LEMMA BarrierInvAlways == SDSpec => []BarrierInv
<1>1. SDInit => BarrierInv
  <2> SUFFICES ASSUME SDInit PROVE BarrierInv
    OBVIOUS
  <2>1. SDTypeOK
    BY InitTyped
  <2>2. \A q \in Ranks : LocalArrived(q) = 0 /\ lbCount[q] = 0
    BY DEF SDInit, LocalArrived, InLocal
  <2>3. SentinelsMatch
    BY <2>2 DEF SDInit, SentinelsMatch
  <2>4. LocalBarrierSafe
    BY <2>2 DEF LocalBarrierSafe
  <2> QED
    BY <2>1, <2>3, <2>4 DEF BarrierInv
<1>2. BarrierInv /\ SDTypeOK' /\ [SDNext]_sdVars => BarrierInv'
  BY BarrierInvInductive
<1> QED
  BY <1>1, <1>2, TypeCorrect, PTL DEF SDSpec

\* No daemon is past a local barrier that a daemon of its node has not
\* entered: local_barrier of sync_daemon_fs counts sentinels, and the one of
\* sync_daemon_mpi is MPI_Barrier on the node's communicator.
THEOREM LocalBarrierCorrect == SDSpec => []LocalBarrierSafe
<1>1. BarrierInv => LocalBarrierSafe
  BY DEF BarrierInv
<1> QED
  BY <1>1, BarrierInvAlways, PTL

-----------------------------------------------------------------------------
(* The daemons implement the abstract barrier of module LocalBarrier.        *)

\* Entering is an arrival: the rank had left as many barriers as it entered.
LEMMA EnterArrives ==
  ASSUME SDTypeOK, NEW r \in Ranks, EnterLocal(r)
  PROVE  LB!Arrive(r)
<1>a. dpc \in [Ranks -> DaemonPcs] /\ lbCount \in [Ranks -> Nat]
  BY DEF SDTypeOK
<1>1. /\ dpc[r] = "loop"
      /\ dpc' = [dpc EXCEPT ![r] = "local"]
      /\ lbCount' = lbCount
  BY DEF EnterLocal, Read
<1>2. LocalArrived(r) = lbCount[r]
  BY <1>a, <1>1 DEF LocalArrived, InLocal
<1>3. \A q \in Ranks : LocalArrived(q)' =
        IF q = r THEN LocalArrived(q) + 1 ELSE LocalArrived(q)
  BY <1>a, <1>1 DEF LocalArrived, InLocal
<1> QED
  BY <1>1, <1>2, <1>3 DEF LB!Arrive

\* Leaving is only possible when every rank of the node has arrived.
LEMMA LeaveLeaves ==
  ASSUME BarrierInv, NEW r \in Ranks, LeaveLocal(r)
  PROVE  LB!Leave(r)
<1>a. dpc \in [Ranks -> DaemonPcs] /\ lbCount \in [Ranks -> Nat]
  BY DEF BarrierInv, SDTypeOK
<1>1. /\ dpc[r] = "local"
      /\ lbCount' = [lbCount EXCEPT ![r] = @ + 1]
      /\ \/ dpc' = [dpc EXCEPT ![r] = "loop"]
         \/ dpc' = [dpc EXCEPT ![r] = "crashed"]
  BY DEF LeaveLocal, Reply
<1>2. LocalArrived(r) > lbCount[r]
  BY <1>a, <1>1 DEF LocalArrived, InLocal
<1>3. \A q \in Ranks : LocalArrived(q)' = LocalArrived(q)
  BY <1>a, <1>1 DEF LocalArrived, InLocal
<1>4. \A q \in Ranks : NodeOf[q] = NodeOf[r] => LocalArrived(q) > lbCount[r]
  BY CompleteMeansAll DEF LeaveLocal
<1> QED
  BY <1>a, <1>1, <1>2, <1>3, <1>4 DEF LB!Leave, LB!Peers

\* Any other step stutters.
LEMMA OthersStutter ==
  ASSUME UNCHANGED <<lbCount, localDir>>,
         \A q \in Ranks : InLocal(q)' = InLocal(q)
  PROVE  UNCHANGED LB!vars
BY DEF LB!vars, LocalArrived

\* The daemons refine the abstract barrier, for every topology, every client
\* and both kinds of daemon.
THEOREM BarrierRefinement == SDSpec => LocalBarrierHolds
<1>1. SDInit => LB!Init
  BY DEF SDInit, LB!Init, LocalArrived, InLocal
<1>2. BarrierInv /\ [SDNext]_sdVars => [LB!Next]_(LB!vars)
  <2> SUFFICES ASSUME BarrierInv, [SDNext]_sdVars PROVE [LB!Next]_(LB!vars)
    OBVIOUS
  <2>1. ASSUME NEW r \in Ranks, EnterLocal(r) PROVE LB!Next
    BY <2>1, EnterArrives DEF LB!Next, BarrierInv
  <2>2. ASSUME NEW r \in Ranks, LeaveLocal(r) PROVE LB!Next
    BY <2>2, LeaveLeaves DEF LB!Next
  <2>3. ASSUME UNCHANGED sdVars
        PROVE  UNCHANGED <<lbCount, localDir>> /\ \A q \in Ranks : InLocal(q)' = InLocal(q)
    BY <2>3 DEF sdVars, InLocal
  <2> QED
    BY <2>1, <2>2, <2>3, OtherStepsKeepBarrier, OthersStutter
    DEF SDNext, BarrierInv
<1>3. SDSpec => []BarrierInv
  BY BarrierInvAlways
<1> QED
  BY <1>1, <1>2, <1>3, PTL DEF SDSpec, LocalBarrierHolds, LB!Spec

-----------------------------------------------------------------------------
(* The global barrier of the MPI daemon.                                     *)

\* No step takes an arrival back, and only a rank that leaves counts one.
LEMMA GlobalArrivals ==
  ASSUME SDTypeOK, NEW r \in Ranks, DaemonStep(r) \/ ClientStep(r),
         Kind = "mpi", dpc[r] # "clean", NEW q \in Ranks
  PROVE  /\ GlobalArrived(q) <= GlobalArrived(q)'
         /\ \/ gbCount'[q] = gbCount[q]
            \/ q = r /\ LeaveGlobal(r) /\ gbCount'[q] = gbCount[q] + 1
         /\ dpc[q] # "clean" => dpc'[q] # "clean"
<1>a. /\ dpc \in [Ranks -> DaemonPcs] /\ gbCount \in [Ranks -> Nat]
  BY DEF SDTypeOK
<1>0. gbCount[q] \in Nat /\ gbCount[r] \in Nat
  BY <1>a
<1>1. CASE LeaveGlobal(r)
  <2>1. /\ dpc[r] = "global" /\ gbCount' = [gbCount EXCEPT ![r] = @ + 1]
        /\ \/ dpc' = [dpc EXCEPT ![r] = "loop"]
           \/ dpc' = [dpc EXCEPT ![r] = "crashed"]
    BY <1>1 DEF LeaveGlobal, Reply
  <2> QED
    BY <1>a, <1>0, <1>1, <2>1 DEF GlobalArrived, InGlobal
<1>2. ~CleanGlobal(r)
  BY DEF CleanGlobal
<1>3. CASE ~LeaveGlobal(r)
  <2>1. gbCount' = gbCount /\ (q # r => dpc'[q] = dpc[q])
    BY <1>a, <1>2, <1>3 DEF DaemonStep, DaemonStart, ReadInit, ReadFinish, ReadEof, EnterLocal,
       LeaveLocal, EnterGlobal, Read, Reply, ClientStep, Spawn, Send, Receive, Close
  <2>2. /\ InGlobal(r) = 1 => UNCHANGED dpc
        /\ dpc'[r] # "clean"
    BY <1>a, <1>2, <1>3 DEF InGlobal, DaemonStep, DaemonStart, ReadInit, ReadFinish, ReadEof,
       EnterLocal, LeaveLocal, EnterGlobal, Read, Reply, ClientStep, Spawn, Send, Receive, Close
  <2> QED
    BY <1>0, <2>1, <2>2 DEF GlobalArrived, InGlobal
<1> QED
  BY <1>1, <1>3

\* With MPI no daemon removes a folder, and none is past a global barrier that
\* another one has not entered: between all ranks, not the local masters only.
GlobalInv == /\ \A r \in Ranks : dpc[r] # "clean"
             /\ \A r, q \in Ranks : gbCount[r] <= GlobalArrived(q)

\* Every step keeps it.
LEMMA GlobalInvKept ==
  ASSUME Kind = "mpi", SDTypeOK, SDTypeOK', GlobalInv, [SDNext]_sdVars
  PROVE  GlobalInv'
<1>a. /\ gbCount \in [Ranks -> Nat] /\ gbCount' \in [Ranks -> Nat]
      /\ \A q \in Ranks : GlobalArrived(q) \in Nat /\ GlobalArrived(q)' \in Nat
  BY DEF SDTypeOK, GlobalArrived, InGlobal
<1>1. CASE UNCHANGED sdVars
  BY <1>1 DEF sdVars, GlobalInv, GlobalArrived, InGlobal
<1>2. ASSUME NEW r \in Ranks, DaemonStep(r) \/ ClientStep(r) PROVE GlobalInv'
  <2>1. dpc[r] # "clean"
    BY DEF GlobalInv
  <2>2. \A q \in Ranks : /\ GlobalArrived(q) <= GlobalArrived(q)'
                         /\ \/ gbCount'[q] = gbCount[q]
                            \/ q = r /\ LeaveGlobal(r) /\ gbCount'[q] = gbCount[q] + 1
                         /\ dpc[q] # "clean" => dpc'[q] # "clean"
    BY <1>2, <2>1, GlobalArrivals
  <2>3. LeaveGlobal(r) => \A q \in Ranks : gbCount[r] + 1 <= GlobalArrived(q)
    BY <1>a DEF LeaveGlobal, GlobalComplete
  <2>4. ASSUME NEW p \in Ranks, NEW q \in Ranks PROVE gbCount'[p] <= GlobalArrived(q)'
    <3>1. gbCount[p] <= GlobalArrived(q)
      BY DEF GlobalInv
    <3>2. gbCount'[p] <= GlobalArrived(q)
      BY <1>a, <2>2, <2>3, <3>1
    <3> QED
      BY <1>a, <2>2, <3>2
  <2> QED
    BY <2>2, <2>4 DEF GlobalInv
<1> QED
  BY <1>1, <1>2 DEF SDNext

\* With sync_daemon_mpi no folder is cleaned and every rank takes part, always.
THEOREM GlobalInvAlways == ASSUME Kind = "mpi" PROVE SDSpec => []GlobalInv
<1>1. SDInit => GlobalInv
  BY DEF SDInit, GlobalInv, GlobalArrived, InGlobal
<1>2. GlobalInv /\ SDTypeOK /\ SDTypeOK' /\ [SDNext]_sdVars => GlobalInv'
  BY GlobalInvKept
<1> QED
  BY <1>1, <1>2, TypeCorrect, PTL DEF SDSpec

\* No daemon of sync_daemon_mpi is past a global barrier that a local master
\* has not entered.
THEOREM GlobalBarrierCorrect == ASSUME Kind = "mpi" PROVE SDSpec => []GlobalBarrierSafe
<1>1. GlobalInv => GlobalBarrierSafe
  BY TopologyAssumption DEF GlobalInv, GlobalBarrierSafe
<1> QED
  BY <1>1, GlobalInvAlways, PTL
=============================================================================
