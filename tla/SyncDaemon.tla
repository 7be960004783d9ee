----------------------------- MODULE SyncDaemon -----------------------------
(* The synchronisation daemon iprof starts on every rank of an MPI job, in   *)
(* its two versions: sync_daemon_fs (sentinel folders on a file system) and  *)
(* sync_daemon_mpi (MPI_Barrier).  A daemon serves its own iprof over a      *)
(* SEQPACKET socket pair: one READY per message, in order.  Here iprof is    *)
(* any client of that protocol; module Iprof is the one the code has.        *)
EXTENDS Naturals, Sequences, FiniteSets

CONSTANTS Ranks, Nodes, NodeOf,
          LocalMasters,  \* the ranks with local_rank_id 0
          Master,        \* the rank with rank_id 0
          Kind,          \* THAPI_SYNC_DAEMON: "fs" (the default) or "mpi"
          MaxLocal,      \* bound: local barriers a client asks for
          MaxGlobal,     \* bound: global barriers a client asks for
          MaxUnread      \* bound: requests whose READY iprof has not read

LocalRanks(n) == {r \in Ranks : NodeOf[r] = n}

ASSUME TopologyAssumption ==
  /\ IsFiniteSet(Ranks)
  /\ NodeOf \in [Ranks -> Nodes]
  /\ LocalMasters \subseteq Ranks
  /\ \A r \in Ranks : \E m \in LocalMasters : NodeOf[m] = NodeOf[r]
  /\ \A m1, m2 \in LocalMasters : NodeOf[m1] = NodeOf[m2] => m1 = m2
  /\ Master \in LocalMasters

ASSUME BoundsAssumption == /\ Kind \in {"fs", "mpi"}
                           /\ MaxLocal \in Nat
                           /\ MaxGlobal \in Nat
                           /\ MaxUnread \in Nat

VARIABLES toDaemon,   \* messages sent by iprof, not read yet
          toIprof,    \* READY replies, not read yet
          connected,  \* connected[r]: iprof's end of the socket pair is open
          dpc,        \* where each daemon is
          lbCount,    \* local_barrier_count of each daemon
          gbCount,    \* history: global barriers each daemon came out of
          localDir,   \* per node, its sentinels: <<barrier name, rank>>
          globalDir   \* the local masters with a sentinel in the shared folder

socket == <<toDaemon, toIprof, connected>>
folders == <<localDir, globalDir>>
sdVars == <<toDaemon, toIprof, connected, dpc, lbCount, gbCount,
            localDir, globalDir>>

Requests == {"INIT", "LOCAL_BARRIER", "GLOBAL_BARRIER", "FINISH"}
DaemonPcs == {"unborn", "start", "loop", "local", "global", "clean",
              "exited", "crashed"}

SDTypeOK == /\ toDaemon \in [Ranks -> Seq(Requests)]
            /\ toIprof \in [Ranks -> Seq({"READY"})]
            /\ connected \in [Ranks -> BOOLEAN]
            /\ dpc \in [Ranks -> DaemonPcs]
            /\ lbCount \in [Ranks -> Nat]
            /\ gbCount \in [Ranks -> Nat]
            /\ localDir \in [Nodes -> SUBSET (Nat \X Ranks)]
            /\ globalDir \in SUBSET LocalMasters

SDInit == /\ toDaemon = [r \in Ranks |-> <<>>]
          /\ toIprof = [r \in Ranks |-> <<>>]
          /\ connected = [r \in Ranks |-> TRUE]
          /\ dpc = [r \in Ranks |-> "unborn"]
          /\ lbCount = [r \in Ranks |-> 0]
          /\ gbCount = [r \in Ranks |-> 0]
          /\ localDir = [n \in Nodes |-> {}]
          /\ globalDir = {}

-----------------------------------------------------------------------------
(* The daemon. *)

\* Ranks count a barrier as entered from the moment the daemon acts on it.
InLocal(r) == IF dpc[r] = "local" THEN 1 ELSE 0
InGlobal(r) == IF dpc[r] \in {"global", "clean"} THEN 1 ELSE 0
LocalArrived(r) == lbCount[r] + InLocal(r)
GlobalArrived(r) == gbCount[r] + InGlobal(r)

\* Mutant: every daemon leaves a sentinel.
DaemonStartAnyRank(r) ==
  /\ dpc[r] = "start"
  /\ dpc' = [dpc EXCEPT ![r] = "loop"]
  /\ globalDir' = globalDir \union {r}
  /\ UNCHANGED <<socket, lbCount, gbCount, localDir>>

\* init_global_barrier: only local masters of the fs daemon leave a sentinel.
DaemonStart(r) ==
  /\ dpc[r] = "start"
  /\ dpc' = [dpc EXCEPT ![r] = "loop"]
  /\ globalDir' = IF Kind = "fs" /\ r \in LocalMasters
                  THEN globalDir \union {r} ELSE globalDir
  /\ UNCHANGED <<socket, lbCount, gbCount, localDir>>

\* sendmsg(READY), then on to pc; it raises when iprof has closed its end.
Reply(r, pc) ==
  IF connected[r]
  THEN /\ toIprof' = [toIprof EXCEPT ![r] = Append(@, "READY")]
       /\ dpc' = [dpc EXCEPT ![r] = pc]
  ELSE /\ UNCHANGED toIprof
       /\ dpc' = [dpc EXCEPT ![r] = "crashed"]

Read(r, m) == /\ dpc[r] = "loop"
              /\ toDaemon[r] # <<>>
              /\ Head(toDaemon[r]) = m
              /\ toDaemon' = [toDaemon EXCEPT ![r] = Tail(@)]
              /\ UNCHANGED connected

ReadInit(r) == /\ Read(r, "INIT")
               /\ Reply(r, "loop")
               /\ UNCHANGED <<lbCount, gbCount, folders>>

ReadFinish(r) == /\ Read(r, "FINISH")
                 /\ Reply(r, "exited")
                 /\ UNCHANGED <<lbCount, gbCount, folders>>

\* The socket has been closed by an iprof that never sent FINISH.
ReadEof(r) == /\ dpc[r] = "loop"
              /\ ~connected[r]
              /\ toDaemon[r] = <<>> \/ toIprof[r] # <<>>
              /\ dpc' = [dpc EXCEPT ![r] = "crashed"]
              /\ UNCHANGED <<socket, lbCount, gbCount, folders>>

\* local_barrier: mkdir our sentinel, then poll the folder of this barrier.
EnterLocal(r) ==
  /\ Read(r, "LOCAL_BARRIER")
  /\ dpc' = [dpc EXCEPT ![r] = "local"]
  /\ localDir' = IF Kind = "fs"
                 THEN [localDir EXCEPT ![NodeOf[r]] =
                         @ \union {<<lbCount[r], r>>}]
                 ELSE localDir
  /\ UNCHANGED <<toIprof, lbCount, gbCount, globalDir>>

Folder(n, k) == {q \in Ranks : <<k, q>> \in localDir[n]}

\* Mutants: one folder for all the barriers; a communicator per rank.
LocalCompleteAnyCount(r) ==
  Cardinality({q \in Ranks : \E k \in 0 .. lbCount[r] :
                            <<k, q>> \in localDir[NodeOf[r]]})
    = Cardinality(LocalRanks(NodeOf[r]))

LocalCompleteAlone(r) == LocalArrived(r) > lbCount[r]

LocalComplete(r) ==
  \/ /\ Kind = "fs"
     /\ Cardinality(Folder(NodeOf[r], lbCount[r]))
          = Cardinality(LocalRanks(NodeOf[r]))
  \/ /\ Kind = "mpi"
     /\ \A q \in LocalRanks(NodeOf[r]) : LocalArrived(q) > lbCount[r]

LeaveLocal(r) == /\ dpc[r] = "local"
                 /\ LocalComplete(r)
                 /\ lbCount' = [lbCount EXCEPT ![r] = @ + 1]
                 /\ Reply(r, "loop")
                 /\ UNCHANGED <<toDaemon, connected, gbCount, folders>>

\* Mutant: the sentinel is not withdrawn.
EnterGlobalKeeping(r) ==
  /\ Read(r, "GLOBAL_BARRIER")
  /\ IF Kind = "fs" /\ r \notin LocalMasters
     THEN Reply(r, "loop") /\ gbCount' = [gbCount EXCEPT ![r] = @ + 1]
     ELSE /\ dpc' = [dpc EXCEPT ![r] = "global"]
          /\ UNCHANGED <<toIprof, gbCount>>
  /\ UNCHANGED <<lbCount, folders>>

\* global_barrier: with the fs daemon only local masters take part, and they
\* withdraw their sentinel before they poll.
EnterGlobal(r) ==
  /\ Read(r, "GLOBAL_BARRIER")
  /\ IF Kind = "fs" /\ r \notin LocalMasters
     THEN Reply(r, "loop") /\ gbCount' = [gbCount EXCEPT ![r] = @ + 1]
     ELSE /\ dpc' = [dpc EXCEPT ![r] = "global"]
          /\ UNCHANGED <<toIprof, gbCount>>
  /\ globalDir' = IF Kind = "fs" THEN globalDir \ {r} ELSE globalDir
  /\ UNCHANGED <<lbCount, localDir>>

\* Mutants: the local communicator; our own sentinel only.
GlobalCompleteLocally(r) ==
  \A q \in LocalRanks(NodeOf[r]) : GlobalArrived(q) > gbCount[r]

GlobalCompleteOwn(r) == r \notin globalDir

GlobalComplete(r) ==
  \/ Kind = "fs" /\ globalDir = {}
  \/ Kind = "mpi" /\ \A q \in Ranks : GlobalArrived(q) > gbCount[r]

LeaveGlobal(r) ==
  /\ dpc[r] = "global"
  /\ GlobalComplete(r)
  /\ IF Kind = "fs" /\ r = Master
     THEN dpc' = [dpc EXCEPT ![r] = "clean"] /\ UNCHANGED <<toIprof, gbCount>>
     ELSE Reply(r, "loop") /\ gbCount' = [gbCount EXCEPT ![r] = @ + 1]
  /\ UNCHANGED <<toDaemon, connected, lbCount, folders>>

\* The master removes the whole shared folder, with whatever is in it by now.
CleanGlobal(r) == /\ dpc[r] = "clean"
                  /\ globalDir' = {}
                  /\ gbCount' = [gbCount EXCEPT ![r] = @ + 1]
                  /\ Reply(r, "loop")
                  /\ UNCHANGED <<toDaemon, connected, lbCount, localDir>>

DaemonStep(r) == \/ DaemonStart(r)
                 \/ ReadInit(r)
                 \/ ReadFinish(r)
                 \/ ReadEof(r)
                 \/ EnterLocal(r)
                 \/ LeaveLocal(r)
                 \/ EnterGlobal(r)
                 \/ LeaveGlobal(r)
                 \/ CleanGlobal(r)

-----------------------------------------------------------------------------
(* The client's end of the socket: DaemonClient of the iprof launcher. *)

\* spawn: start the daemon process and send it INIT.
Spawn(r) == /\ dpc[r] = "unborn"
            /\ dpc' = [dpc EXCEPT ![r] = "start"]
            /\ toDaemon' = [toDaemon EXCEPT ![r] = <<"INIT">>]
            /\ UNCHANGED <<toIprof, connected, lbCount, gbCount, folders>>

Pending(r, m) == Cardinality({i \in DOMAIN toDaemon[r] : toDaemon[r][i] = m})

Unread(r) == Len(toDaemon[r]) + InLocal(r) + InGlobal(r) + Len(toIprof[r])

WithinBounds(r, m) ==
  \/ /\ m = "LOCAL_BARRIER"
     /\ LocalArrived(r) + Pending(r, m) < MaxLocal
  \/ /\ m = "GLOBAL_BARRIER"
     /\ GlobalArrived(r) + Pending(r, m) < MaxGlobal
  \/ m = "FINISH"

\* @parent.sendmsg; nothing follows a FINISH.
Send(r, m) == /\ dpc[r] \notin {"unborn", "exited", "crashed"}
              /\ connected[r]
              /\ Pending(r, "FINISH") = 0
              /\ Unread(r) < MaxUnread
              /\ WithinBounds(r, m)
              /\ toDaemon' = [toDaemon EXCEPT ![r] = Append(@, m)]
              /\ UNCHANGED <<toIprof, connected, dpc, lbCount, gbCount, folders>>

\* The successful outcome of wait_ready.
Receive(r) == /\ connected[r]
              /\ toIprof[r] # <<>>
              /\ toIprof' = [toIprof EXCEPT ![r] = Tail(@)]
              /\ UNCHANGED <<toDaemon, connected, dpc, lbCount, gbCount, folders>>

\* iprof closes its end: @parent.close, or the end of the process.
Close(r) == /\ dpc[r] # "unborn"
            /\ connected[r]
            /\ connected' = [connected EXCEPT ![r] = FALSE]
            /\ UNCHANGED <<toDaemon, toIprof, dpc, lbCount, gbCount, folders>>

ClientStep(r) == \/ Spawn(r)
                 \/ \E m \in Requests : Send(r, m)
                 \/ Receive(r)
                 \/ Close(r)

SDNext == \E r \in Ranks : DaemonStep(r) \/ ClientStep(r)

SDSpec == SDInit /\ [][SDNext]_sdVars

-----------------------------------------------------------------------------
(* Properties. *)

\* sync_daemon_fs, sync_daemon_mpi: the daemons of a node implement a local
\* barrier, whatever their clients do and whatever the other nodes do.
LB == INSTANCE LocalBarrier
        WITH arrived <- [r \in Ranks |-> LocalArrived(r)], left <- lbCount

LocalBarrierHolds == LB!Spec

\* The state form of the same promise, which the users of the barrier rely
\* on: no daemon is past its k-th local barrier while a daemon of the same
\* node has not entered it.
LocalBarrierSafe ==
  \A r, q \in Ranks : NodeOf[r] = NodeOf[q] => lbCount[r] <= LocalArrived(q)

\* sync_daemon_mpi: no rank comes out of a global barrier that a local master
\* has not entered.  (sync_daemon_fs does not keep this promise.)
GlobalBarrierSafe ==
  \A r, q \in LocalMasters : gbCount[r] <= GlobalArrived(q)
=============================================================================
