------------------------- MODULE IprofRename_proofs --------------------------
(* The master renames the trace folder after every rank has written what it  *)
(* had to write, for every topology: with sync_daemon_mpi whatever fails,    *)
(* with sync_daemon_fs if the program synchronises its ranks and nobody      *)
(* interrupts it.                                                            *)
EXTENDS Iprof_proofs

-----------------------------------------------------------------------------
(* The invariant. *)

\* Where an iprof is that has asked for the global barrier, or never will.
Later == {"gb_wait", "fin", "fin_wait", "reap", "rename", "done", "failed"}

\* A rank has asked for the global barrier, at whatever stage the request is.
AskedGlobal(q) == \/ gbCount[q] > 0
                  \/ dpc[q] \in {"global", "clean"}
                  \/ \E i \in 1 .. Len(toDaemon[q]) : toDaemon[q][i] = "GLOBAL_BARRIER"

\* An iprof that goes past the barrier uninterrupted has been through it.
Passed(r) ==
  err[r] # "interrupt" =>
    /\ pc[r] = "gb_wait" /\ toIprof[r] # <<>> => gbCount[r] > 0
    /\ pc[r] \in {"fin", "fin_wait", "reap", "rename", "done"} => gbCount[r] > 0

Barrier(r) == /\ AskedGlobal(r) => pc[r] \in Later
              /\ Passed(r)
              /\ pc[r] = "rename" => r = Master /\ err[r] = "none"

\* The local masters are those who write traces.
Complete == moved => trace \subseteq final /\ \A q \in LocalMasters : pc[q] \in Later

RenameInv == (\A r \in Ranks : Barrier(r)) /\ Complete

-----------------------------------------------------------------------------
(* Steps of the daemon. *)

\* The daemon asks for nothing, and a reply to GLOBAL_BARRIER counts a barrier.
LEMMA DaemonAsksNoGlobal ==
  ASSUME SDTypeOK, NEW r \in Ranks, DaemonStep(r)
  PROVE  /\ AskedGlobal(r)' => AskedGlobal(r)
         /\ gbCount'[r] >= gbCount[r]
         /\ toIprof'[r] # toIprof[r] /\ Open(r, "GLOBAL_BARRIER") => gbCount'[r] > 0
<1> DEFINE Requested == toDaemon[r] # <<>> /\ Head(toDaemon[r]) = "GLOBAL_BARRIER"
<1>a. /\ toDaemon \in [Ranks -> Seq(Requests)] /\ toIprof \in [Ranks -> Seq({"READY"})]
      /\ dpc \in [Ranks -> DaemonPcs] /\ gbCount \in [Ranks -> Nat]
      /\ gbCount[r] \in Nat
  BY DEF SDTypeOK
<1>1. \/ gbCount'[r] = gbCount[r]
      \/ dpc[r] \in {"global", "clean"} /\ gbCount'[r] = gbCount[r] + 1
      \/ Requested /\ gbCount'[r] = gbCount[r] + 1
  BY <1>a DEF DaemonStep, DaemonStart, ReadInit, ReadFinish, ReadEof, EnterLocal,
     LeaveLocal, EnterGlobal, LeaveGlobal, CleanGlobal, Read
<1>2. \/ toDaemon'[r] = toDaemon[r]
      \/ toDaemon[r] # <<>> /\ toDaemon'[r] = Tail(toDaemon[r])
  BY <1>a DEF DaemonStep, DaemonStart, ReadInit, ReadFinish, ReadEof, EnterLocal,
     LeaveLocal, EnterGlobal, LeaveGlobal, CleanGlobal, Read, socket
<1>3. dpc'[r] \in {"global", "clean"} => dpc[r] \in {"global", "clean"} \/ Requested
  BY <1>a DEF DaemonStep, DaemonStart, ReadInit, ReadFinish, ReadEof, EnterLocal,
     LeaveLocal, EnterGlobal, LeaveGlobal, CleanGlobal, Read, Reply
<1>4. ASSUME Requested PROVE AskedGlobal(r)
  <2>1. 1 \in 1 .. Len(toDaemon[r]) /\ toDaemon[r][1] = "GLOBAL_BARRIER"
    BY <1>a, <1>4
  <2> QED
    BY <2>1 DEF AskedGlobal
<1>5. ASSUME \E i \in 1 .. Len(toDaemon'[r]) : toDaemon'[r][i] = "GLOBAL_BARRIER"
      PROVE  AskedGlobal(r)
  <2>1. \E i \in 1 .. Len(toDaemon[r]) : toDaemon[r][i] = "GLOBAL_BARRIER"
    <3>1. CASE toDaemon'[r] = toDaemon[r]
      BY <1>5, <3>1
    <3>2. CASE toDaemon[r] # <<>> /\ toDaemon'[r] = Tail(toDaemon[r])
      BY <1>a, <1>5, <3>2, TailWas
    <3> QED
      BY <1>2, <3>1, <3>2
  <2> QED
    BY <2>1 DEF AskedGlobal
<1>6. toIprof'[r] # toIprof[r] /\ Open(r, "GLOBAL_BARRIER") => gbCount'[r] = gbCount[r] + 1
  BY <1>a, OneMessage DEF Open, DaemonStep, DaemonStart, ReadInit, ReadFinish, ReadEof,
     EnterLocal, LeaveLocal, EnterGlobal, LeaveGlobal, CleanGlobal, Read, socket
<1> HIDE DEF Requested
<1>7. gbCount'[r] >= gbCount[r]
      /\ (gbCount'[r] > 0 => gbCount[r] > 0 \/ dpc[r] \in {"global", "clean"} \/ Requested)
      /\ (gbCount'[r] = gbCount[r] + 1 => gbCount'[r] > 0)
  BY <1>a, <1>1
<1> QED
  BY <1>3, <1>4, <1>5, <1>6, <1>7 DEF AskedGlobal

-----------------------------------------------------------------------------
(* Steps of the launcher. *)

\* Nobody takes part in the job again after its request for the barrier.
LEMMA LaterStays ==
  ASSUME TypeOK, NEW r \in Ranks, StepOf(r), pc[r] \in Later
  PROVE  pc'[r] \in Later
BY DEF TypeOK, StepOf, Iprof, DaemonRuns, Fault, StartDaemon, AskLocal1, AskLocal2, AskGlobal,
       AskFinish, Request, WaitReady, Ready, Reap, Setup, AppEnds, Teardown, Analysis, Rename,
       SetupFails, AppNotFound, AppInterrupted, TeardownFails, AnalysisFails,
       InterruptedInBlock, InterruptedAtExit, GoTo, Raise, Later, AfterOpen, AfterLocal2

\* Only AskGlobal sends the request.
LEMMA LauncherAsksGlobal ==
  ASSUME TypeOK, NEW r \in Ranks, Iprof(r) \/ Fault(r), AskedGlobal(r)'
  PROVE  AskedGlobal(r) \/ pc'[r] \in Later
<1>a. /\ pc \in [Ranks -> Pcs] /\ toDaemon \in [Ranks -> Seq(Requests)]
      /\ dpc \in [Ranks -> DaemonPcs]
  BY DEF TypeOK, SDTypeOK
<1>1. CASE AskGlobal(r)
  BY <1>a, <1>1 DEF AskGlobal, Request, GoTo, Later
<1>2. CASE StartDaemon(r)
  <2>1. toDaemon'[r] = <<"INIT">> /\ dpc'[r] = "start" /\ gbCount' = gbCount
    BY <1>a, <1>2 DEF StartDaemon, Spawn
  <2> QED
    BY <2>1, OneMessage DEF AskedGlobal
<1>3. ASSUME NEW x \in {"LOCAL_BARRIER", "FINISH"}, Send(r, x) PROVE AskedGlobal(r)
  <2>1. toDaemon'[r] = Append(toDaemon[r], x) /\ dpc' = dpc /\ gbCount' = gbCount
    BY <1>a, <1>3 DEF Send
  <2>2. \A i \in 1 .. Len(toDaemon'[r]) : toDaemon'[r][i] = "GLOBAL_BARRIER" =>
          i \in 1 .. Len(toDaemon[r]) /\ toDaemon[r][i] = "GLOBAL_BARRIER"
    BY <1>a, <1>3, <2>1 DEF Requests
  <2> QED
    BY <2>1, <2>2 DEF AskedGlobal
<1>4. CASE UNCHANGED <<toDaemon, dpc, gbCount>>
  BY <1>4 DEF AskedGlobal
<1> QED
  BY <1>1, <1>2, <1>3, <1>4 DEF Iprof, Fault, AskLocal1, AskLocal2, AskFinish, Request,
     WaitReady, Ready, Reap, Setup, AppEnds, Teardown, Analysis, Rename, SetupFails,
     AppNotFound, AppInterrupted, TeardownFails, AnalysisFails, InterruptedInBlock,
     InterruptedAtExit, Receive, Close, sdVars

\* What the launcher does after the barrier, it does after a READY.
LEMMA LauncherPasses ==
  ASSUME TypeOK, NEW r \in Ranks, Iprof(r) \/ Fault(r), Barrier(r), RankInv(r)
  PROVE  Passed(r)' /\ (pc'[r] = "rename" => r = Master /\ err'[r] = "none")
<1>a. /\ pc \in [Ranks -> Pcs] /\ err \in [Ranks -> Errors] /\ SDTypeOK
  BY DEF TypeOK
<1>1. gbCount' = gbCount
  BY DEF Iprof, Fault, StartDaemon, AskLocal1, AskLocal2, AskGlobal, AskFinish, Request,
     WaitReady, Ready, Reap, Setup, AppEnds, Teardown, Analysis, Rename, SetupFails,
     AppNotFound, AppInterrupted, TeardownFails, AnalysisFails, InterruptedInBlock,
     InterruptedAtExit, Spawn, Send, Receive, Close, sdVars
<1>2. CASE AskGlobal(r)
  <2>1. pc[r] = "gb" /\ pc'[r] = "gb_wait" /\ err' = err /\ toIprof' = toIprof
    BY <1>a, <1>2 DEF AskGlobal, Request, GoTo, Send
  <2>2. err[r] # "interrupt" => toIprof[r] = <<>>
    BY <2>1 DEF RankInv, Talk, Idle
  <2> QED
    BY <2>1, <2>2 DEF Passed
<1>3. CASE Ready(r, "gb_wait", "fin")
  <2>1. pc[r] = "gb_wait" /\ pc'[r] = "fin" /\ err' = err /\ toIprof[r] # <<>>
    BY <1>a, <1>3 DEF Ready, GoTo, Receive
  <2> QED
    BY <1>1, <2>1 DEF Passed, Barrier
<1>4. CASE Reap(r)
  <2>1. /\ pc[r] = "reap" /\ pc'[r] = AfterOpen(r) /\ err' = err
    BY <1>a, <1>4 DEF Reap, GoTo
  <2>2. AfterOpen(r) \in {"failed", "rename", "done"}
        /\ (AfterOpen(r) = "rename" => r = Master /\ err[r] = "none")
    BY DEF AfterOpen
  <2> QED
    BY <1>1, <2>1, <2>2 DEF Passed, Barrier
<1>5. CASE AskFinish(r) \/ Ready(r, "fin_wait", "reap") \/ Rename(r)
  <2>1. \/ pc[r] = "fin" /\ pc'[r] = "fin_wait" /\ err' = err
        \/ pc[r] = "fin_wait" /\ pc'[r] = "reap" /\ err' = err
        \/ pc[r] = "rename" /\ pc'[r] = "done" /\ err' = err
        \/ pc[r] = "rename" /\ pc'[r] = "failed"
    BY <1>a, <1>5 DEF AskFinish, Request, Ready, Rename, GoTo, Raise
  <2> QED
    BY <1>1, <2>1 DEF Passed, Barrier
<1>6. CASE ~(\/ AskGlobal(r) \/ Ready(r, "gb_wait", "fin") \/ Reap(r) \/ AskFinish(r)
             \/ Ready(r, "fin_wait", "reap") \/ Rename(r))
  <2>1. \/ pc'[r] \notin {"gb_wait", "fin", "fin_wait", "reap", "rename", "done"}
    BY <1>a, <1>6 DEF Iprof, Fault, StartDaemon, AskLocal1, AskLocal2, Request, WaitReady,
       Ready, Setup, AppEnds, Teardown, Analysis, SetupFails, AppNotFound, AppInterrupted,
       TeardownFails, AnalysisFails, InterruptedInBlock, InterruptedAtExit, GoTo, Raise,
       AfterLocal2
  <2> QED
    BY <2>1 DEF Passed
<1> QED
  BY <1>2, <1>3, <1>4, <1>5, <1>6

\* What a rank knows of its own barrier stays true.
LEMMA BarrierKept ==
  ASSUME TypeOK, NEW r \in Ranks, StepOf(r), RankInv(r), Barrier(r)
  PROVE  Barrier(r)'
<1>1. CASE DaemonRuns(r)
  <2>1. pc' = pc /\ err' = err /\ DaemonStep(r) /\ SDTypeOK
    BY <1>1 DEF DaemonRuns, TypeOK
  <2>2. /\ AskedGlobal(r)' => AskedGlobal(r)
        /\ gbCount'[r] >= gbCount[r]
        /\ toIprof'[r] # toIprof[r] /\ Open(r, "GLOBAL_BARRIER") => gbCount'[r] > 0
    BY <2>1, DaemonAsksNoGlobal
  <2>3. gbCount[r] > 0 => gbCount'[r] > 0
    <3>1. gbCount[r] \in Nat /\ gbCount'[r] \in Nat
      BY <2>1, StepTyped DEF SDNext, SDTypeOK
    <3> QED
      BY <2>2, <3>1
  <2>4. Passed(r)'
    BY <2>1, <2>2, <2>3 DEF Passed, Barrier, RankInv, Talk
  <2> QED
    BY <2>1, <2>2, <2>4 DEF Barrier
<1>2. CASE Iprof(r) \/ Fault(r)
  BY <1>2, LauncherAsksGlobal, LauncherPasses, LaterStays DEF Barrier
<1> QED
  BY <1>1, <1>2 DEF StepOf

\* A step of one rank leaves the barrier of another alone.
LEMMA BarrierOfOthers ==
  ASSUME TypeOK, NEW r \in Ranks, NEW q \in Ranks, q # r, StepOf(r), Barrier(q)
  PROVE  Barrier(q)'
<1>1. gbCount'[q] = gbCount[q]
  BY DEF TypeOK, SDTypeOK, StepOf, Iprof, DaemonRuns, Fault, StartDaemon, AskLocal1, AskLocal2,
         AskGlobal, AskFinish, Request, WaitReady, Ready, Reap, Setup, AppEnds, Teardown,
         Analysis, Rename, SetupFails, AppNotFound, AppInterrupted, TeardownFails,
         AnalysisFails, InterruptedInBlock, InterruptedAtExit, Spawn, Send, Receive, Close,
         sdVars, DaemonStep, DaemonStart, ReadInit, ReadFinish, ReadEof, EnterLocal,
         LeaveLocal, EnterGlobal, LeaveGlobal, CleanGlobal
<1> QED
  BY <1>1, StepMovesItsOwn DEF Barrier, AskedGlobal, Passed

\* When the master renames, every local master has asked for the barrier and
\* no trace is written any more.
LEMMA CompleteKept ==
  ASSUME TypeOK, NEW r \in Ranks, StepOf(r), JobInv, RenameInv,
         Rename(r) => \A q \in LocalMasters : AskedGlobal(q)
  PROVE  Complete'
<1>0. LocalMasters \subseteq Ranks
  BY TopologyAssumption
<1>1. \A q \in Ranks : pc[q] \in Later => pc'[q] \in Later
  BY LaterStays, StepMovesItsOwn
<1>2. CASE Rename(r)
  <2>1. pc[r] = "rename" /\ (moved' => moved \/ final' = trace) /\ trace' = trace
        /\ (moved /\ moved' => final' \in {final, trace})
    BY <1>2 DEF Rename
  <2>2. \A q \in LocalMasters : pc[q] \in Later
    BY <1>0, <1>2 DEF RenameInv, Barrier
  <2> QED
    BY <1>0, <1>1, <2>1, <2>2 DEF RenameInv, Complete
<1>3. CASE ~Rename(r)
  <2>1. moved' = moved /\ final' = final
        /\ (trace' = trace \/ pc[r] \in {"teardown", "analysis"})
    BY <1>3 DEF StepOf, Iprof, DaemonRuns, Fault, StartDaemon, AskLocal1, AskLocal2, AskGlobal,
       AskFinish, Request, WaitReady, Ready, Reap, Setup, AppEnds, Teardown, Analysis,
       SetupFails, AppNotFound, AppInterrupted, TeardownFails, AnalysisFails,
       InterruptedInBlock, InterruptedAtExit, jobVars
  <2>2. pc[r] \in {"teardown", "analysis"} => r \in LocalMasters
    BY DEF JobInv, Path
  <2>3. moved => trace' = trace
    BY <2>1, <2>2 DEF RenameInv, Complete, Later
  <2> QED
    BY <1>0, <1>1, <2>1, <2>3 DEF RenameInv, Complete
<1> QED
  BY <1>2, <1>3

\* A master that renames has come out of the barrier.
LEMMA RenamerPassed ==
  ASSUME RenameInv, NEW r \in Ranks, Rename(r)
  PROVE  r = Master /\ err[r] = "none" /\ gbCount[r] > 0
BY DEF Rename, RenameInv, Barrier, Passed

\* Every step keeps the invariant, if the barrier holds the master back until
\* every local master is in it.
LEMMA RenameInvKept ==
  ASSUME TypeOK, JobInv, RenameInv, [Next]_vars,
         gbCount[Master] > 0 /\ err[Master] = "none" => \A q \in LocalMasters : AskedGlobal(q)
  PROVE  RenameInv'
<1>1. CASE UNCHANGED ownVars
  BY <1>1 DEF ownVars, sdVars, RenameInv, Barrier, AskedGlobal, Passed, Complete
<1>2. ASSUME NEW r \in Ranks, StepOf(r) PROVE RenameInv'
  <2>1. ASSUME NEW q \in Ranks PROVE Barrier(q)'
    <3>1. Barrier(q) /\ RankInv(q)
      BY DEF RenameInv, JobInv, RankInv
    <3> QED
      BY <1>2, <3>1, BarrierKept, BarrierOfOthers
  <2>2. Rename(r) => \A q \in LocalMasters : AskedGlobal(q)
    BY <1>2, RenamerPassed
  <2>3. Complete'
    BY <1>2, <2>2, CompleteKept
  <2> QED
    BY <2>1, <2>3 DEF RenameInv
<1> QED
  BY <1>1, <1>2, RestUnchanged DEF Next, StepOf

\* The invariant holds at first.
LEMMA RenameInvInit == Init => RenameInv
<1> SUFFICES ASSUME Init PROVE RenameInv
  OBVIOUS
<1>1. \A r \in Ranks : /\ pc[r] = "boot" /\ err[r] = "none" /\ toDaemon[r] = <<>>
                       /\ dpc[r] = "unborn" /\ gbCount[r] = 0
  BY DEF Init, SDInit
<1>2. \A r \in Ranks : Barrier(r)
  BY <1>1 DEF Barrier, AskedGlobal, Passed
<1> QED
  BY <1>2 DEF Init, RenameInv, Complete

-----------------------------------------------------------------------------
(* The sentinels of sync_daemon_fs. *)

Started(q) == dpc[q] \notin {"unborn", "start"}
Withdrawn(q) == gbCount[q] > 0 \/ dpc[q] \in {"global", "clean"}

\* A local master's sentinel lies in the shared folder until it withdraws it.
Sentinels == \A q \in LocalMasters : Started(q) => q \in globalDir \/ Withdrawn(q)

\* The program of the master has met those of all ranks before it ends.
Gathered == pc[Master] \in {"lb2", "lb2_wait", "teardown", "analysis", "gb"} \union Later
              => \A q \in Ranks : pc[q] \notin Preparing

\* What the master cleans up, and then comes out of, is over.
Emptied == dpc[Master] = "clean" \/ gbCount[Master] > 0
             => \A q \in LocalMasters : Withdrawn(q)

\* A master that failed may meet nobody: it will not rename.
SentinelInv == /\ \A r \in Ranks : err[r] # "interrupt" /\ (dpc[r] = "clean" => r = Master)
               /\ err[Master] = "none" => Sentinels /\ Gathered /\ Emptied

\* Only DaemonStart, EnterGlobal and CleanGlobal touch the shared folder.
LEMMA DaemonKeepsSentinels ==
  ASSUME SDTypeOK, Kind = "fs", NEW r \in Ranks, DaemonStep(r), NEW q \in Ranks,
         dpc[r] # "clean" \/ Withdrawn(q), q \in LocalMasters
  PROVE  /\ Withdrawn(q) => Withdrawn(q)'
         /\ Started(q)' => Started(q) \/ q \in globalDir'
         /\ q \in globalDir => q \in globalDir' \/ Withdrawn(q)'
<1>a. /\ dpc \in [Ranks -> DaemonPcs] /\ gbCount \in [Ranks -> Nat] /\ gbCount[q] \in Nat
  BY DEF SDTypeOK
<1>1. Withdrawn(q) => Withdrawn(q)'
  <2>1. \/ gbCount'[q] = gbCount[q] /\ dpc'[q] = dpc[q]
        \/ gbCount'[q] = gbCount[q] + 1
        \/ gbCount'[q] = gbCount[q] /\ dpc[q] \notin {"global", "clean"}
        \/ gbCount'[q] = gbCount[q] /\ dpc'[q] = "clean"
    BY <1>a DEF DaemonStep, DaemonStart, ReadInit, ReadFinish, ReadEof, EnterLocal,
       LeaveLocal, EnterGlobal, LeaveGlobal, CleanGlobal, Read, Reply
  <2>2. gbCount[q] + 1 > 0
    BY <1>a
  <2> QED
    BY <2>1, <2>2 DEF Withdrawn
<1>2. Started(q)' => Started(q) \/ q \in globalDir'
  BY <1>a DEF Started, DaemonStep, DaemonStart, ReadInit, ReadFinish, ReadEof, EnterLocal,
     LeaveLocal, EnterGlobal, LeaveGlobal, CleanGlobal, Read, Reply
<1>3. CASE CleanGlobal(r)
  BY <1>1, <1>2, <1>3 DEF CleanGlobal
<1>4. CASE EnterGlobal(r)
  <2>1. r # q => globalDir' = globalDir \ {r}
    BY <1>4 DEF EnterGlobal
  <2>2. r = q => dpc'[q] = "global"
    BY <1>a, <1>4 DEF EnterGlobal, Read
  <2> QED
    BY <1>1, <1>2, <2>1, <2>2 DEF Withdrawn
<1>5. CASE ~CleanGlobal(r) /\ ~EnterGlobal(r)
  <2>1. globalDir \subseteq globalDir'
    BY <1>5 DEF DaemonStep, DaemonStart, ReadInit, ReadFinish, ReadEof, EnterLocal,
       LeaveLocal, LeaveGlobal, folders
  <2> QED
    BY <1>1, <1>2, <2>1
<1> QED
  BY <1>3, <1>4, <1>5

\* The launcher does not touch the folder, and only starts a daemon.
LEMMA LauncherKeepsSentinels ==
  ASSUME TypeOK, NEW r \in Ranks, Iprof(r) \/ Fault(r), NEW q \in Ranks
  PROVE  /\ gbCount' = gbCount /\ globalDir' = globalDir
         /\ dpc'[q] = dpc[q] \/ (dpc[q] = "unborn" /\ dpc'[q] = "start")
BY DEF TypeOK, SDTypeOK, Iprof, Fault, StartDaemon, AskLocal1, AskLocal2, AskGlobal, AskFinish,
   Request, WaitReady, Ready, Reap, Setup, AppEnds, Teardown, Analysis, Rename, SetupFails,
   AppNotFound, AppInterrupted, TeardownFails, AnalysisFails, InterruptedInBlock,
   InterruptedAtExit, Spawn, Send, Receive, Close, sdVars, folders

\* An exception stays one, nobody prepares twice, and without a failure the
\* master leaves its program only when everybody is prepared.
LEMMA LauncherGathers ==
  ASSUME TypeOK, NEW r \in Ranks, StepOf(r), AppSyncs, "interrupt" \notin Faults,
         \A q \in Ranks : err[q] # "interrupt"
  PROVE  /\ \A q \in Ranks : err'[q] # "interrupt"
         /\ \A q \in Ranks : err'[q] = "none" => err[q] = "none"
         /\ \A q \in Ranks : pc[q] \notin Preparing => pc'[q] \notin Preparing
         /\ err'[Master] = "none" /\ Gathered => Gathered'
<1>a. Master \in Ranks /\ pc \in [Ranks -> Pcs] /\ err \in [Ranks -> Errors]
  BY TopologyAssumption DEF TypeOK
<1> USE DEF StepOf, Iprof, DaemonRuns, Fault, StartDaemon, AskLocal1, AskLocal2, AskGlobal,
        AskFinish, Request, WaitReady, Ready, Reap, Setup, AppEnds, Teardown, Analysis, Rename,
        SetupFails, AppNotFound, AppInterrupted, TeardownFails, AnalysisFails,
        InterruptedInBlock, InterruptedAtExit, GoTo, Raise
<1>1. err'[r] # "interrupt" /\ (err'[r] = "none" => err[r] = "none")
  BY <1>a
<1>2. pc[r] \notin Preparing => pc'[r] \notin Preparing
  BY <1>a DEF Preparing, AfterOpen, AfterLocal2
<1>3. \A q \in Ranks : q # r => pc'[q] = pc[q] /\ err'[q] = err[q]
  BY StepMovesItsOwn
<1>4. \A q \in Ranks : pc[q] \notin Preparing => pc'[q] \notin Preparing
  BY <1>2, <1>3
<1>5. ASSUME err'[Master] = "none", Gathered,
             pc'[Master] \in {"lb2", "lb2_wait", "teardown", "analysis", "gb"} \union Later
      PROVE  \A q \in Ranks : pc[q] \notin Preparing
  <2>1. CASE AppEnds(Master)
    BY <2>1
  <2>2. CASE r = Master /\ ~AppEnds(Master)
    <3>1. pc[Master] \in {"lb2", "lb2_wait", "teardown", "analysis", "gb"} \union Later
      BY <1>a, <1>5, <2>2 DEF Later, AfterOpen, AfterLocal2
    <3> QED
      BY <1>5, <3>1 DEF Gathered
  <2>3. CASE r # Master
    BY <1>3, <1>a, <1>5, <2>3 DEF Gathered
  <2> QED
    BY <2>1, <2>2, <2>3
<1> QED
  BY <1>1, <1>3, <1>4, <1>5 DEF Gathered

\* A rank that is prepared has a daemon that is started.
LEMMA PreparedStarted ==
  ASSUME TypeOK, NEW q \in Ranks, RankInv(q), err[q] # "interrupt", pc[q] \notin Preparing
  PROVE  Started(q)
<1>1. pc[q] \in Pcs
  BY DEF TypeOK
<1> QED
  BY <1>1 DEF RankInv, Talk, Started, Preparing, Pcs, Waiting, Ended, Idle, Open, Over

\* The master's daemon finds the folder empty when everyone has withdrawn.
LEMMA MasterEmpties ==
  ASSUME TypeOK, Kind = "fs", JobInv, RenameInv, SentinelInv, err[Master] = "none",
         DaemonStep(Master)
  PROVE  Emptied' \/ (\E q \in LocalMasters : Withdrawn(q) /\ ~Withdrawn(q)')
<1>a. /\ Master \in Ranks /\ Master \in LocalMasters /\ LocalMasters \subseteq Ranks
      /\ dpc \in [Ranks -> DaemonPcs] /\ gbCount \in [Ranks -> Nat]
  BY TopologyAssumption DEF TypeOK, SDTypeOK
<1>1. CASE LeaveGlobal(Master)
  <2>1. globalDir = {} /\ dpc[Master] = "global"
    BY <1>1 DEF LeaveGlobal, GlobalComplete
  <2>2. pc[Master] \in Later
    BY <1>a, <2>1 DEF RenameInv, Barrier, AskedGlobal
  <2>3. \A q \in LocalMasters : Started(q)
    <3>1. \A q \in Ranks : pc[q] \notin Preparing /\ err[q] # "interrupt" /\ RankInv(q)
      BY <2>2 DEF SentinelInv, Gathered, JobInv, RankInv
    <3> QED
      BY <1>a, <3>1, PreparedStarted
  <2>4. \A q \in LocalMasters : Withdrawn(q)
    BY <2>1, <2>3 DEF SentinelInv, Sentinels
  <2> QED
    BY <2>4 DEF Emptied
<1>2. CASE ~LeaveGlobal(Master)
  <2>1. dpc'[Master] = "clean" \/ gbCount'[Master] > 0
          => dpc[Master] = "clean" \/ gbCount[Master] > 0
    BY <1>a, <1>2 DEF DaemonStep, DaemonStart, ReadInit, ReadFinish, ReadEof, EnterLocal,
       LeaveLocal, EnterGlobal, CleanGlobal, Read, Reply
  <2> QED
    BY <2>1 DEF SentinelInv, Emptied
<1> QED
  BY <1>1, <1>2

\* Every step keeps the sentinels where they belong.
LEMMA SentinelInvKept ==
  ASSUME TypeOK, Kind = "fs", AppSyncs, "interrupt" \notin Faults, JobInv, RenameInv,
         SentinelInv, [Next]_vars
  PROVE  SentinelInv'
<1>a. /\ Master \in Ranks /\ LocalMasters \subseteq Ranks /\ SDTypeOK
      /\ dpc \in [Ranks -> DaemonPcs]
  BY TopologyAssumption DEF TypeOK, SDTypeOK
<1>1. CASE UNCHANGED ownVars
  BY <1>1 DEF ownVars, sdVars, SentinelInv, Sentinels, Gathered, Emptied, Started, Withdrawn
<1>2. ASSUME NEW r \in Ranks, StepOf(r) PROVE SentinelInv'
  <2>1. /\ \A q \in Ranks : err'[q] # "interrupt"
        /\ err'[Master] = "none" => err[Master] = "none"
        /\ err'[Master] = "none" /\ Gathered => Gathered'
    BY <1>a, <1>2, LauncherGathers DEF SentinelInv
  <2>2. CASE Iprof(r) \/ Fault(r)
    <3>1. \A q \in Ranks : /\ gbCount' = gbCount /\ globalDir' = globalDir
                           /\ dpc'[q] = dpc[q] \/ (dpc[q] = "unborn" /\ dpc'[q] = "start")
      BY <2>2, LauncherKeepsSentinels
    <3>2. \A q \in Ranks : /\ dpc'[q] = "clean" => q = Master
                           /\ Started(q)' => Started(q)
                           /\ Withdrawn(q) => Withdrawn(q)'
      BY <3>1 DEF SentinelInv, Started, Withdrawn
    <3>3. Sentinels => Sentinels'
      BY <1>a, <3>1, <3>2 DEF Sentinels
    <3>4. Emptied => Emptied'
      BY <1>a, <3>1, <3>2 DEF Emptied
    <3> QED
      BY <2>1, <3>2, <3>3, <3>4 DEF SentinelInv
  <2>3. CASE DaemonRuns(r)
    <3>1. DaemonStep(r) /\ err' = err
      BY <2>3 DEF DaemonRuns
    <3>2. \A q \in Ranks : dpc'[q] = "clean" => q = Master
      BY <1>a, <3>1 DEF SentinelInv, DaemonStep, DaemonStart, ReadInit, ReadFinish, ReadEof,
         EnterLocal, LeaveLocal, EnterGlobal, LeaveGlobal, CleanGlobal, Read, Reply
    <3>3. ASSUME err[Master] = "none"
          PROVE  Sentinels' /\ Emptied'
      <4>1. \A q \in LocalMasters : dpc[r] # "clean" \/ Withdrawn(q)
        BY <3>3 DEF SentinelInv, Emptied
      <4>2. \A q \in LocalMasters : /\ Withdrawn(q) => Withdrawn(q)'
                                    /\ Started(q)' => Started(q) \/ q \in globalDir'
                                    /\ q \in globalDir => q \in globalDir' \/ Withdrawn(q)'
        BY <1>a, <3>1, <4>1, DaemonKeepsSentinels
      <4>3. Sentinels'
        BY <3>3, <4>2 DEF SentinelInv, Sentinels
      <4>4. CASE r = Master
        <5>1. Emptied' \/ (\E q \in LocalMasters : Withdrawn(q) /\ ~Withdrawn(q)')
          BY <3>1, <3>3, <4>4, MasterEmpties
        <5> QED
          BY <4>2, <4>3, <5>1
      <4>5. CASE r # Master
        <5>1. dpc'[Master] = dpc[Master] /\ gbCount'[Master] = gbCount[Master]
          BY <1>a, <3>1, <4>5 DEF SDTypeOK, DaemonStep, DaemonStart, ReadInit, ReadFinish,
             ReadEof, EnterLocal, LeaveLocal, EnterGlobal, LeaveGlobal, CleanGlobal, Read, Reply
        <5>2. Emptied
          BY <3>3 DEF SentinelInv
        <5> QED
          BY <4>2, <4>3, <5>1, <5>2 DEF Emptied
      <4> QED
        BY <4>4, <4>5
    <3> QED
      BY <2>1, <3>1, <3>2, <3>3 DEF SentinelInv
  <2> QED
    BY <1>2, <2>2, <2>3 DEF StepOf
<1> QED
  BY <1>1, <1>2, RestUnchanged DEF Next, StepOf

\* It holds at first.
LEMMA SentinelInvInit == Init => SentinelInv
<1> SUFFICES ASSUME Init PROVE SentinelInv
  OBVIOUS
<1>1. \A r \in Ranks : pc[r] = "boot" /\ err[r] = "none" /\ dpc[r] = "unborn" /\ gbCount[r] = 0
  BY DEF Init, SDInit
<1>2. Master \in Ranks /\ LocalMasters \subseteq Ranks
  BY TopologyAssumption
<1> QED
  BY <1>1, <1>2 DEF SentinelInv, Sentinels, Gathered, Emptied, Started, Withdrawn, Later

-----------------------------------------------------------------------------
(* The theorems. *)

\* rename_folder: with the MPI daemon, once the master has given the folder
\* its final name no node writes a trace under the temporary one, whatever
\* has failed: the barrier is between all ranks, failed ones included.
THEOREM JobTracesInFinalFolder ==
  ASSUME Kind = "mpi" PROVE Spec => []TracesInFinalFolder
<1>1. TypeOK /\ GlobalInv /\ JobInv /\ RenameInv /\ [Next]_vars => RenameInv'
  <2> SUFFICES ASSUME TypeOK, GlobalInv, JobInv, RenameInv, [Next]_vars PROVE RenameInv'
    OBVIOUS
  <2>1. ASSUME gbCount[Master] > 0, NEW q \in LocalMasters PROVE AskedGlobal(q)
    <3>1. Master \in Ranks /\ q \in Ranks
      BY TopologyAssumption
    <3>2. gbCount[Master] \in Nat /\ gbCount[q] \in Nat
      BY <3>1 DEF TypeOK, SDTypeOK
    <3>3. gbCount[Master] <= GlobalArrived(q)
      BY <3>1 DEF GlobalInv
    <3> QED
      BY <2>1, <3>2, <3>3 DEF GlobalArrived, InGlobal, AskedGlobal
  <2> QED
    BY <2>1, RenameInvKept
<1>2. Spec => []GlobalInv
  BY JobRefinesDaemons, GlobalInvAlways, PTL
<1>3. RenameInv => TracesInFinalFolder
  BY DEF RenameInv, Complete, TracesInFinalFolder
<1> QED
  BY <1>1, <1>2, <1>3, RenameInvInit, JobInvAlways, JobTypeCorrect, PTL DEF Spec

\* The same with the default daemon, for a program that synchronises its ranks
\* and is not interrupted, whatever else fails: the file system's barrier only
\* waits for who has joined it, and the program makes sure that all have.
THEOREM JobTracesInFinalFolderFs ==
  ASSUME Kind = "fs", AppSyncs, "interrupt" \notin Faults
  PROVE  Spec => []TracesInFinalFolder
<1>1. TypeOK /\ JobInv /\ RenameInv /\ SentinelInv /\ [Next]_vars => RenameInv' /\ SentinelInv'
  <2> SUFFICES ASSUME TypeOK, JobInv, RenameInv, SentinelInv, [Next]_vars
               PROVE  RenameInv' /\ SentinelInv'
    OBVIOUS
  <2>1. gbCount[Master] > 0 /\ err[Master] = "none" => \A q \in LocalMasters : AskedGlobal(q)
    BY DEF SentinelInv, Emptied, Withdrawn, AskedGlobal
  <2> QED
    BY <2>1, RenameInvKept, SentinelInvKept
<1>2. RenameInv => TracesInFinalFolder
  BY DEF RenameInv, Complete, TracesInFinalFolder
<1> QED
  BY <1>1, <1>2, RenameInvInit, SentinelInvInit, JobInvAlways, JobTypeCorrect, PTL DEF Spec

\* Nor is any iprof past its global barrier while a local master is not in it.
THEOREM JobGlobalBarrier == ASSUME Kind = "mpi" PROVE Spec => []GlobalBarrierSafe
BY JobRefinesDaemons, GlobalBarrierCorrect, PTL
=============================================================================
