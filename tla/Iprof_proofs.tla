---------------------------- MODULE Iprof_proofs -----------------------------
(* What the launcher makes of its daemon's barriers, for every topology,     *)
(* both kinds of daemon and every set of faults: a session is up while any   *)
(* program of its node runs, requests and replies stay in step, and sessions *)
(* are released.                                                             *)
EXTENDS Iprof, SyncDaemon_proofs

-----------------------------------------------------------------------------
(* The launcher is a client of its daemon.                                   *)

\* What the end of an abandoned program leaves alone: everything else.
ownVars == <<sdVars, pc, err, session, trace, final, moved>>

LEMMA RestUnchanged ==
  /\ UNCHANGED vars => UNCHANGED ownVars
  /\ \A r \in Ranks : AbandonedEnds(r) => UNCHANGED ownVars
BY DEF vars, jobVars, ownVars, AbandonedEnds

\* Every step of a job is a step of the daemons and their clients, or none.
LEMMA StepIsClientStep == [Next]_vars => [SDNext]_sdVars
<1> SUFFICES ASSUME [Next]_vars PROVE [SDNext]_sdVars
  OBVIOUS
<1>1. CASE UNCHANGED ownVars
  BY <1>1 DEF ownVars
<1>2. ASSUME NEW r \in Ranks, Iprof(r) PROVE [SDNext]_sdVars
  <2>1. ClientStep(r) \/ UNCHANGED sdVars
    BY <1>2 DEF Iprof, StartDaemon, AskLocal1, AskLocal2, AskGlobal, AskFinish, Request,
                WaitReady, Ready, Reap, Setup, AppEnds, Teardown, Analysis, Rename,
                ClientStep, Requests
  <2> QED
    BY <2>1 DEF SDNext
<1>3. ASSUME NEW r \in Ranks, DaemonRuns(r) PROVE [SDNext]_sdVars
  BY <1>3 DEF DaemonRuns, SDNext
<1>4. ASSUME NEW r \in Ranks, Fault(r) PROVE [SDNext]_sdVars
  <2>1. ClientStep(r) \/ UNCHANGED sdVars
    BY <1>4 DEF Fault, SetupFails, AppNotFound, AppInterrupted, TeardownFails,
                AnalysisFails, InterruptedInBlock, InterruptedAtExit, ClientStep
  <2> QED
    BY <2>1 DEF SDNext
<1> QED
  BY <1>1, <1>2, <1>3, <1>4, RestUnchanged DEF Next

\* A job is a behaviour of the daemons with some client.
THEOREM JobRefinesDaemons == Spec => SDSpec
<1>1. Init => SDInit
  BY DEF Init
<1> QED
  BY <1>1, StepIsClientStep, PTL DEF Spec, SDSpec

\* So the launchers, whatever fails, meet at a barrier.
THEOREM JobBarrier == Spec => LocalBarrierHolds
BY JobRefinesDaemons, BarrierRefinement, PTL

-----------------------------------------------------------------------------
(* Types. *)

\* Every step of a job keeps the types of the launchers.
LEMMA JobStepTyped == TypeOK /\ SDTypeOK' /\ [Next]_vars => TypeOK'
<1> SUFFICES ASSUME TypeOK, SDTypeOK', [Next]_vars PROVE TypeOK'
  OBVIOUS
<1> USE DEF TypeOK, Pcs, Preparing, Waiting, Ended, Errors, GoTo, Raise, jobVars, LocalMaster
<1>a. \A r \in Ranks : NodeOf[r] \in Nodes
  BY TopologyAssumption
<1>1. CASE UNCHANGED vars
  BY <1>1 DEF vars
<1>2. ASSUME NEW r \in Ranks, Iprof(r) PROVE TypeOK'
  <2>1. CASE StartDaemon(r) \/ AskLocal1(r) \/ AskLocal2(r) \/ AskGlobal(r) \/ AskFinish(r)
    BY <2>1 DEF StartDaemon, AskLocal1, AskLocal2, AskGlobal, AskFinish, Request
  <2>2. CASE WaitReady(r)
    BY <2>2 DEF WaitReady, Ready, AfterLocal2
  <2>3. CASE Reap(r)
    BY <2>3 DEF Reap, AfterOpen
  <2>4. CASE Setup(r) \/ AppEnds(r)
    BY <1>a, <2>4 DEF Setup, AppEnds
  <2>5. CASE Teardown(r)
    BY <1>a, <2>5 DEF Teardown
  <2>6. CASE Analysis(r)
    BY <1>a, <2>6 DEF Analysis
  <2>7. CASE Rename(r)
    BY <2>7 DEF Rename
  <2> QED
    BY <1>2, <2>1, <2>2, <2>3, <2>4, <2>5, <2>6, <2>7 DEF Iprof
<1>3. ASSUME NEW r \in Ranks, DaemonRuns(r) PROVE TypeOK'
  BY <1>3 DEF DaemonRuns
<1>5. ASSUME NEW r \in Ranks, AbandonedEnds(r) PROVE TypeOK'
  BY <1>5 DEF AbandonedEnds
<1>4. ASSUME NEW r \in Ranks, Fault(r) PROVE TypeOK'
  BY <1>a, <1>4 DEF Fault, SetupFails, AppNotFound, AppInterrupted, TeardownFails,
              AnalysisFails, InterruptedInBlock, InterruptedAtExit
<1> QED
  BY <1>1, <1>2, <1>3, <1>4, <1>5 DEF Next

\* Every variable of a job keeps its type.
THEOREM JobTypeCorrect == Spec => []TypeOK
<1>1. Init => TypeOK
  BY InitTyped DEF Init, TypeOK, Pcs, Preparing, Errors
<1>2. Spec => []SDTypeOK
  BY JobRefinesDaemons, TypeCorrect, PTL
<1> QED
  BY <1>1, <1>2, JobStepTyped, PTL DEF Spec

-----------------------------------------------------------------------------
(* The invariant. *)

\* No request is open: nothing is under way in either direction.
Idle(r) == /\ connected[r]
           /\ toDaemon[r] = <<>> /\ toIprof[r] = <<>>
           /\ dpc[r] = "loop"

\* The one open request m has been sent, is being served or was answered.
Open(r, m) ==
  /\ connected[r]
  /\ \/ /\ toDaemon[r] = <<m>> /\ toIprof[r] = <<>>
        /\ dpc[r] = "loop" \/ (m = "INIT" /\ dpc[r] = "start")
     \/ /\ toDaemon[r] = <<>> /\ toIprof[r] = <<>>
        /\ \/ m = "LOCAL_BARRIER" /\ dpc[r] = "local"
           \/ m = "GLOBAL_BARRIER" /\ dpc[r] \in {"global", "clean"}
     \/ /\ toDaemon[r] = <<>> /\ toIprof[r] = <<"READY">>
        /\ dpc[r] = IF m = "FINISH" THEN "exited" ELSE "loop"

Unborn(r) == /\ toDaemon[r] = <<>> /\ toIprof[r] = <<>> /\ connected[r]
             /\ dpc[r] = "unborn"
Over(r) == toDaemon[r] = <<>> /\ toIprof[r] = <<>> /\ dpc[r] = "exited"

\* What is under way between an iprof, unless interrupted, and its daemon.
Talk(r) ==
  err[r] # "interrupt" =>
    /\ pc[r] = "boot" => Unborn(r)
    /\ pc[r] = "init_wait" => Open(r, "INIT")
    /\ pc[r] \in {"lb1_wait", "lb2_wait"} => Open(r, "LOCAL_BARRIER")
    /\ pc[r] = "gb_wait" => Open(r, "GLOBAL_BARRIER")
    /\ pc[r] = "fin_wait" => Open(r, "FINISH")
    /\ pc[r] \in {"setup", "lb1", "app", "lb2", "teardown", "analysis", "gb", "fin"} => Idle(r)
    /\ pc[r] \in {"reap", "rename", "done", "failed"} => Over(r)

\* How many local barriers the daemon has come out of by then.
Counts(r) ==
  /\ pc[r] \in {"boot", "init_wait", "setup", "lb1"} => lbCount[r] = 0
  /\ pc[r] = "lb1_wait" => lbCount[r] = IF toIprof[r] = <<>> THEN 0 ELSE 1
  /\ pc[r] \in {"app", "lb2"} => lbCount[r] = 1
  /\ pc[r] = "lb2_wait" => lbCount[r] = IF toIprof[r] = <<>> THEN 1 ELSE 2
  /\ pc[r] \in {"teardown", "analysis"} => lbCount[r] = 2

\* Where an interrupted iprof can be, and who tears a session down.
Path(r) ==
  /\ err[r] = "interrupt" => pc[r] \in {"gb", "gb_wait", "fin", "fin_wait", "reap", "failed"}
  /\ pc[r] \in {"teardown", "analysis"} => r \in LocalMasters

\* A local master has asked for a barrier, at whatever stage the request is.
Asked(m) == \/ lbCount[m] > 0
            \/ dpc[m] = "local"
            \/ \E i \in 1 .. Len(toDaemon[m]) : toDaemon[m][i] = "LOCAL_BARRIER"

\* A session of a node against its local master.
Session(m) ==
  LET s == session[NodeOf[m]] IN
  /\ Asked(m) => s # "none"
  /\ s = "down" => lbCount[m] >= 2
  /\ pc[m] \in {"lb1", "lb1_wait", "app", "lb2", "lb2_wait", "teardown", "analysis"}
       => s # "none"
  /\ pc[m] \in {"analysis", "gb", "gb_wait", "fin", "fin_wait", "reap", "rename", "done",
                "failed"} /\ err[m] \in {"none", "enoent"}
       => s = "down"

JobInv == /\ \A r \in Ranks : Talk(r) /\ Counts(r) /\ Path(r)
          /\ \A m \in LocalMasters : Session(m)

-----------------------------------------------------------------------------
(* Steps of the daemon. *)

\* Queues of at most one message.
LEMMA OneMessage ==
  ASSUME NEW m
  PROVE  /\ <<m>> # <<>> /\ Head(<<m>>) = m /\ Tail(<<m>>) = <<>>
         /\ Append(<<>>, m) = <<m>> /\ Len(<<m>>) = 1 /\ <<m>>[1] = m
OBVIOUS

\* Without a request the daemon rests.
LEMMA DaemonRests ==
  ASSUME NEW r \in Ranks, Idle(r) \/ Unborn(r) \/ Over(r)
  PROVE  ~DaemonStep(r)
BY DEF Idle, Unborn, Over, DaemonStep, DaemonStart, ReadInit, ReadFinish, ReadEof, EnterLocal,
       LeaveLocal, EnterGlobal, LeaveGlobal, CleanGlobal, Read

\* An open request stays open, and a local barrier is counted when its READY
\* is sent.
LEMMA DaemonServes ==
  ASSUME SDTypeOK, NEW r \in Ranks, NEW m \in Requests, Open(r, m), DaemonStep(r)
  PROVE  /\ Open(r, m)'
         /\ lbCount'[r] = IF m = "LOCAL_BARRIER" /\ toIprof[r] # toIprof'[r]
                          THEN lbCount[r] + 1 ELSE lbCount[r]
<1> USE OneMessage DEF Open
<1>a. /\ toDaemon \in [Ranks -> Seq(Requests)] /\ toIprof \in [Ranks -> Seq({"READY"})]
      /\ dpc \in [Ranks -> DaemonPcs] /\ lbCount \in [Ranks -> Nat]
      /\ connected \in [Ranks -> BOOLEAN]
  BY DEF SDTypeOK
<1>1. CASE DaemonStart(r)
  BY <1>a, <1>1 DEF DaemonStart, socket
<1>2. CASE ReadInit(r)
  BY <1>a, <1>2 DEF ReadInit, Read, Reply
<1>3. CASE ReadFinish(r)
  <2>1. m = "FINISH" /\ toIprof[r] = <<>> /\ toDaemon[r] = <<m>>
    BY <1>3 DEF ReadFinish, Read
  <2>2. /\ toDaemon' = [toDaemon EXCEPT ![r] = Tail(@)]
        /\ connected' = connected /\ lbCount' = lbCount
        /\ toIprof' = [toIprof EXCEPT ![r] = Append(@, "READY")]
        /\ dpc' = [dpc EXCEPT ![r] = "exited"]
    BY <1>3 DEF ReadFinish, Read, Reply
  <2>3. toDaemon'[r] = <<>> /\ toIprof'[r] = <<"READY">> /\ dpc'[r] = "exited"
    BY <1>a, <2>1, <2>2
  <2> QED
    BY <2>1, <2>2, <2>3
<1>4. ~ReadEof(r)
  BY DEF ReadEof
<1>5. CASE EnterLocal(r)
  <2>1. m = "LOCAL_BARRIER" /\ toIprof[r] = <<>> /\ toDaemon[r] = <<m>>
    BY <1>5 DEF EnterLocal, Read
  <2>2. /\ toDaemon' = [toDaemon EXCEPT ![r] = Tail(@)]
        /\ UNCHANGED <<connected, lbCount, toIprof>>
        /\ dpc' = [dpc EXCEPT ![r] = "local"]
    BY <1>5 DEF EnterLocal, Read
  <2>3. toDaemon'[r] = <<>> /\ toIprof'[r] = <<>> /\ dpc'[r] = "local"
    BY <1>a, <2>1, <2>2
  <2> QED
    BY <2>1, <2>2, <2>3
<1>6. CASE LeaveLocal(r)
  <2>1. m = "LOCAL_BARRIER" /\ toIprof[r] = <<>> /\ toDaemon[r] = <<>>
    BY <1>6 DEF LeaveLocal
  <2>2. /\ toDaemon' = toDaemon /\ connected' = connected
        /\ lbCount' = [lbCount EXCEPT ![r] = @ + 1]
        /\ toIprof' = [toIprof EXCEPT ![r] = Append(@, "READY")]
        /\ dpc' = [dpc EXCEPT ![r] = "loop"]
    BY <1>6 DEF LeaveLocal, Reply
  <2>3. lbCount'[r] = lbCount[r] + 1 /\ toIprof'[r] = <<"READY">> /\ dpc'[r] = "loop"
    BY <1>a, <2>1, <2>2
  <2> QED
    BY <2>1, <2>2, <2>3
<1>7. CASE EnterGlobal(r)
  <2>1. m = "GLOBAL_BARRIER" /\ toIprof[r] = <<>> /\ toDaemon[r] = <<m>>
    BY <1>7 DEF EnterGlobal, Read
  <2>2. /\ toDaemon' = [toDaemon EXCEPT ![r] = Tail(@)]
        /\ connected' = connected /\ lbCount' = lbCount
        /\ \/ /\ toIprof' = [toIprof EXCEPT ![r] = Append(@, "READY")]
              /\ dpc' = [dpc EXCEPT ![r] = "loop"]
           \/ /\ toIprof' = toIprof
              /\ dpc' = [dpc EXCEPT ![r] = "global"]
    BY <1>7 DEF EnterGlobal, Read, Reply
  <2>3. toDaemon'[r] = <<>>
    BY <1>a, <2>1, <2>2
  <2>4. \/ toIprof'[r] = <<"READY">> /\ dpc'[r] = "loop"
        \/ toIprof'[r] = <<>> /\ dpc'[r] = "global"
    BY <1>a, <2>1, <2>2
  <2> QED
    BY <2>1, <2>2, <2>3, <2>4
<1>8. CASE LeaveGlobal(r)
  BY <1>a, <1>8 DEF LeaveGlobal, Reply
<1>9. CASE CleanGlobal(r)
  BY <1>a, <1>9 DEF CleanGlobal, Reply
<1> QED
  BY <1>1, <1>2, <1>3, <1>4, <1>5, <1>6, <1>7, <1>8, <1>9 DEF DaemonStep

\* What is left of a queue was in it.
LEMMA TailWas ==
  ASSUME NEW s \in Seq(Requests), s # <<>>, NEW m,
         \E i \in 1 .. Len(Tail(s)) : Tail(s)[i] = m
  PROVE  \E i \in 1 .. Len(s) : s[i] = m
<1>1. PICK i \in 1 .. Len(Tail(s)) : Tail(s)[i] = m
  OBVIOUS
<1>2. i + 1 \in 1 .. Len(s) /\ s[i + 1] = m
  BY <1>1
<1> QED
  BY <1>2

\* The daemon of a rank moves no other, asks for nothing and forgets nothing.
LEMMA DaemonAsksNothing ==
  ASSUME SDTypeOK, NEW r \in Ranks, DaemonStep(r), NEW m \in Ranks
  PROVE  (Asked(m)' => Asked(m)) /\ lbCount'[m] >= lbCount[m]
<1>a. /\ toDaemon \in [Ranks -> Seq(Requests)] /\ toIprof \in [Ranks -> Seq({"READY"})]
      /\ dpc \in [Ranks -> DaemonPcs] /\ lbCount \in [Ranks -> Nat]
  BY DEF SDTypeOK
<1>1. /\ lbCount'[m] \in Nat /\ lbCount'[m] >= lbCount[m]
      /\ lbCount'[m] # lbCount[m] => dpc[m] = "local"
  <2>1. \/ lbCount' = lbCount
        \/ dpc[r] = "local" /\ lbCount' = [lbCount EXCEPT ![r] = @ + 1]
    BY DEF DaemonStep, DaemonStart, ReadInit, ReadFinish, ReadEof, EnterLocal,
           LeaveLocal, EnterGlobal, LeaveGlobal, CleanGlobal
  <2>2. lbCount[r] \in Nat /\ lbCount[m] \in Nat
    BY <1>a
  <2>3. CASE lbCount' = lbCount
    BY <2>2, <2>3
  <2>4. CASE dpc[r] = "local" /\ lbCount' = [lbCount EXCEPT ![r] = @ + 1]
    BY <1>a, <2>2, <2>4
  <2> QED
    BY <2>1, <2>3, <2>4
<1>2. \/ toDaemon'[m] = toDaemon[m]
      \/ toDaemon[m] # <<>> /\ toDaemon'[m] = Tail(toDaemon[m])
  BY <1>a DEF DaemonStep, DaemonStart, ReadInit, ReadFinish, ReadEof, EnterLocal,
              LeaveLocal, EnterGlobal, LeaveGlobal, CleanGlobal, Read, socket
<1>3. dpc'[m] = "local" => \/ dpc[m] = "local"
                           \/ toDaemon[m] # <<>> /\ Head(toDaemon[m]) = "LOCAL_BARRIER"
  BY <1>a DEF DaemonStep, DaemonStart, ReadInit, ReadFinish, ReadEof, EnterLocal,
              LeaveLocal, EnterGlobal, LeaveGlobal, CleanGlobal, Read, Reply
<1>4. ASSUME toDaemon[m] # <<>> /\ Head(toDaemon[m]) = "LOCAL_BARRIER" PROVE Asked(m)
  <2>1. 1 \in 1 .. Len(toDaemon[m]) /\ toDaemon[m][1] = "LOCAL_BARRIER"
    BY <1>a, <1>4
  <2> QED
    BY <2>1 DEF Asked
<1>5. ASSUME \E i \in 1 .. Len(toDaemon'[m]) : toDaemon'[m][i] = "LOCAL_BARRIER" PROVE Asked(m)
  <2>1. \E i \in 1 .. Len(toDaemon[m]) : toDaemon[m][i] = "LOCAL_BARRIER"
    <3>1. CASE toDaemon'[m] = toDaemon[m]
      BY <1>5, <3>1
    <3>2. CASE toDaemon[m] # <<>> /\ toDaemon'[m] = Tail(toDaemon[m])
      BY <1>a, <1>5, <3>2, TailWas
    <3> QED
      BY <1>2, <3>1, <3>2
  <2> QED
    BY <2>1 DEF Asked
<1> QED
  BY <1>a, <1>1, <1>3, <1>4, <1>5 DEF Asked

-----------------------------------------------------------------------------
(* Steps of the launcher, seen from its own rank. *)

RankInv(r) == Talk(r) /\ Counts(r) /\ Path(r)

\* A request sent by a rank at rest is open.
LEMMA SendOpens ==
  ASSUME SDTypeOK, NEW r \in Ranks, NEW m, Idle(r), Send(r, m)
  PROVE  Open(r, m)' /\ lbCount' = lbCount
<1>1. /\ toDaemon' = [toDaemon EXCEPT ![r] = Append(@, m)]
      /\ connected' = connected /\ toIprof' = toIprof /\ dpc' = dpc /\ lbCount' = lbCount
  BY DEF Send
<1>2. toDaemon'[r] = <<m>>
  BY <1>1, OneMessage DEF Idle, SDTypeOK
<1> QED
  BY <1>1, <1>2 DEF Idle, Open

\* Reading the READY closes it.
LEMMA ReceiveCloses ==
  ASSUME SDTypeOK, NEW r \in Ranks, NEW m, Open(r, m), Receive(r)
  PROVE  /\ toIprof[r] # <<>> /\ lbCount' = lbCount /\ toIprof'[r] = <<>>
         /\ IF m = "FINISH" THEN Over(r)' /\ connected'[r] ELSE Idle(r)'
<1>1. /\ toIprof[r] # <<>>
      /\ toIprof' = [toIprof EXCEPT ![r] = Tail(@)]
      /\ connected' = connected /\ toDaemon' = toDaemon /\ dpc' = dpc /\ lbCount' = lbCount
  BY DEF Receive
<1>2. toIprof[r] = <<"READY">> /\ toDaemon[r] = <<>> /\ connected[r]
      /\ dpc[r] = IF m = "FINISH" THEN "exited" ELSE "loop"
  BY <1>1 DEF Open
<1>3. toIprof'[r] = <<>>
  BY <1>1, <1>2, OneMessage DEF SDTypeOK
<1> QED
  BY <1>1, <1>2, <1>3 DEF Idle, Over

\* Steps that leave the socket and the daemon alone.
LEMMA OwnStepKeepsRank ==
  ASSUME TypeOK, NEW r \in Ranks, RankInv(r), UNCHANGED sdVars,
         \/ Setup(r) \/ AppEnds(r) \/ Teardown(r) \/ Analysis(r) \/ Rename(r)
         \/ SetupFails(r) \/ AppNotFound(r) \/ AppInterrupted(r) \/ TeardownFails(r)
         \/ AnalysisFails(r) \/ InterruptedInBlock(r)
  PROVE  RankInv(r)'
<1>1. /\ pc \in [Ranks -> Pcs] /\ err \in [Ranks -> Errors]
  BY DEF TypeOK
<1>2. /\ toDaemon' = toDaemon /\ toIprof' = toIprof /\ connected' = connected
      /\ dpc' = dpc /\ lbCount' = lbCount
  BY DEF sdVars
<1>3. /\ Idle(r)' <=> Idle(r)
      /\ Over(r)' <=> Over(r)
  BY <1>2 DEF Idle, Over
<1>4. \/ pc[r] = "setup" /\ pc'[r] = "lb1" /\ err'[r] = err[r]
      \/ pc[r] = "setup" /\ pc'[r] = "gb" /\ err'[r] = "error"
      \/ pc[r] = "app" /\ pc'[r] = "lb2" /\ err'[r] \in {err[r], "enoent"}
      \/ pc[r] = "teardown" /\ pc'[r] = "analysis" /\ err'[r] = err[r]
      \/ pc[r] \in {"teardown", "analysis"} /\ pc'[r] = "gb" /\ err'[r] \in {err[r], "error"}
      \/ pc[r] = "rename" /\ pc'[r] \in {"done", "failed"} /\ err'[r] \in {err[r], "error"}
      \/ pc[r] \in {"lb1_wait", "lb2_wait"} /\ pc'[r] = "gb" /\ err'[r] = "interrupt"
  BY <1>1 DEF Setup, AppEnds, Teardown, Analysis, Rename, SetupFails, AppNotFound,
              AppInterrupted, TeardownFails, AnalysisFails, InterruptedInBlock, GoTo, Raise
<1>5. Talk(r)'
  BY <1>3, <1>4 DEF RankInv, Talk, Path
<1>6. Counts(r)'
  BY <1>2, <1>4 DEF RankInv, Counts
<1>7. Path(r)'
  BY <1>4 DEF RankInv, Path
<1> QED
  BY <1>5, <1>6, <1>7 DEF RankInv

\* Requests.
LEMMA RequestKeepsRank ==
  ASSUME TypeOK, NEW r \in Ranks, RankInv(r),
         StartDaemon(r) \/ AskLocal1(r) \/ AskLocal2(r) \/ AskGlobal(r) \/ AskFinish(r)
  PROVE  RankInv(r)'
<1>1. /\ pc \in [Ranks -> Pcs] /\ err \in [Ranks -> Errors] /\ SDTypeOK
  BY DEF TypeOK
<1>2. CASE StartDaemon(r)
  <2>1. /\ pc[r] = "boot" /\ pc'[r] = "init_wait" /\ err' = err /\ lbCount' = lbCount
    BY <1>1, <1>2 DEF StartDaemon, GoTo, Spawn
  <2>2. Unborn(r)
    BY <2>1 DEF RankInv, Talk, Path
  <2>3. Open(r, "INIT")'
    BY <1>1, <1>2, <2>2 DEF StartDaemon, Spawn, Unborn, Open, SDTypeOK
  <2> QED
    BY <2>1, <2>3 DEF RankInv, Talk, Counts, Path
<1>3. ASSUME NEW at, NEW m, NEW to, Request(r, at, m, to),
             <<at, m, to>> \in {<<"lb1", "LOCAL_BARRIER", "lb1_wait">>,
                                <<"lb2", "LOCAL_BARRIER", "lb2_wait">>,
                                <<"gb", "GLOBAL_BARRIER", "gb_wait">>,
                                <<"fin", "FINISH", "fin_wait">>}
      PROVE  RankInv(r)'
  <2>1. /\ pc[r] = at /\ pc'[r] = to /\ err' = err /\ Send(r, m)
    BY <1>1, <1>3 DEF Request, GoTo
  <2>2. lbCount' = lbCount /\ toIprof' = toIprof
    BY <2>1 DEF Send
  <2>3. ASSUME err[r] # "interrupt" PROVE Idle(r) /\ Open(r, m)'
    <3>1. Idle(r)
      BY <1>3, <2>1, <2>3 DEF RankInv, Talk
    <3> QED
      BY <1>1, <2>1, <3>1, SendOpens
  <2>4. Talk(r)'
    BY <1>3, <2>1, <2>3 DEF Talk
  <2>5. pc[r] \in {"lb1", "lb2"} => toIprof[r] = <<>>
    BY <2>3 DEF RankInv, Path, Idle
  <2>6. Counts(r)'
    BY <1>3, <2>1, <2>2, <2>5 DEF RankInv, Counts
  <2>7. Path(r)'
    BY <1>3, <2>1 DEF RankInv, Path
  <2> QED
    BY <2>4, <2>6, <2>7 DEF RankInv
<1> QED
  BY <1>2, <1>3 DEF AskLocal1, AskLocal2, AskGlobal, AskFinish

\* Replies, and the end of the conversation.
LEMMA ReplyKeepsRank ==
  ASSUME TypeOK, NEW r \in Ranks, RankInv(r),
         WaitReady(r) \/ Reap(r) \/ InterruptedAtExit(r)
  PROVE  RankInv(r)'
<1>1. /\ pc \in [Ranks -> Pcs] /\ err \in [Ranks -> Errors] /\ SDTypeOK
  BY DEF TypeOK
<1>2. ASSUME NEW at, NEW m, NEW to, Ready(r, at, to),
             <<at, m>> \in {<<"init_wait", "INIT">>, <<"lb1_wait", "LOCAL_BARRIER">>,
                            <<"lb2_wait", "LOCAL_BARRIER">>, <<"gb_wait", "GLOBAL_BARRIER">>,
                            <<"fin_wait", "FINISH">>},
             <<at, to>> \in {<<"init_wait", "setup">>, <<"lb1_wait", "app">>,
                             <<"lb2_wait", AfterLocal2(r)>>, <<"gb_wait", "fin">>,
                             <<"fin_wait", "reap">>}
      PROVE  RankInv(r)'
  <2>1. /\ pc[r] = at /\ pc'[r] = to /\ err' = err /\ Receive(r)
    BY <1>1, <1>2 DEF Ready, GoTo
  <2>2. lbCount' = lbCount
    BY <2>1 DEF Receive
  <2>3. ASSUME err[r] # "interrupt"
        PROVE  /\ toIprof[r] # <<>>
               /\ IF m = "FINISH" THEN Over(r)' ELSE Idle(r)'
    <3>1. Open(r, m)
      BY <1>2, <2>1, <2>3 DEF RankInv, Talk
    <3> QED
      BY <1>1, <2>1, <3>1, ReceiveCloses
  <2>a. /\ AfterLocal2(r) \in {"teardown", "gb"}
        /\ AfterLocal2(r) = "teardown" => r \in LocalMasters
    BY DEF AfterLocal2, LocalMaster
  <2>4. Talk(r)'
    BY <1>2, <2>1, <2>3, <2>a DEF Talk
  <2>5. at \in {"lb1_wait", "lb2_wait"} => toIprof[r] # <<>>
    BY <2>1, <2>3 DEF RankInv, Path
  <2>6. Counts(r)'
    BY <1>2, <2>1, <2>2, <2>5, <2>a DEF RankInv, Counts
  <2>7. Path(r)'
    BY <1>2, <2>1, <2>a DEF RankInv, Path
  <2> QED
    BY <2>4, <2>6, <2>7 DEF RankInv
<1>3. CASE WaitReady(r)
  BY <1>2, <1>3 DEF WaitReady
<1>4. CASE Reap(r)
  <2>1. /\ pc[r] = "reap" /\ pc'[r] = AfterOpen(r) /\ err' = err /\ lbCount' = lbCount
        /\ toDaemon' = toDaemon /\ toIprof' = toIprof /\ dpc' = dpc
    BY <1>1, <1>4 DEF Reap, Close, GoTo
  <2>2. /\ AfterOpen(r) \in {"failed", "rename", "done"}
        /\ err[r] = "interrupt" => AfterOpen(r) = "failed"
    BY DEF AfterOpen
  <2>3. Over(r)' <=> Over(r)
    BY <2>1 DEF Over
  <2> QED
    BY <2>1, <2>2, <2>3 DEF RankInv, Talk, Counts, Path
<1>5. CASE InterruptedAtExit(r)
  <2>1. pc'[r] = "failed" /\ err'[r] = "interrupt"
    BY <1>1, <1>5 DEF InterruptedAtExit, GoTo, Raise
  <2> QED
    BY <2>1 DEF RankInv, Talk, Counts, Path
<1> QED
  BY <1>3, <1>4, <1>5

\* The daemon.
LEMMA DaemonKeepsRank ==
  ASSUME TypeOK, NEW r \in Ranks, RankInv(r), DaemonRuns(r)
  PROVE  RankInv(r)'
<1>1. /\ pc' = pc /\ err' = err /\ DaemonStep(r) /\ SDTypeOK
      /\ pc \in [Ranks -> Pcs]
  BY DEF DaemonRuns, TypeOK
<1>2. Path(r)'
  BY <1>1 DEF RankInv, Path
<1>3. CASE err[r] = "interrupt"
  BY <1>1, <1>2, <1>3 DEF RankInv, Talk, Counts, Path
<1>4. CASE err[r] # "interrupt"
  <2>1. /\ pc[r] \notin {"setup", "lb1", "app", "lb2", "teardown", "analysis", "gb", "fin"}
        /\ pc[r] \notin {"reap", "rename", "done", "failed"} /\ pc[r] # "boot"
    BY <1>1, <1>4, DaemonRests DEF RankInv, Talk
  <2>2. ASSUME NEW m \in Requests, Open(r, m)
        PROVE  /\ Open(r, m)'
               /\ lbCount'[r] = IF m = "LOCAL_BARRIER" /\ toIprof[r] # toIprof'[r]
                                THEN lbCount[r] + 1 ELSE lbCount[r]
    BY <1>1, <2>2, DaemonServes
  <2>3. Talk(r)'
    BY <1>1, <1>4, <2>1, <2>2 DEF RankInv, Talk, Requests
  <2>4. CASE pc[r] \in {"lb1_wait", "lb2_wait"}
    <3>1. Open(r, "LOCAL_BARRIER") /\ Open(r, "LOCAL_BARRIER")'
      BY <1>1, <1>4, <2>2, <2>4 DEF RankInv, Talk, Requests
    <3>2. \/ toIprof'[r] = toIprof[r] /\ lbCount'[r] = lbCount[r]
          \/ toIprof[r] = <<>> /\ toIprof'[r] # <<>> /\ lbCount'[r] = lbCount[r] + 1
      <4>1. toIprof[r] = <<"READY">> => ~DaemonStep(r)
        BY <3>1, OneMessage DEF Open, DaemonStep, DaemonStart, ReadInit, ReadFinish, ReadEof,
           EnterLocal, LeaveLocal, EnterGlobal, LeaveGlobal, CleanGlobal, Read
      <4> QED
        BY <1>1, <2>2, <3>1, <4>1, OneMessage DEF Open, Requests
    <3>3. Counts(r)'
      BY <1>1, <2>4, <3>2 DEF RankInv, Counts
    <3> QED
      BY <1>2, <2>3, <3>3 DEF RankInv
  <2>5. CASE pc[r] \notin {"lb1_wait", "lb2_wait"}
    <3>1. pc[r] = "init_wait" => lbCount'[r] = lbCount[r]
      BY <1>1, <1>4, <2>2 DEF RankInv, Talk, Requests
    <3>2. Counts(r)'
      BY <1>1, <2>1, <2>5, <3>1 DEF RankInv, Counts
    <3> QED
      BY <1>2, <2>3, <3>2 DEF RankInv
  <2> QED
    BY <2>4, <2>5
<1> QED
  BY <1>3, <1>4

-----------------------------------------------------------------------------
(* Steps of a rank, seen from the others. *)

StepOf(r) == Iprof(r) \/ DaemonRuns(r) \/ Fault(r)

\* A daemon and its client touch no other rank's socket or counters.
LEMMA DaemonMovesItsOwn ==
  ASSUME SDTypeOK, NEW r \in Ranks, NEW q \in Ranks, q # r, DaemonStep(r) \/ ClientStep(r)
  PROVE  /\ toDaemon'[q] = toDaemon[q] /\ toIprof'[q] = toIprof[q]
         /\ connected'[q] = connected[q] /\ dpc'[q] = dpc[q] /\ lbCount'[q] = lbCount[q]
BY DEF SDTypeOK, DaemonStep, DaemonStart, ReadInit, ReadFinish, ReadEof, EnterLocal,
       LeaveLocal, EnterGlobal, LeaveGlobal, CleanGlobal, Read, Reply, socket,
       ClientStep, Spawn, Send, Receive, Close

\* Nor does a launcher.
LEMMA StepMovesItsOwn ==
  ASSUME TypeOK, NEW r \in Ranks, NEW q \in Ranks, q # r, StepOf(r)
  PROVE  /\ toDaemon'[q] = toDaemon[q] /\ toIprof'[q] = toIprof[q]
         /\ connected'[q] = connected[q] /\ dpc'[q] = dpc[q] /\ lbCount'[q] = lbCount[q]
         /\ pc'[q] = pc[q] /\ err'[q] = err[q]
<1>1. DaemonStep(r) \/ ClientStep(r) \/ UNCHANGED sdVars
  BY DEF StepOf, Iprof, DaemonRuns, Fault, StartDaemon, AskLocal1, AskLocal2, AskGlobal,
         AskFinish, Request, WaitReady, Ready, Reap, Setup, AppEnds, Teardown, Analysis,
         Rename, SetupFails, AppNotFound, AppInterrupted, TeardownFails, AnalysisFails,
         InterruptedInBlock, InterruptedAtExit, ClientStep, Requests
<1>2. pc'[q] = pc[q] /\ err'[q] = err[q]
  BY DEF TypeOK, StepOf, Iprof, DaemonRuns, Fault, StartDaemon, AskLocal1, AskLocal2,
         AskGlobal, AskFinish, Request, WaitReady, Ready, Reap, Setup, AppEnds, Teardown,
         Analysis, Rename, SetupFails, AppNotFound, AppInterrupted, TeardownFails,
         AnalysisFails, InterruptedInBlock, InterruptedAtExit, GoTo, Raise
<1>3. CASE UNCHANGED sdVars
  BY <1>2, <1>3 DEF sdVars
<1> QED
  BY <1>1, <1>2, <1>3, DaemonMovesItsOwn DEF TypeOK

\* Every rank keeps its part of the invariant.
LEMMA RanksKept ==
  ASSUME TypeOK, NEW r \in Ranks, StepOf(r), NEW q \in Ranks, RankInv(q)
  PROVE  RankInv(q)'
<1>1. CASE q # r
  BY <1>1, StepMovesItsOwn DEF RankInv, Talk, Counts, Path, Idle, Open, Unborn, Over
<1>2. CASE q = r
  <2>1. \/ DaemonRuns(r)
        \/ StartDaemon(r) \/ AskLocal1(r) \/ AskLocal2(r) \/ AskGlobal(r) \/ AskFinish(r)
        \/ WaitReady(r) \/ Reap(r) \/ InterruptedAtExit(r)
        \/ UNCHANGED sdVars /\ ( \/ Setup(r) \/ AppEnds(r) \/ Teardown(r) \/ Analysis(r)
                                 \/ Rename(r) \/ SetupFails(r) \/ AppNotFound(r)
                                 \/ AppInterrupted(r) \/ TeardownFails(r)
                                 \/ AnalysisFails(r) \/ InterruptedInBlock(r) )
    BY DEF StepOf, Iprof, Fault, Setup, AppEnds, Teardown, Analysis, Rename, SetupFails,
           AppNotFound, AppInterrupted, TeardownFails, AnalysisFails, InterruptedInBlock
  <2> QED
    BY <1>2, <2>1, DaemonKeepsRank, RequestKeepsRank, ReplyKeepsRank, OwnStepKeepsRank
<1> QED
  BY <1>1, <1>2

-----------------------------------------------------------------------------
(* Sessions. *)

\* Only the local master of a node touches its session.
LEMMA SessionOfMaster ==
  ASSUME TypeOK, NEW r \in Ranks, RankInv(r), StepOf(r),
         NEW m \in LocalMasters, m # r
  PROVE  session'[NodeOf[m]] = session[NodeOf[m]]
<1>0. NodeOf[m] \in Nodes /\ session \in [Nodes -> {"none", "up", "down"}]
  BY TopologyAssumption DEF TypeOK
<1>1. \/ session' = session
      \/ /\ r \in LocalMasters
         /\ NodeOf[r] # NodeOf[m] => session'[NodeOf[m]] = session[NodeOf[m]]
  <2>1. CASE Teardown(r) \/ TeardownFails(r)
    <3>1. r \in LocalMasters
      BY <2>1 DEF Teardown, TeardownFails, RankInv, Path
    <3> QED
      BY <1>0, <2>1, <3>1 DEF Teardown, TeardownFails
  <2>2. CASE Setup(r) \/ SetupFails(r)
    BY <1>0, <2>2 DEF Setup, SetupFails, LocalMaster
  <2> QED
    BY <2>1, <2>2 DEF StepOf, Iprof, DaemonRuns, Fault, StartDaemon, AskLocal1, AskLocal2,
       AskGlobal, AskFinish, Request, WaitReady, Ready, Reap, AppEnds, Analysis, Rename,
       AppNotFound, AppInterrupted, AnalysisFails, InterruptedInBlock, InterruptedAtExit,
       jobVars
<1>2. r \in LocalMasters => NodeOf[r] # NodeOf[m]
  BY TopologyAssumption
<1> QED
  BY <1>1, <1>2

\* What a local master's own steps do to its session.
LEMMA MasterKeepsSession ==
  ASSUME TypeOK, NEW m \in LocalMasters, RankInv(m), StepOf(m), Session(m)
  PROVE  Session(m)'
<1>a. /\ m \in Ranks /\ NodeOf[m] \in Nodes
  BY TopologyAssumption
<1>b. /\ pc \in [Ranks -> Pcs] /\ err \in [Ranks -> Errors] /\ SDTypeOK
      /\ session \in [Nodes -> {"none", "up", "down"}]
      /\ toDaemon \in [Ranks -> Seq(Requests)] /\ dpc \in [Ranks -> DaemonPcs]
      /\ lbCount \in [Ranks -> Nat]
  BY DEF TypeOK, SDTypeOK
<1>1. CASE DaemonRuns(m)
  <2>1. pc' = pc /\ err' = err /\ session' = session /\ DaemonStep(m)
    BY <1>1 DEF DaemonRuns, jobVars
  <2>2. (Asked(m)' => Asked(m)) /\ lbCount'[m] >= lbCount[m]
    BY <1>a, <1>b, <2>1, DaemonAsksNothing
  <2>3. lbCount'[m] >= 2 \/ ~(lbCount[m] >= 2)
    <3>1. lbCount'[m] \in Int
      BY <1>a, <1>b, <2>1, StepTyped DEF SDNext, SDTypeOK
    <3> QED
      BY <1>a, <1>b, <2>2, <3>1
  <2> QED
    BY <2>1, <2>2, <2>3 DEF Session
<1>2. ASSUME UNCHANGED sdVars
      PROVE  (Asked(m)' <=> Asked(m)) /\ lbCount' = lbCount
  BY <1>2 DEF sdVars, Asked
<1>3. CASE Setup(m) \/ SetupFails(m)
  <2>1. /\ UNCHANGED sdVars /\ pc[m] = "setup" /\ lbCount[m] = 0
    BY <1>3 DEF Setup, SetupFails, RankInv, Counts
  <2>2. \/ session'[NodeOf[m]] = "up" /\ pc'[m] = "lb1" /\ err' = err
        \/ /\ session'[NodeOf[m]] \in {"up", session[NodeOf[m]]}
           /\ pc'[m] = "gb" /\ err'[m] = "error"
    BY <1>a, <1>b, <1>3 DEF Setup, SetupFails, GoTo, Raise, LocalMaster
  <2> QED
    BY <1>2, <2>1, <2>2 DEF Session
<1>4. CASE Teardown(m) \/ TeardownFails(m)
  <2>1. /\ UNCHANGED sdVars /\ pc[m] = "teardown" /\ lbCount[m] = 2
    BY <1>4 DEF Teardown, TeardownFails, RankInv, Counts
  <2>2. \/ session'[NodeOf[m]] = "down" /\ pc'[m] \in {"analysis", "gb"} /\ err' = err
        \/ /\ session'[NodeOf[m]] \in {"down", session[NodeOf[m]]}
           /\ pc'[m] = "gb" /\ err'[m] = "error"
    BY <1>a, <1>b, <1>4 DEF Teardown, TeardownFails, GoTo, Raise
  <2> QED
    BY <1>2, <2>1, <2>2 DEF Session
<1>5. CASE \/ AppEnds(m) \/ Analysis(m) \/ Rename(m) \/ AppNotFound(m) \/ AppInterrupted(m)
           \/ AnalysisFails(m) \/ InterruptedInBlock(m)
  <2>1. UNCHANGED sdVars /\ session' = session
    BY <1>5 DEF AppEnds, Analysis, Rename, AppNotFound, AppInterrupted, AnalysisFails,
                InterruptedInBlock, jobVars
  <2>2. \/ pc[m] = "app" /\ pc'[m] = "lb2"
        \/ pc[m] = "analysis" /\ pc'[m] = "gb" /\ err'[m] \in {err[m], "error"}
        \/ pc[m] = "rename" /\ pc'[m] \in {"done", "failed"} /\ err'[m] \in {err[m], "error"}
        \/ pc'[m] = "gb" /\ err'[m] = "interrupt"
    BY <1>a, <1>b, <1>5 DEF AppEnds, Analysis, Rename, AppNotFound, AppInterrupted,
       AnalysisFails, InterruptedInBlock, GoTo, Raise
  <2> QED
    BY <1>2, <2>1, <2>2 DEF Session
<1>6. CASE AskLocal1(m) \/ AskLocal2(m)
  <2>1. /\ session' = session /\ err' = err /\ lbCount' = lbCount
        /\ \/ pc[m] = "lb1" /\ pc'[m] = "lb1_wait"
           \/ pc[m] = "lb2" /\ pc'[m] = "lb2_wait"
    BY <1>a, <1>b, <1>6 DEF AskLocal1, AskLocal2, Request, Send, GoTo, jobVars
  <2> QED
    BY <2>1 DEF Session
<1>7. CASE StartDaemon(m) \/ AskGlobal(m) \/ AskFinish(m)
  <2>1. /\ session' = session /\ err' = err /\ lbCount' = lbCount
        /\ \/ pc[m] = "boot" /\ pc'[m] = "init_wait"
           \/ pc[m] = "gb" /\ pc'[m] = "gb_wait"
           \/ pc[m] = "fin" /\ pc'[m] = "fin_wait"
    BY <1>a, <1>b, <1>7 DEF StartDaemon, AskGlobal, AskFinish, Request, Send, Spawn, GoTo,
       jobVars
  <2>2. Asked(m)' => Asked(m)
    <3>1. CASE StartDaemon(m)
      <4>1. toDaemon'[m] = <<"INIT">> /\ dpc'[m] = "start"
        BY <1>a, <1>b, <3>1 DEF StartDaemon, Spawn
      <4> QED
        BY <2>1, <4>1, OneMessage DEF Asked
    <3>2. ASSUME NEW x \in {"GLOBAL_BARRIER", "FINISH"}, Send(m, x) PROVE Asked(m)' => Asked(m)
      <4>1. toDaemon'[m] = Append(toDaemon[m], x) /\ dpc' = dpc
        BY <1>a, <1>b, <3>2 DEF Send
      <4>2. \A i \in 1 .. Len(toDaemon'[m]) : toDaemon'[m][i] = "LOCAL_BARRIER" =>
              i \in 1 .. Len(toDaemon[m]) /\ toDaemon[m][i] = "LOCAL_BARRIER"
        BY <1>a, <1>b, <3>2, <4>1 DEF Requests
      <4> QED
        BY <2>1, <4>1, <4>2 DEF Asked
    <3> QED
      BY <1>7, <3>1, <3>2 DEF AskGlobal, AskFinish, Request
  <2> QED
    BY <2>1, <2>2 DEF Session
<1>8. CASE WaitReady(m) \/ Reap(m) \/ InterruptedAtExit(m)
  <2>1. /\ session' = session /\ lbCount' = lbCount /\ toDaemon' = toDaemon /\ dpc' = dpc
    BY <1>8 DEF WaitReady, Ready, Reap, InterruptedAtExit, Receive, Close, jobVars
  <2>2. Asked(m)' <=> Asked(m)
    BY <2>1 DEF Asked
  <2>3. \/ pc[m] = "init_wait" /\ pc'[m] = "setup" /\ err' = err
        \/ pc[m] = "lb1_wait" /\ pc'[m] = "app" /\ err' = err
        \/ pc[m] = "lb2_wait" /\ pc'[m] = "teardown" /\ err' = err
        \/ pc[m] = "gb_wait" /\ pc'[m] = "fin" /\ err' = err
        \/ pc[m] = "fin_wait" /\ pc'[m] = "reap" /\ err' = err
        \/ pc[m] = "reap" /\ pc'[m] \in {"failed", "rename", "done"} /\ err' = err
        \/ pc'[m] = "failed" /\ err'[m] = "interrupt"
    BY <1>a, <1>b, <1>8 DEF WaitReady, Ready, Reap, InterruptedAtExit, GoTo, Raise, AfterOpen,
       AfterLocal2, LocalMaster
  <2> QED
    BY <2>1, <2>2, <2>3 DEF Session
<1> QED
  BY <1>1, <1>3, <1>4, <1>5, <1>6, <1>7, <1>8 DEF StepOf, Iprof, Fault

-----------------------------------------------------------------------------
(* The invariant and the theorems. *)

\* The invariant holds at first.
LEMMA JobInvInit == Init => JobInv
<1> SUFFICES ASSUME Init PROVE JobInv
  OBVIOUS
<1>1. \A r \in Ranks : /\ pc[r] = "boot" /\ err[r] = "none" /\ toDaemon[r] = <<>>
                       /\ toIprof[r] = <<>> /\ connected[r] /\ dpc[r] = "unborn"
                       /\ lbCount[r] = 0
  BY DEF Init, SDInit
<1>2. \A m \in LocalMasters : m \in Ranks /\ session[NodeOf[m]] = "none"
  BY TopologyAssumption DEF Init
<1>3. \A r \in Ranks : Talk(r) /\ Counts(r) /\ Path(r)
  BY <1>1 DEF Talk, Counts, Path, Unborn
<1>4. \A m \in LocalMasters : ~Asked(m)
  BY <1>1, <1>2 DEF Asked
<1>5. \A m \in LocalMasters : Session(m)
  BY <1>1, <1>2, <1>4 DEF Session
<1> QED
  BY <1>3, <1>5 DEF JobInv

\* Every step keeps it.
LEMMA JobInvKept == TypeOK /\ JobInv /\ [Next]_vars => JobInv'
<1> SUFFICES ASSUME TypeOK, JobInv, [Next]_vars PROVE JobInv'
  OBVIOUS
<1>1. CASE UNCHANGED ownVars
  BY <1>1 DEF ownVars, sdVars, JobInv, Talk, Counts, Path, Session, Asked, Idle, Open,
              Unborn, Over
<1>2. ASSUME NEW r \in Ranks, StepOf(r) PROVE JobInv'
  <2>1. \A q \in Ranks : RankInv(q)
    BY DEF JobInv, RankInv
  <2>2. \A q \in Ranks : RankInv(q)'
    BY <1>2, <2>1, RanksKept
  <2>3. ASSUME NEW m \in LocalMasters PROVE Session(m)'
    <3>1. m \in Ranks /\ Session(m)
      BY TopologyAssumption DEF JobInv
    <3>2. CASE m = r
      BY <1>2, <2>1, <3>1, <3>2, MasterKeepsSession
    <3>3. CASE m # r
      <4>1. session'[NodeOf[m]] = session[NodeOf[m]]
        BY <1>2, <2>1, <3>3, SessionOfMaster
      <4>2. /\ toDaemon'[m] = toDaemon[m] /\ dpc'[m] = dpc[m] /\ lbCount'[m] = lbCount[m]
            /\ pc'[m] = pc[m] /\ err'[m] = err[m]
        BY <1>2, <3>1, <3>3, StepMovesItsOwn
      <4> QED
        BY <3>1, <4>1, <4>2 DEF Session, Asked
    <3> QED
      BY <3>2, <3>3
  <2> QED
    BY <2>2, <2>3 DEF JobInv, RankInv
<1> QED
  BY <1>1, <1>2, RestUnchanged DEF Next, StepOf

\* So it always holds.
LEMMA JobInvAlways == Spec => []JobInv
BY JobInvInit, JobInvKept, JobTypeCorrect, PTL DEF Spec

\* No program runs without the session of its node, whatever fails on other
\* ranks and whichever of their iprofs is interrupted, unless its own iprof
\* stopped waiting for it: the local master has asked for the first barrier,
\* after its setup, and has not come out of the second.
THEOREM JobSessionAlive == Spec => []SessionAlive
<1>1. TypeOK /\ JobInv /\ LocalBarrierSafe => SessionAlive
  <2> SUFFICES ASSUME TypeOK, JobInv, LocalBarrierSafe, NEW r \in Ranks, pc[r] = "app"
               PROVE  session[NodeOf[r]] = "up"
    BY DEF SessionAlive, Running
  <2>1. PICK m \in LocalMasters : NodeOf[m] = NodeOf[r]
    BY TopologyAssumption
  <2>2. /\ m \in Ranks /\ NodeOf[m] \in Nodes
        /\ lbCount[m] \in Nat /\ lbCount[r] \in Nat
        /\ session \in [Nodes -> {"none", "up", "down"}]
    BY <2>1, TopologyAssumption DEF TypeOK, SDTypeOK
  <2>3. lbCount[r] = 1 /\ LocalArrived(r) = 1
    <3>1. Idle(r)
      BY DEF JobInv, Talk, Path
    <3> QED
      BY <3>1 DEF JobInv, Counts, Idle, LocalArrived, InLocal
  <2>4. LocalArrived(m) >= 1 /\ lbCount[m] <= 1
    BY <2>1, <2>2, <2>3 DEF LocalBarrierSafe
  <2>5. Asked(m)
    BY <2>2, <2>4 DEF LocalArrived, InLocal, Asked
  <2>6. session[NodeOf[m]] \notin {"none", "down"}
    BY <2>2, <2>4, <2>5 DEF JobInv, Session
  <2> QED
    BY <2>1, <2>2, <2>6
<1>2. Spec => []LocalBarrierSafe
  BY JobRefinesDaemons, LocalBarrierCorrect, PTL
<1> QED
  BY <1>1, <1>2, JobInvAlways, JobTypeCorrect, PTL

\* wait_ready: as long as no Interrupt leaves it, one READY is read for each
\* message sent, so no reply answers an earlier request.
THEOREM JobInStep == Spec => []InStep
<1>1. TypeOK /\ JobInv => InStep
  <2> SUFFICES ASSUME TypeOK, JobInv, NEW r \in Ranks, err[r] # "interrupt"
               PROVE  Unread(r) = IF pc[r] \in Waiting THEN 1 ELSE 0
    BY DEF InStep
  <2>1. pc[r] \in Pcs
    BY DEF TypeOK
  <2>a. Len(<<>>) = 0
    OBVIOUS
  <2>2. ASSUME Idle(r) \/ Over(r) \/ Unborn(r) PROVE Unread(r) = 0
    <3>1. Len(toDaemon[r]) = 0 /\ Len(toIprof[r]) = 0 /\ InLocal(r) = 0 /\ InGlobal(r) = 0
      BY <2>a, <2>2 DEF Idle, Over, Unborn, InLocal, InGlobal
    <3> QED
      BY <3>1 DEF Unread
  <2>3. ASSUME NEW m, Open(r, m) PROVE Unread(r) = 1
    <3>1. CASE /\ toDaemon[r] = <<m>> /\ toIprof[r] = <<>>
               /\ dpc[r] \in {"loop", "start"}
      <4>1. Len(toDaemon[r]) = 1 /\ Len(toIprof[r]) = 0 /\ InLocal(r) = 0 /\ InGlobal(r) = 0
        BY <2>a, <3>1, OneMessage DEF InLocal, InGlobal
      <4> QED
        BY <4>1 DEF Unread
    <3>2. CASE /\ toDaemon[r] = <<>> /\ toIprof[r] = <<>>
               /\ dpc[r] \in {"local", "global", "clean"}
      <4>1. /\ Len(toDaemon[r]) = 0 /\ Len(toIprof[r]) = 0
            /\ \/ InLocal(r) = 1 /\ InGlobal(r) = 0
               \/ InLocal(r) = 0 /\ InGlobal(r) = 1
        BY <2>a, <3>2 DEF InLocal, InGlobal
      <4> QED
        BY <4>1 DEF Unread
    <3>3. CASE /\ toDaemon[r] = <<>> /\ toIprof[r] = <<"READY">>
               /\ dpc[r] \in {"loop", "exited"}
      <4>1. Len(toDaemon[r]) = 0 /\ Len(toIprof[r]) = 1 /\ InLocal(r) = 0 /\ InGlobal(r) = 0
        BY <2>a, <3>3, OneMessage DEF InLocal, InGlobal
      <4> QED
        BY <4>1 DEF Unread
    <3> QED
      BY <2>3, <3>1, <3>2, <3>3 DEF Open
  <2>4. pc[r] \in Waiting => \E m \in Requests : Open(r, m)
    BY DEF JobInv, Talk, Waiting, Requests
  <2>5. pc[r] \notin Waiting => Idle(r) \/ Over(r) \/ Unborn(r)
    BY <2>1 DEF JobInv, Talk, Waiting, Pcs, Preparing, Ended
  <2> QED
    BY <2>2, <2>3, <2>4, <2>5
<1> QED
  BY <1>1, JobInvAlways, JobTypeCorrect, PTL

\* teardown: an iprof that ends well, or because the program does not exist,
\* has released the session of its node.
THEOREM JobSessionReleased == Spec => []SessionReleased
<1>1. JobInv => SessionReleased
  BY DEF JobInv, Session, SessionReleased, Ended
<1> QED
  BY <1>1, JobInvAlways, PTL
====
