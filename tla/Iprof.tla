------------------------------- MODULE Iprof --------------------------------
(* A traced MPI job: one iprof launcher per rank (all_trace_and_processing   *)
(* of xprof.rb), each with its synchronisation daemon (module SyncDaemon).   *)
(* The local master of a node sets the LTTng session up, destroys it and     *)
(* writes the node's trace into the job's temporary folder; the master rank  *)
(* finally gives that folder its public name.                                *)
EXTENDS SyncDaemon

CONSTANTS Archive,   \* --archive: the trace is written during teardown
          AppSyncs,  \* the application synchronises its ranks (MPI_Init)
          Faults     \* what may go wrong, a subset of FaultKinds

FaultKinds == {"setup", "launch", "teardown", "analysis", "interrupt"}

ASSUME IprofAssumption == /\ Archive \in BOOLEAN
                          /\ AppSyncs \in BOOLEAN
                          /\ Faults \subseteq FaultKinds

VARIABLES pc,       \* where each iprof is
          err,      \* the exception each iprof is unwinding, "none" if it is not
          session,  \* the LTTng session of each node
          trace,    \* nodes whose trace is complete in the temporary folder
          final,    \* nodes whose trace the master moved to the final folder
          moved,    \* the master has renamed the temporary folder
          abandoned \* programs that run on though their iprof stopped waiting

jobVars == <<session, trace, final, moved, abandoned>>
vars == <<sdVars, pc, err, jobVars>>

Preparing == {"boot", "init_wait", "setup", "lb1", "lb1_wait"}
Waiting == {"init_wait", "lb1_wait", "lb2_wait", "gb_wait", "fin_wait"}
Ended == {"done", "failed"}
Pcs == Preparing \union Waiting \union Ended
         \union {"app", "lb2", "teardown", "analysis", "gb", "fin", "reap",
                 "rename"}
Errors == {"none", "error", "enoent", "interrupt"}

TypeOK == /\ SDTypeOK
          /\ pc \in [Ranks -> Pcs]
          /\ err \in [Ranks -> Errors]
          /\ session \in [Nodes -> {"none", "up", "down"}]
          /\ trace \subseteq Nodes
          /\ final \subseteq Nodes
          /\ moved \in BOOLEAN
          /\ abandoned \subseteq Ranks

Init == /\ SDInit
        /\ pc = [r \in Ranks |-> "boot"]
        /\ err = [r \in Ranks |-> "none"]
        /\ session = [n \in Nodes |-> "none"]
        /\ trace = {}
        /\ final = {}
        /\ moved = FALSE
        /\ abandoned = {}

GoTo(r, to) == pc' = [pc EXCEPT ![r] = to]
Raise(r, e, to) == GoTo(r, to) /\ err' = [err EXCEPT ![r] = e]
LocalMaster(r) == r \in LocalMasters

-----------------------------------------------------------------------------
(* Conversation with the daemon: lazy_exec is a send, then wait_ready.       *)

StartDaemon(r) == /\ pc[r] = "boot"
                  /\ Spawn(r)
                  /\ GoTo(r, "init_wait")
                  /\ UNCHANGED <<err, jobVars>>

Request(r, at, m, to) == /\ pc[r] = at
                         /\ Send(r, m)
                         /\ GoTo(r, to)
                         /\ UNCHANGED <<err, jobVars>>

Ready(r, at, to) == /\ pc[r] = at
                    /\ Receive(r)
                    /\ GoTo(r, to)
                    /\ UNCHANGED <<err, jobVars>>

AskLocal1(r) == Request(r, "lb1", "LOCAL_BARRIER", "lb1_wait")

\* Mutant: the second barrier is asked for and not waited for.
AskLocal2NoWait(r) ==
  Request(r, "lb2", "LOCAL_BARRIER", IF LocalMaster(r) THEN "teardown" ELSE "gb")

AskLocal2(r) == Request(r, "lb2", "LOCAL_BARRIER", "lb2_wait")
AskGlobal(r) == Request(r, "gb", "GLOBAL_BARRIER", "gb_wait")
AskFinish(r) == Request(r, "fin", "FINISH", "fin_wait")

\* Mutant: only local masters meet at the global barrier.
AfterLocal2MastersOnly(r) == IF LocalMaster(r) THEN "teardown" ELSE "fin"

\* The second barrier sits in an ensure clause: what follows it depends on
\* the exception that is being unwound, if any.
AfterLocal2(r) == IF LocalMaster(r) THEN "teardown" ELSE "gb"

WaitReady(r) == \/ Ready(r, "init_wait", "setup")
                \/ Ready(r, "lb1_wait", "app")
                \/ Ready(r, "lb2_wait", AfterLocal2(r))
                \/ Ready(r, "gb_wait", "fin")
                \/ Ready(r, "fin_wait", "reap")

\* finalize: Process.wait2 on the daemon, close the socket; then the block of
\* SyncDaemon.open is over and the exception, if any, goes on.
AfterOpen(r) == IF err[r] # "none" THEN "failed"
                ELSE IF r = Master THEN "rename" ELSE "done"

Reap(r) == /\ pc[r] = "reap"
           /\ dpc[r] \in {"exited", "crashed"}
           /\ Close(r)
           /\ GoTo(r, AfterOpen(r))
           /\ UNCHANGED <<err, jobVars>>

-----------------------------------------------------------------------------
(* The job. *)

\* Mutant: no barrier between the setup and the program.
SetupThenApp(r) ==
  /\ pc[r] = "setup"
  /\ session' = IF LocalMaster(r)
                THEN [session EXCEPT ![NodeOf[r]] = "up"] ELSE session
  /\ GoTo(r, "app")
  /\ UNCHANGED <<sdVars, err, trace, final, moved, abandoned>>

\* all_env_tracers, then LocalMaster.setup on the local masters.
Setup(r) ==
  /\ pc[r] = "setup"
  /\ session' = IF LocalMaster(r)
                THEN [session EXCEPT ![NodeOf[r]] = "up"] ELSE session
  /\ GoTo(r, "lb1")
  /\ UNCHANGED <<sdVars, err, trace, final, moved, abandoned>>

\* A command fails: before the first barrier, with or without a session left.
SetupFails(r) ==
  /\ "setup" \in Faults
  /\ pc[r] = "setup"
  /\ \/ UNCHANGED session
     \/ /\ LocalMaster(r)
        /\ session' = [session EXCEPT ![NodeOf[r]] = "up"]
  /\ Raise(r, "error", "gb")
  /\ UNCHANGED <<sdVars, trace, final, moved, abandoned>>

\* launch_usr_bin: the traced program runs, and ends when it likes unless it
\* has to meet the other ranks of its job first.
AppEnds(r) == /\ pc[r] = "app"
              /\ AppSyncs => \A q \in Ranks : pc[q] \notin Preparing
              /\ GoTo(r, "lb2")
              /\ UNCHANGED <<sdVars, err, jobVars>>

\* Mutant: ENOENT leaves without the ensure clause.
AppNotFoundNoEnsure(r) == /\ "launch" \in Faults
                          /\ pc[r] = "app"
                          /\ Raise(r, "enoent", "gb")
                          /\ UNCHANGED <<sdVars, jobVars>>

\* rescue Errno::ENOENT raises it again, through the ensure.
AppNotFound(r) == /\ "launch" \in Faults
                  /\ pc[r] = "app"
                  /\ Raise(r, "enoent", "lb2")
                  /\ UNCHANGED <<sdVars, jobVars>>

\* rescue Interrupt: carry on without the program, which is neither killed
\* nor waited for, and ends when it likes.
AppInterrupted(r) == /\ "interrupt" \in Faults
                     /\ pc[r] = "app"
                     /\ GoTo(r, "lb2")
                     /\ abandoned' = abandoned \union {r}
                     /\ UNCHANGED <<sdVars, err, session, trace, final, moved>>

AbandonedEnds(r) == /\ r \in abandoned
                    /\ abandoned' = abandoned \ {r}
                    /\ UNCHANGED <<sdVars, pc, err, session, trace, final, moved>>

\* LocalMaster.teardown; bt_analysis follows unless an exception is unwinding
\* or the archive processes have written the trace already.
Teardown(r) ==
  /\ pc[r] = "teardown"
  /\ session' = [session EXCEPT ![NodeOf[r]] = "down"]
  /\ trace' = IF Archive THEN trace \union {NodeOf[r]} ELSE trace
  /\ GoTo(r, IF err[r] = "none" /\ ~Archive THEN "analysis" ELSE "gb")
  /\ UNCHANGED <<sdVars, err, final, moved, abandoned>>

TeardownFails(r) ==
  /\ "teardown" \in Faults
  /\ pc[r] = "teardown"
  /\ \/ UNCHANGED session
     \/ session' = [session EXCEPT ![NodeOf[r]] = "down"]
  /\ Raise(r, "error", "gb")
  /\ UNCHANGED <<sdVars, trace, final, moved, abandoned>>

\* bt_analysis: babeltrace writes the node's trace in the temporary folder.
Analysis(r) == /\ pc[r] = "analysis"
               /\ trace' = trace \union {NodeOf[r]}
               /\ GoTo(r, "gb")
               /\ UNCHANGED <<sdVars, err, session, final, moved, abandoned>>

AnalysisFails(r) == /\ "analysis" \in Faults
                    /\ pc[r] = "analysis"
                    /\ Raise(r, "error", "gb")
                    /\ UNCHANGED <<sdVars, jobVars>>

\* rename_folder: copy the metadata of the first trace there is, then mv -T.
Rename(r) ==
  /\ pc[r] = "rename"
  /\ IF trace = {}
     THEN Raise(r, "error", "failed") /\ UNCHANGED <<final, moved>>
     ELSE /\ GoTo(r, "done")
          /\ final' = trace
          /\ moved' = TRUE
          /\ UNCHANGED err
  /\ UNCHANGED <<sdVars, session, trace, abandoned>>

\* An Interrupt in wait_ready is not rescued.  In the block it unwinds to the
\* ensure of SyncDaemon.open; in that ensure, or before syncd is set, it ends
\* iprof and closes the socket.
InterruptedInBlock(r) == /\ "interrupt" \in Faults
                         /\ pc[r] \in {"lb1_wait", "lb2_wait"}
                         /\ Raise(r, "interrupt", "gb")
                         /\ UNCHANGED <<sdVars, jobVars>>

InterruptedAtExit(r) == /\ "interrupt" \in Faults
                        /\ pc[r] \in {"init_wait", "gb_wait", "fin_wait", "reap"}
                        /\ Close(r)
                        /\ Raise(r, "interrupt", "failed")
                        /\ UNCHANGED jobVars

-----------------------------------------------------------------------------
DaemonRuns(r) == DaemonStep(r) /\ UNCHANGED <<pc, err, jobVars>>

Iprof(r) == \/ StartDaemon(r)
            \/ AskLocal1(r)
            \/ AskLocal2(r)
            \/ AskGlobal(r)
            \/ AskFinish(r)
            \/ WaitReady(r)
            \/ Reap(r)
            \/ Setup(r)
            \/ AppEnds(r)
            \/ Teardown(r)
            \/ Analysis(r)
            \/ Rename(r)

Fault(r) == \/ SetupFails(r)
            \/ AppNotFound(r)
            \/ AppInterrupted(r)
            \/ TeardownFails(r)
            \/ AnalysisFails(r)
            \/ InterruptedInBlock(r)
            \/ InterruptedAtExit(r)

Next == \E r \in Ranks : Iprof(r) \/ DaemonRuns(r) \/ AbandonedEnds(r) \/ Fault(r)

\* Every process is scheduled; the traced program ends; polling with
\* busy_wait_until sees a condition that stays true.
Fairness == \A r \in Ranks : WF_vars(Iprof(r)) /\ WF_vars(DaemonRuns(r))

Spec == Init /\ [][Next]_vars
FairSpec == Spec /\ Fairness

-----------------------------------------------------------------------------
(* Properties. *)

\* all_trace_and_processing: no program runs on a node whose LTTng session is
\* not up, whatever fails on the other ranks and whichever of their iprofs is
\* interrupted; the one exception is a program whose own iprof stopped waiting
\* for it.
Running(r) == pc[r] = "app" \/ r \in abandoned
SessionAlive ==
  \A r \in Ranks : Running(r) => session[NodeOf[r]] = "up" \/ r \in abandoned

\* rename_folder: once the master has given the folder its final name, no node
\* writes a trace under the temporary one: "All process have put their file
\* into thapi_trace_dir_tmp/hostname".
TracesInFinalFolder == moved => trace \subseteq final

\* DaemonClient: iprof and its daemon stay in step, one READY read per message
\* sent, so no reply of an earlier request is taken for a later one; only an
\* Interrupt that leaves wait_ready may break this.
InStep == \A r \in Ranks : err[r] # "interrupt" =>
            Unread(r) = IF pc[r] \in Waiting THEN 1 ELSE 0

\* LocalMaster.teardown: an iprof that ends normally, or because the traced
\* program does not exist, does not leave its LTTng session behind.
SessionReleased ==
  \A m \in LocalMasters :
    pc[m] \in Ended /\ err[m] \in {"none", "enoent"}
      => session[NodeOf[m]] = "down"

\* SyncDaemon.open: when nothing fails every iprof and every daemon ends.
AllEnd == <>[](\A r \in Ranks : pc[r] \in Ended /\ dpc[r] = "exited")
=============================================================================
