---------------------------- MODULE CudaTracing ----------------------------
(* Profiling of CUDA commands from the traced call to the device message:    *)
(* the tracer puts a pair of events around every command and keeps it until  *)
(* the command's context ends (tracer_cuda_helpers.include.c), and the       *)
(* interval plugin, which sees only the trace, works out from it what each   *)
(* pair timed and on which device (context_manager.cpp,                      *)
(* btx_cudainterval_callbacks.cpp).  The trace is ordered by time, so what   *)
(* the plugin does with an event is part of the step that emits it.          *)
(*                                                                           *)
(* The traced program is any legal one: it does not use a context that ends, *)
(* nor end one that is used or on a stack, but for its own top.              *)
EXTENDS Naturals, Sequences, SequencesExt, FiniteSets

CONSTANTS Threads, Devices, Contexts, Streams, Pairs,
          Implicit,     \* CU_STREAM_LEGACY, CU_STREAM_PER_THREAD
          Names,        \* the commands the tracer profiles
          Tasks,        \* those the plugin's model calls tasks
          EarlyReuse,   \* whether a destroyed handle may be given out before
                        \* the exit of cuCtxDestroy is traced
          MaxLaunches,  \* bound: commands in all
          MaxDepth,     \* bound: contexts on a stack
          MaxRefs,      \* bound: retains of a primary context
          Retained,     \* bound: devices whose primary context is retained
          Created,      \* bound: devices that contexts are created on
          None

ASSUME CudaAssumption ==
  /\ IsFiniteSet(Threads)
  /\ Tasks \subseteq Names
  /\ Retained \subseteq Devices /\ Created \subseteq Devices
  /\ EarlyReuse \in BOOLEAN
  /\ MaxLaunches \in Nat /\ MaxDepth \in Nat /\ MaxRefs \in Nat
  /\ Implicit \intersect Streams = {}
  /\ None \notin Devices \union Contexts \union Streams \union Implicit \union Pairs
                  \union Names

VARIABLES device,    \* driver: the device of each context, None if there is none
          stack,     \* driver: the contexts of each thread, the current one last
          streamCtx, \* driver: the context of each stream
          primary,   \* driver: the primary context of each device and its count
          held,      \* program: retains that have returned, less releases
          call,      \* program: the call each thread is in
          launches,  \* program: commands so far, their entries' timestamps
          ended,     \* program: exit has run the destructors
          events,    \* tracer: _events
          evs,       \* tracer: pairs a thread has taken from it
          owner,     \* tracer: the context of each pair
          primaries, \* tracer: _primary_contexts, absent if the count is 0
          ctxStack, ctxDevice, streamToCtx, \* plugin: CUDAContextManager
          profiled,  \* plugin: hpt_profiled_function_name_and_ts
          timed,     \* plugin: hp_event_to_function_name_and_ts
          nameDevice,\* plugin: hpt_function_name_to_dev
          launched   \* history: name, timestamp, device and stream of each pair's command

driver == <<device, stack, streamCtx, primary>>
program == <<held, launches, ended>>
tracer == <<events, evs, owner, primaries>>
manager == <<ctxStack, ctxDevice, streamToCtx>>
tasks == <<profiled, nameDevice>>
vars == <<driver, program, call, tracer, manager, tasks, timed, launched>>

Commands == [name : Names \union {None}, ts : 0 .. MaxLaunches]
NoCommand == [name |-> None, ts |-> 0]
Idle == [op |-> "none", at |-> "none", ctx |-> None, pair |-> None]
Launches == [cmd : Commands, dev : Devices \union {None}, implicit : BOOLEAN]
NoLaunch == [cmd |-> NoCommand, dev |-> None, implicit |-> FALSE]
NoPrimary == [ctx |-> None, refs |-> 0]
Counted == [ctx : Contexts \union {None}, refs : 0 .. MaxRefs]

TypeOK ==
  /\ device \in [Contexts -> Devices \union {None}]
  /\ stack \in [Threads -> Seq(Contexts)]
  /\ streamCtx \in [Streams -> Contexts \union {None}]
  /\ primary \in [Devices -> Counted]
  /\ held \in [Devices -> 0 .. MaxRefs]
  /\ call \in [Threads -> [op : {"none", "launch", "create", "destroy", "retain",
                                 "release", "reset", "exit"},
                           at : {"none", "profile", "register", "results", "exit"},
                           ctx : Contexts \union {None}, pair : Pairs \union {None}]]
  /\ launches \in 0 .. MaxLaunches
  /\ ended \in BOOLEAN
  /\ events \subseteq Pairs
  /\ evs \in [Threads -> SUBSET Pairs]
  /\ owner \in [Pairs -> Contexts \union {None}]
  /\ primaries \in [Devices -> Counted]
  /\ ctxStack \in [Threads -> Seq(Contexts)]
  /\ ctxDevice \in [Contexts -> Devices \union {None}]
  /\ streamToCtx \in [Streams \union Implicit -> Contexts \union {None}]
  /\ profiled \in [Threads -> Commands]
  /\ timed \in [Pairs -> Commands]
  /\ nameDevice \in [Threads -> [Names -> Devices \union {None}]]
  /\ launched \in [Pairs -> Launches]
  /\ \A p \in events : \A t \in Threads : p \notin evs[t] /\ call[t].pair # p

Init == /\ device = [c \in Contexts |-> None]
        /\ stack = [t \in Threads |-> <<>>]
        /\ streamCtx = [s \in Streams |-> None]
        /\ primary = [d \in Devices |-> NoPrimary]
        /\ held = [d \in Devices |-> 0]
        /\ call = [t \in Threads |-> Idle]
        /\ launches = 0 /\ ended = FALSE
        /\ events = {} /\ evs = [t \in Threads |-> {}]
        /\ owner = [p \in Pairs |-> None]
        /\ primaries = [d \in Devices |-> NoPrimary]
        /\ ctxStack = [t \in Threads |-> <<>>]
        /\ ctxDevice = [c \in Contexts |-> None]
        /\ streamToCtx = [s \in Streams \union Implicit |-> None]
        /\ profiled = [t \in Threads |-> NoCommand]
        /\ timed = [p \in Pairs |-> NoCommand]
        /\ nameDevice = [t \in Threads |-> [n \in Names |-> None]]
        /\ launched = [p \in Pairs |-> NoLaunch]

-----------------------------------------------------------------------------
(* What the program may do. *)

Top(q) == IF q = <<>> THEN None ELSE Last(q)
Ready(t) == call[t] = Idle /\ ~ended
IsPrimary(c) == \E d \in Devices : primary[d].ctx = c /\ primary[d].refs > 0

\* The program has the handle, and no call is ending the context.
Usable(c) == /\ c \in Contexts
             /\ device[c] # None
             /\ IsPrimary(c) => held[device[c]] > 0
             /\ \A t \in Threads :
                  call[t].ctx = c => call[t].op \notin {"create", "destroy", "reset"}

\* No other call works in the context, and only t's top refers to it.
Endable(t, c) ==
  \A u \in Threads :
    /\ call[u].ctx = c => call[u].op = "retain"
    /\ \A i \in 1 .. Len(stack[u]) : stack[u][i] = c => u = t /\ i = Len(stack[u])

Fresh(c) == /\ device[c] = None
            /\ EarlyReuse \/ \A t \in Threads : call[t].ctx # c

\* An implicit stream is one of the current context, as stream 0 (None) is.
Target(t, s) == IF s \in Streams THEN streamCtx[s] ELSE Top(stack[t])

-----------------------------------------------------------------------------
(* Commands: the entry, the call between two events, then the epilogue.      *)

FreePairs == {p \in Pairs : /\ p \notin events
                            /\ \A t \in Threads : p \notin evs[t] /\ call[t].pair # p}

\* CUDAContextManager::get_stream_device; thapi_at inserts a default for what
\* the plugin does not know, and it never learns of an implicit stream.
DeviceOf(c) == IF c = None THEN None ELSE ctxDevice[c]
GetStreamDevice(t, s) == DeviceOf(IF s = None THEN Top(ctxStack[t]) ELSE streamToCtx[s])

\* Mutant: the last task is kept per process.
TaskEntryPerProcess(t, cmd, s) ==
  IF cmd.name \in Tasks
  THEN /\ nameDevice' = [nameDevice EXCEPT ![t][cmd.name] = GetStreamDevice(t, s)]
       /\ profiled' = [u \in Threads |-> cmd]
  ELSE UNCHANGED tasks

\* task_entry_helper, for the calls that the plugin's model selects.
TaskEntry(t, cmd, s) ==
  IF cmd.name \in Tasks
  THEN /\ nameDevice' = [nameDevice EXCEPT ![t][cmd.name] = GetStreamDevice(t, s)]
       /\ profiled' = [profiled EXCEPT ![t] = cmd]
  ELSE UNCHANGED tasks

\* The entry, _create_record_event twice and the command between; when one of
\* them fails the events are destroyed.
Launch(t, n, s) ==
  LET c == Target(t, s)
      cmd == [name |-> n, ts |-> launches + 1]
  IN /\ Ready(t)
     /\ Usable(c)
     /\ launches < MaxLaunches
     /\ launches' = launches + 1
     /\ TaskEntry(t, cmd, s)
     /\ \/ UNCHANGED <<call, launched>>
        \/ \E p \in FreePairs :
             /\ call' = [call EXCEPT ![t] = [op |-> "launch", at |-> "profile", ctx |-> c,
                                             pair |-> p]]
             /\ launched' = [launched EXCEPT ![p] =
                  [cmd |-> cmd, dev |-> device[c], implicit |-> s \in Implicit]]
     /\ UNCHANGED <<driver, held, ended, tracer, manager, timed>>

\* The tracepoint of _register_cuda_event, and profiling_callback.
Profile(t) ==
  /\ call[t].at = "profile"
  /\ timed' = [timed EXCEPT ![call[t].pair] = profiled[t]]
  /\ call' = [call EXCEPT ![t].at = "register"]
  /\ UNCHANGED <<driver, program, tracer, manager, tasks, launched>>

\* DL_APPEND under _cuda_events_mutex.
Register(t) ==
  /\ call[t].at = "register"
  /\ events' = events \union {call[t].pair}
  /\ owner' = [owner EXCEPT ![call[t].pair] = call[t].ctx]
  /\ call' = [call EXCEPT ![t] = Idle]
  /\ UNCHANGED <<driver, program, evs, primaries, manager, tasks, timed, launched>>

-----------------------------------------------------------------------------
(* The end of a context: its pairs are reported, before the driver is called.*)

Begin(t, o, c) == call' = [call EXCEPT ![t] = [Idle EXCEPT !.op = o, !.at = "results", !.ctx = c]]

\* Mutant: the pairs stay in the list.
CollectCopies(t, c) == /\ UNCHANGED events
                       /\ evs' = [evs EXCEPT ![t] = {p \in events : owner[p] = c}]

\* _context_event_cleanup, under the mutex.
Collect(t, c) == LET mine == {p \in events : owner[p] = c}
                 IN  events' = events \ mine /\ evs' = [evs EXCEPT ![t] = mine]

\* _primary_contexts_mutex is held while the pairs are reported.
PrimariesLocked == \E t \in Threads : /\ call[t].op \in {"release", "reset"}
                                      /\ evs[t] # {}

\* _profile_event_results, and the events are destroyed.
Result(t) ==
  /\ call[t].at = "results"
  /\ \E p \in evs[t] :
       /\ evs' = [evs EXCEPT ![t] = @ \ {p}]
       /\ owner' = [owner EXCEPT ![p] = None]
       /\ launched' = [launched EXCEPT ![p] = NoLaunch]
  /\ UNCHANGED <<driver, program, call, events, primaries, manager, tasks, timed>>

Reported(t, o) == call[t].op = o /\ call[t].at = "results" /\ evs[t] = {}

\* The driver destroys c and its streams.
Destroyed(c) == /\ device' = [device EXCEPT ![c] = None]
                /\ streamCtx' = [s \in Streams |-> IF streamCtx[s] = c THEN None
                                                   ELSE streamCtx[s]]

CtxCreate(t, d) ==
  /\ Ready(t)
  /\ Len(stack[t]) < MaxDepth
  /\ \E c \in Contexts :
       /\ Fresh(c)
       /\ device' = [device EXCEPT ![c] = d]
       /\ stack' = [stack EXCEPT ![t] = Append(@, c)]
       /\ call' = [call EXCEPT ![t] = [Idle EXCEPT !.op = "create", !.at = "exit", !.ctx = c]]
  /\ UNCHANGED <<streamCtx, primary, program, tracer, manager, tasks, timed, launched>>

\* ctx_create_exit.
CtxCreateExit(t) ==
  LET c == call[t].ctx IN
  /\ call[t].op = "create"
  /\ ctxDevice' = [ctxDevice EXCEPT ![c] = device[c]]
  /\ ctxStack' = [ctxStack EXCEPT ![t] = Append(@, c)]
  /\ call' = [call EXCEPT ![t] = Idle]
  /\ UNCHANGED <<driver, program, tracer, streamToCtx, tasks, timed, launched>>

\* The prologue of cuCtxDestroy.
CtxDestroy(t, c) ==
  /\ Ready(t)
  /\ Usable(c) /\ ~IsPrimary(c) /\ Endable(t, c)
  /\ Collect(t, c)
  /\ Begin(t, "destroy", c)
  /\ UNCHANGED <<driver, program, owner, primaries, manager, tasks, timed, launched>>

\* The driver pops the context if it is current; it may report an error.
CtxDestroyDriver(t) ==
  LET c == call[t].ctx IN
  /\ Reported(t, "destroy")
  /\ \/ /\ call' = [call EXCEPT ![t] = Idle]
        /\ UNCHANGED <<device, streamCtx, stack>>
     \/ /\ Destroyed(c)
        /\ stack' = [stack EXCEPT ![t] = IF Top(@) = c THEN Front(@) ELSE @]
        /\ call' = [call EXCEPT ![t].at = "exit"]
  /\ UNCHANGED <<primary, program, tracer, manager, tasks, timed, launched>>

\* Mutant: the stack is left to cuCtxPopCurrent.
CtxDestroyExitOnly(t) ==
  LET c == call[t].ctx IN
  /\ call[t].op = "destroy" /\ call[t].at = "exit"
  /\ ctxDevice' = [ctxDevice EXCEPT ![c] = None]
  /\ call' = [call EXCEPT ![t] = Idle]
  /\ UNCHANGED <<driver, program, tracer, ctxStack, streamToCtx, tasks, timed, launched>>

\* ctx_destroy_exit.
CtxDestroyExit(t) ==
  LET c == call[t].ctx IN
  /\ call[t].op = "destroy" /\ call[t].at = "exit"
  /\ ctxDevice' = [ctxDevice EXCEPT ![c] = None]
  /\ ctxStack' = [ctxStack EXCEPT ![t] = IF Top(@) = c THEN Front(@) ELSE @]
  /\ call' = [call EXCEPT ![t] = Idle]
  /\ UNCHANGED <<driver, program, tracer, streamToCtx, tasks, timed, launched>>

-----------------------------------------------------------------------------
(* Primary contexts, which the driver counts, and so does the tracer.        *)

PrimaryRetain(t, d) ==
  /\ Ready(t)
  /\ primary[d].refs < MaxRefs
  /\ \E c \in Contexts :
       /\ \/ /\ primary[d].refs > 0 /\ c = primary[d].ctx
             /\ primary' = [primary EXCEPT ![d].refs = @ + 1]
             /\ UNCHANGED device
          \/ /\ primary[d].refs = 0 /\ Fresh(c)
             /\ primary' = [primary EXCEPT ![d] = [ctx |-> c, refs |-> 1]]
             /\ device' = [device EXCEPT ![c] = d]
       /\ call' = [call EXCEPT ![t] = [Idle EXCEPT !.op = "retain", !.at = "exit", !.ctx = c]]
  /\ UNCHANGED <<stack, streamCtx, program, tracer, manager, tasks, timed, launched>>

\* Mutant: a context that is already known is not counted again.
RetainUncounted(d, c) ==
  primaries' = [primaries EXCEPT ![d] = [ctx |-> c, refs |-> 1]]

\* _primary_context_retain.
Retain(d, c) ==
  LET p == primaries[d]
      n == IF p.refs > 0 /\ p.ctx = c THEN p.refs + 1 ELSE 1
  IN primaries' = [primaries EXCEPT ![d] = [ctx |-> c, refs |-> n]]

\* The epilogue of cuDevicePrimaryCtxRetain, and primary_ctx_retain_exit.
PrimaryRetainExit(t) ==
  LET c == call[t].ctx
      d == device[c]
  IN /\ call[t].op = "retain"
     /\ ~PrimariesLocked
     /\ Retain(d, c)
     /\ ctxDevice' = [ctxDevice EXCEPT ![c] = d]
     /\ held' = [held EXCEPT ![d] = @ + 1]
     /\ call' = [call EXCEPT ![t] = Idle]
     /\ UNCHANGED <<driver, launches, ended, events, evs, owner, ctxStack, streamToCtx,
                    tasks, timed, launched>>

\* _primary_context_release, the prologue of cuDevicePrimaryCtxRelease.
PrimaryRelease(t, d) ==
  LET c == primary[d].ctx
      p == primaries[d]
  IN /\ Ready(t)
     /\ held[d] > 0 /\ Usable(c)
     /\ held[d] = 1 => Endable(t, c) /\ \A i \in 1 .. Len(stack[t]) : stack[t][i] # c
     /\ ~PrimariesLocked
     /\ held' = [held EXCEPT ![d] = @ - 1]
     /\ IF p.refs = 1
        THEN primaries' = [primaries EXCEPT ![d] = NoPrimary] /\ Collect(t, p.ctx)
        ELSE /\ primaries' = [primaries EXCEPT ![d].refs = IF @ = 0 THEN 0 ELSE @ - 1]
             /\ UNCHANGED <<events, evs>>
     /\ Begin(t, "release", c)
     /\ UNCHANGED <<driver, launches, ended, owner, manager, tasks, timed, launched>>

PrimaryReleaseDriver(t) ==
  LET c == call[t].ctx
      d == device[c]
  IN /\ Reported(t, "release")
     /\ IF primary[d].refs = 1
        THEN primary' = [primary EXCEPT ![d] = NoPrimary] /\ Destroyed(c)
        ELSE primary' = [primary EXCEPT ![d].refs = @ - 1] /\ UNCHANGED <<device, streamCtx>>
     /\ call' = [call EXCEPT ![t] = Idle]
     /\ UNCHANGED <<stack, program, tracer, manager, tasks, timed, launched>>

\* _primary_context_reset, the prologue of cuDevicePrimaryCtxReset.
PrimaryReset(t, d) ==
  LET c == primary[d].ctx IN
  /\ Ready(t)
  /\ held[d] > 0 /\ Usable(c) /\ \A u \in Threads : call[u].ctx # c
  /\ ~PrimariesLocked
  /\ IF primaries[d].refs > 0 THEN Collect(t, primaries[d].ctx) ELSE UNCHANGED <<events, evs>>
  /\ Begin(t, "reset", c)
  /\ UNCHANGED <<driver, program, owner, primaries, manager, tasks, timed, launched>>

PrimaryResetDriver(t) ==
  LET c == call[t].ctx IN
  /\ Reported(t, "reset")
  /\ streamCtx' = [s \in Streams |-> IF streamCtx[s] = c THEN None ELSE streamCtx[s]]
  /\ call' = [call EXCEPT ![t] = Idle]
  /\ UNCHANGED <<device, stack, primary, program, tracer, manager, tasks, timed, launched>>

-----------------------------------------------------------------------------
(* The thread's stack and its streams; what fails changes nothing.           *)

\* cuCtxSetCurrent and ctx_set_current_exit.
CtxSetCurrent(t, c) ==
  LET Set(q) == (IF q = <<>> THEN q ELSE Front(q)) \o (IF c = None THEN <<>> ELSE <<c>>)
  IN /\ Ready(t)
     /\ c = None \/ Usable(c)
     /\ stack' = [stack EXCEPT ![t] = Set(@)]
     /\ ctxStack' = [ctxStack EXCEPT ![t] = Set(@)]
     /\ UNCHANGED <<device, streamCtx, primary, program, call, tracer, ctxDevice, streamToCtx,
                    tasks, timed, launched>>

CtxPushCurrent(t, c) ==
  /\ Ready(t)
  /\ Usable(c)
  /\ Len(stack[t]) < MaxDepth
  /\ stack' = [stack EXCEPT ![t] = Append(@, c)]
  /\ ctxStack' = [ctxStack EXCEPT ![t] = Append(@, c)]
  /\ UNCHANGED <<device, streamCtx, primary, program, call, tracer, ctxDevice, streamToCtx,
                 tasks, timed, launched>>

\* The plugin pops what it has, which it does not check.
CtxPopCurrent(t) ==
  /\ Ready(t)
  /\ stack[t] # <<>>
  /\ stack' = [stack EXCEPT ![t] = Front(@)]
  /\ ctxStack' = [ctxStack EXCEPT ![t] = Front(@)]
  /\ UNCHANGED <<device, streamCtx, primary, program, call, tracer, ctxDevice, streamToCtx,
                 tasks, timed, launched>>

StreamCreate(t, s) ==
  /\ Ready(t)
  /\ Usable(Top(stack[t]))
  /\ streamCtx[s] = None
  /\ streamCtx' = [streamCtx EXCEPT ![s] = Top(stack[t])]
  /\ streamToCtx' = [streamToCtx EXCEPT ![s] = Top(ctxStack[t])]
  /\ UNCHANGED <<device, stack, primary, program, call, tracer, ctxStack, ctxDevice, tasks,
                 timed, launched>>

\* exit, when no other thread is in a call: _lib_cleanup reports what is left.
Exit(t) ==
  /\ \A u \in Threads : Ready(u)
  /\ ended' = TRUE
  /\ evs' = [evs EXCEPT ![t] = events]
  /\ events' = {}
  /\ Begin(t, "exit", None)
  /\ UNCHANGED <<driver, held, launches, owner, primaries, manager, tasks, timed, launched>>

-----------------------------------------------------------------------------
CommandStep(t) == \/ \E n \in Names, s \in Streams \union Implicit \union {None} : Launch(t, n, s)
                  \/ Profile(t) \/ Register(t)
ContextStep(t) == \/ \E d \in Created : CtxCreate(t, d)
                  \/ \E c \in Contexts : CtxDestroy(t, c)
                  \/ CtxCreateExit(t) \/ CtxDestroyDriver(t) \/ CtxDestroyExit(t)
PrimaryStep(t) == \/ \E d \in Retained : \/ PrimaryRetain(t, d) \/ PrimaryRelease(t, d)
                                         \/ PrimaryReset(t, d)
                  \/ PrimaryRetainExit(t) \/ PrimaryReleaseDriver(t) \/ PrimaryResetDriver(t)
StackStep(t) == \/ \E c \in Contexts \union {None} : CtxSetCurrent(t, c)
                \/ \E c \in Contexts : CtxPushCurrent(t, c)
                \/ CtxPopCurrent(t)
                \/ \E s \in Streams : StreamCreate(t, s)

Next == \E t \in Threads : \/ CommandStep(t) \/ ContextStep(t) \/ PrimaryStep(t)
                          \/ StackStep(t) \/ Result(t) \/ Exit(t)

Spec == Init /\ [][Next]_vars

-----------------------------------------------------------------------------
(* Properties. *)

Pending(t) == events \union evs[t]

\* A pair that waits to be reported stands, for the plugin, for the command
\* that it timed, whatever the other threads launched and whichever handles
\* were used again: "task entry callback (3) and profiling_callback (4)
\* always happen one after another in a given thread".
NamesFaithful == \A t \in Threads : \A p \in Pending(t) : timed[p] = launched[p].cmd

\* No context ends or is reset with pairs of it in the list, which nobody could
\* query any more, though the tracer's own count of retains decides on its own
\* when a primary context ends: "if a context is to be destroyed we must
\* attempt to get profiling event results".
EventsInLiveContexts ==
  \A p \in events :
    /\ device[owner[p]] = launched[p].dev
    /\ \A t \in Threads : Reported(t, "destroy") \/ Reported(t, "reset")
                          => owner[p] # call[t].ctx

\* While a command is launched, the plugin has the device it runs on under its
\* name, though it knows contexts, stacks and streams only by the exits of the
\* calls of all threads, and handles are used again.  A command on an implicit
\* stream, which the plugin looks up as one that was created, is the exception.
LaunchedOnDevice ==
  \A t \in Threads :
    LET run == launched[call[t].pair] IN
    call[t].op = "launch" /\ ~run.implicit => nameDevice[t][run.cmd.name] = run.dev
=============================================================================
