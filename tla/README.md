# THAPI in TLA+

THAPI traces the calls an HPC program makes to its programming models (Level
Zero, CUDA, HIP, OpenCL, MPI, OpenMP, ...). `iprof` (`src/xprof/xprof.rb.in`)
starts an LTTng session, runs the program with interception libraries
preloaded, and analyses the trace; on an MPI job one `iprof` runs per rank, and
they coordinate through a small daemon each. Another daemon samples hardware
counters. Inside the traced process the Level Zero and CUDA tracers time every
command the program gives to a device, and babeltrace plugins work out from the
trace what each timing belongs to.

This directory models the parts where concurrency decides correctness: the
coordination of a job, the sampling daemon, the two profilers, and the plugin
that reads what the CUDA profiler writes.

## Inventory

| component | source | state | operations | what is hard |
|---|---|---|---|---|
| iprof launcher | `xprof/xprof.rb.in` 97-112, 672-838, 1017-1036 | where each rank is, the exception it unwinds, the LTTng session of the node, the trace folders | set-up, launch, teardown, analysis, rename | ensure clauses on every path, failures and Interrupts of one rank while others wait |
| DaemonClient | `xprof/xprof.rb.in` 352-410 | a socket pair and a pid | spawn, lazy_exec, wait_ready, finalize | replies carry no identity: one READY looks like another |
| sync_daemon_fs | `xprof/sync_daemon_fs` | a counter, sentinels in a node folder and a shared folder | INIT, LOCAL_BARRIER, GLOBAL_BARRIER, FINISH | polling a directory that others fill, empty and delete |
| sync_daemon_mpi | `xprof/sync_daemon_mpi.cpp` | two communicators | the same messages | two communicators over the same processes |
| Level Zero profiler | `backends/ze/tracer_ze_helpers.include.c`, hooks in `ze_model.rb` | slots, slabs, edges, per-event facts, queue and fence indexes | create, append, execute, reset, destroy, synchronise | the state is changed by hooks that run after the call they follow, in any thread |
| Level Zero event pool | the same file, 480-593 and 690-800 | a free list of injected events | get, put, the barrier that re-signals the program's event | an event baked in a list and given out again |
| sampling library and daemon | `sampling/thapi_sampling.c`, `thapi_sampling_daemon.cpp`, plugins | a sorted array of entries, a flag, two threads | register, unregister, loop, destructor; INIT, FINISH | a flag read without the mutex, a thread that ends holding it, plugins closed while it runs |
| CUDA tracer | `backends/cuda/tracer_cuda_helpers.include.c`, hooks in `cuda_model.rb` | a list of event pairs, a count per primary context | launch, end of a context, retain, release, reset, exit | pairs must be reported before their context ends |
| CUDA interval plugin | `backends/cuda/btx_cudainterval_callbacks.cpp`, `context_manager.cpp` | contexts, stacks, streams, the last task per thread | one callback per trace event | matching by order alone; handles used again |
| HIP, OpenCL and other tracers | `backends/*/tracer_*_helpers.include.c` | reference counts, injected events | callbacks | driver callbacks in other threads |
| other interval plugins | `backends/*/btx_*interval_callbacks.cpp` | calls that are open | one callback per event | results that come before or after what they belong to |
| aggregation, tally, timeline | `xprof/btx_*.cpp`, `tally_core.hpp` | accumulators | one callback per interval | merging, empty inputs, nested intervals |
| code generators, vendored headers, babeltrace driver, `whichlib64` | `utils/`, `backends/*/gen_*` | none at run time | | not modelled |

How they interact: `iprof` and each of its daemons exchange messages over a
SEQPACKET socket pair; the synchronisation daemons see each other only through
directories (or MPI); the local master of a node owns the LTTng session its
neighbours' programs write to and the sampling daemon; the master rank owns the
final folder all local masters' traces end in. A profiler's handlers are called
from the program's threads. Level Zero's take one mutex, and wait for the
device while they hold it; CUDA's take two, one inside the other. The CUDA
plugin shares nothing with the tracer but the order of the trace.

What makes each part correct:

* job: no program runs without its session and none loses it while its iprof
  waits for it; the folder is renamed after the last trace; sessions are
  released; all end.
* daemons: both barriers are barriers, for any behaviour of their clients.
* protocol: one reply read per request sent.
* sampling: the thread touches nothing freed or unloaded, does not oversleep,
  serves every sampler, and the daemon ends whatever fails.
* Level Zero profiler: the dependency graph is acyclic and points to memory that
  is there; counts are exact; slabs live as long as needed; a handler never waits
  under the mutex for work only another call could release; a timing goes to
  the right event.
* event pool: one owner per injected event; the program's own event fires after
  its command; each command gets its own timing.
* CUDA: pairs are reported in living contexts; a pair stands for its command,
  and the device known at a launch is the one it runs on.

`PROJECT.json` lists every component and every hazard at its line.

## Modules

| module | what it is |
|---|---|
| `LocalBarrier` | what a barrier of a node promises: arrive, then leave when all peers have arrived |
| `SyncDaemon` | both daemons, each with an arbitrary client of the protocol |
| `SyncDaemon_proofs` | type correctness, both barriers, and the refinement of `LocalBarrier`, proved |
| `Iprof` | extends `SyncDaemon`: the client is the launcher, with its failures; traces and sessions |
| `Iprof_proofs` | a job implements `SyncDaemon`; sessions, requests and replies, proved |
| `IprofRename_proofs` | the rename comes after the last trace, proved for both daemons |
| `Sampling` | `iprof`, the sampling daemon's main thread and its sampling thread, with time |
| `Sampling_proofs` | the two threads' safety and that the sleep ends in time, proved |
| `ZeProfiling` | the Level Zero profiler, with the device and the traced program around it |
| `ZeProfiling_proofs` | its counts are exact, its edges lead to memory that is there, the slabs of drained lists are freed, proved |
| `ZeProfilingRules_proofs` | what the program's rules give: a DAG, timings of the right event, epilogues and resets that never wait, proved |
| `ZeEventPool` | its injected events, the slot cap and failed Appends |
| `ZeEventPool_proofs` | one holder per event, faithful signals and timings, proved |
| `CudaTracing` | the CUDA tracer, the driver and the program around it, and the plugin behind it |
| `CudaTracing_proofs` | pairs in one place, in living contexts, under their names, on known devices, proved |
| `MCIprof`, `MCSampling`, `MCZeProfiling`, `MCZeEventPool`, `MCCudaTracing` | instances for TLC |

`Iprof` composes the launcher with `SyncDaemon`, which is shown to implement
`LocalBarrier`; `CudaTracing` composes tracer and plugin. `ZeProfiling` and
`ZeEventPool` look at the same code from two sides: the first has edges, slabs
and indexes and no names of injected events, the second names the events and
has no edges.

### SyncDaemon

`toDaemon` and `toIprof` are the two directions of a socket pair, `connected`
is iprof's end. `dpc` is where a daemon is: in its message loop, polling in a
barrier (`local`, `global`), about to remove the shared folder (`clean`).
`lbCount` is `local_barrier_count`. A sentinel `<<k, r>>` in `localDir[n]` is
the directory `k/r` of node `n`; nothing ever deletes it, as in the code.
`globalDir` is the shared folder. Polling is a guard: `busy_wait_until` reads
the folder until the condition holds. Creating the sentinel and looking at the
folder are separate steps, and so are leaving the global barrier and `rm_rf`,
because other daemons act in between. `gbCount` is a history variable. With
`Kind = "mpi"` a barrier is complete when every member of the communicator has
entered it.

The client actions `Spawn`, `Send`, `Receive` and `Close` let iprof do
anything the protocol allows, early requests and disappearing included.
`MaxLocal`, `MaxGlobal` and `MaxUnread` bound what it sends.

### Iprof

`pc` follows `all_trace_and_processing`; every request is one action that sends
and one that reads READY. `err` is the exception a rank unwinds, and decides,
as the ensure clauses do, what comes after the second barrier, the global
barrier and `finalize`. A fault is an action of its own, enabled by its name in
`Faults`. `abandoned` are the programs whose iprof was interrupted: the rescue
(line 105) ends `Process.wait2` and neither kills nor reaps the child, so such a
program may run on while its iprof goes to the second barrier, and ends in its
own time (`AbandonedEnds`). `trace` is the set of nodes whose trace is in the temporary folder,
`final` what the rename moved. `AppSyncs` says whether the traced ranks meet
once before they end, as MPI programs do in `MPI_Init`. The constants `Archive`
and `Kind` are the options `--archive` and `THAPI_SYNC_DAEMON`.

### Sampling

`main` is where `thapi_sampling_daemon.cpp` is: opening and initialising
plugins, waiting for INIT and FINISH, finalising, then the library's
destructor and its join. `thread` is where `thapi_sampling_loop` is. `array`
says whether `thapi_sampling_events` is there; `events` are its entries in
order. `RegisterClock` and `RegisterEntry` are the two halves of
`thapi_register_sampling`, outside and inside the lock. The thread holds the
mutex across a pass (`Lock`, `Call`, `Return`, `EndPass`), which may take time,
and leaves its loop holding it, as the `break` does. `Test` reads the flag
without the lock. `Sortings` is `utarray_sort`, any order of entries due
together.

Time is discrete and relative: `due[s]` is what is left until `s` is due, and
`Tick` takes one off. During a pass times are relative to the pass's own
`clock_gettime`, and `elapsed` counts what has passed since. Lateness is not
counted below `Floor`.

`iprof` may die at any point (`Die`), plugins may fail to load, the thread may
fail to start, waits may wake for nothing, and Ctrl-C ends the daemon. The
READYs are counted, as only their number matters.

### ZeProfiling

Every handler runs under one mutex, so a handler is one action on the record
`tr`, whose fields are the tables of the C file. Operators that take a state `t`
and return a state are the static helpers (`Instantiate` is
`_slot_instantiate`, `DrainAll` is `_slot_drain` of everything it reaches,
`Reclaim` is `_cl_slab_reclaim` of every slab, ...), and an action composes
them in the order of the code. A slot is an address `<<slab, index>>`, and slab
addresses are used again, as `calloc` does. `device` says what the device makes
of the slot's command. `preds` keeps with each edge the wait event it stems
from (0 for the in-order predecessor), as two waits may resolve to one slot and
take two references; `tail` is the last of a list's slabs, the others are those
it owns. `Complete`, `HostSignal` and `HostReset` are external. A
synchronisation is two steps, because its epilogue is: the call returns
(`SyncReturns`), other threads run, then the epilogue drains (`OnSync`).

A handler that waits for the device does so with the mutex held. `holder` is
that handler: while it waits (`Waits`) no other handler starts, and it goes on
(`Proceeds`) when the device is done with what it waits for. An epilogue and a
reset wait for the injected events they drain (line 888); the prologue of an
Execute waits, before it drains, for everything on the queue the list was last
submitted to (line 1196, `Outstanding`), other lists included.
`OnlyReplaysWait` says that the first two never have to wait; `NeverStuck` that
what a holder waits for is something the device ends without another call of
the program (`Ending`), which would be behind the mutex or in the thread that
waits.

`Rules` names what the traced program abstains from. `ze_events` assumes all
six, `ze_slabs` the first five. A rule about what a list must find holds from
the call of Execute to the submission, so also while the prologue waits. They are
the model's answer to the question for which programs the profiler's comments
are right.

| rule | the program | without it |
|---|---|---|
| `one_signal` | has one signaler, a command or the host, per event between two synchronisations, and resets it before it submits another | `latest` may name either of two; a synchronisation on an event still signaled from before drains a command that has just been submitted, and what that waits for (`OnlyReplaysWait`) |
| `run_first` | executes a list before it resets it | the reset's drain waits for ever, holding the mutex (`OnlyReplaysWait`) |
| `sync_first` | destroys a list, event or context after a synchronisation drained its commands | a later drain stashes a timing under the address of an event that is gone (`TimestampsFresh`, finding 13); the slab of a list destroyed undrained is never freed and the references stay counted (`SlabsNeeded`, `CountsExact`, finding 14) |
| `quiet_sync` | has no other thread add to a list, queue or fence whose synchronisation is returning | the epilogue drains what its call did not wait for (`OnlyReplaysWait`) |
| `consume` | executes a list again when no live command of another list depends on its previous execution | a replay closes a cycle (`PredsAcyclic`, run `ze_cycle`); an epilogue drains over an edge into the new execution (`OnlyReplaysWait`) |
| `signal_first` | submits a command that waits for an event only when the event is signaled or a submitted command will signal it, and does not reset the event while the command waits | a replay's prologue waits, with the mutex, for a command whose event only another call would signal (`NeverStuck`, finding 12) |

Abstractions: `Execute` takes one list, and its prologue and the submission are
one step that succeeds; there is one context; injected events are not named
(a slot has one or has none: see `ZeEventPool`); every command is profiled, so
the queue-wide wait has no other work to wait for; a synchronisation that has
nothing to drain when it returns is left out; only events in `Timed` have their
stashed timestamps followed.

### ZeEventPool

`freelist` is the free list of `_ze_event_pool_entry`, a stack; `fresh` are
events the pool has not created. `signaled[e]` is the command that signaled `e`
last: an identity in place of a timestamp, which lets `TimingFaithful` ask
whose timing was read. An Append is several steps: `GetEvent` (the prologue),
`DriverAppend`, `Record` (`_record_append`), and past the cap `Compensate`, the
barrier appended without the mutex; after an error `FailRead` and `FailWrite`,
the two halves of the `_put_event` that holds no mutex. `Kernel` and `Barrier`
are the device, in any order; a command's `chain` is the barrier that signals
the program's event. Lists are out-of-order, the case in which the barrier is
needed; commands have no wait events; there is one context. The return of a
synchronisation and its epilogue are one step here (their separation is
`ZeProfiling`'s). The program keeps the rule `quiet_fail` (no other tracer call
between the halves of that unlocked put), and `within_cap` (a list with more
profiled commands than slots is not executed) except in the run `ze_cap`.

### CudaTracing

Driver, program, tracer and plugin have their own variables. A call is up to
three steps: what the tracer does before it, the driver, and the exit, which is
when the plugin learns of it. `events` is `_events`; `evs[t]` are the pairs a
thread has taken out and is reporting (`_context_event_cleanup` collects under
the mutex and reports without it). `primaries` is the tracer's own count of
retains next to the driver's `primary`. `ctxStack`, `ctxDevice`, `streamToCtx`
are `CUDAContextManager`; `profiled`, `timed`, `nameDevice` are the maps of the
callbacks. `launched` is history: which command each pair timed and where. The
tracepoint of a pair (`Profile`) and its insertion in the list (`Register`) are
separate. `Names` are the commands the tracer profiles, `Tasks` those the
plugin's model selects as tasks; the code's sets differ, see findings.
`Implicit` are the predefined stream handles (`CU_STREAM_LEGACY`,
`CU_STREAM_PER_THREAD`): a command on one runs in the thread's current context,
but the plugin looks the handle up as if it had been created, and for one that
was not `std::unordered_map`'s default gives context and device 0. `None` is
stream 0, which the plugin takes for what it is.
`EarlyReuse` lets the driver hand out a destroyed handle before the exit of
`cuCtxDestroy` is traced.

## Runs

| run | bounds | checks | shows |
|---|---|---|---|
| `iprof_mpi` | 4 ranks on 2 nodes, archive | `TypeOK`, `GlobalBarrierSafe`, `TracesInFinalFolder`, `LocalBarrierHolds`, `AllEnd` | a whole job with the MPI daemon |
| `iprof_fs` | the same, no archive, ranks synchronise | `SDTypeOK`, `TracesInFinalFolder`, `LocalBarrierHolds`, `AllEnd` | the default daemon, for MPI programs |
| `iprof_faults` | 3 ranks on 2 nodes, all faults | `LocalBarrierSafe`, `SessionAlive`, `InStep`, `SessionReleased` | failures and Interrupts anywhere, programs that outlive the wait for them |
| `iprof_fs_early` | 3 ranks, no synchronisation | `TracesInFinalFolder`: **violated** | the global barrier opens before a late node has joined |
| `sampling` | 2 plugins, a sampler each, intervals 1 and 2 | `TypeOK`, `NoUseAfterFree`, `PluginLoaded`, `WakesInTime`, `KeepsSampling`, `DaemonEnds` | both threads, failing plugins, an iprof that dies |
| `ze_events` | 2 regular lists and an immediate list, in order, 2 events, 2 slabs of 1 slot | `PredsAcyclic`, `NoDanglingPred`, `LatestIsLive`, `OnlyReplaysWait`, `NeverStuck` | the graph and the waits, under the rules |
| `ze_slabs` | in-order regular and out-of-order immediate list, 1 event, 1 fence, 2 slabs of 2 slots | `TypeOK`, `NoDanglingPred`, `CountsExact`, `SlabsNeeded`, `OnlyReplaysWait`, `TimestampsFresh` | the counters, slab lifetimes, stashed timings over destroyed events, without `signal_first` |
| `ze_cycle` | regular and in-order immediate list, 3 slabs, without `consume` | `PredsAcyclic`: **violated** | a replay closes a cycle |
| `ze_pool` | 2 threads, a regular and an immediate list, 3 injected events, 4 commands, cap 2 | `TypeOK`, `EventsUnique`, `SignalFaithful`, `TimingFaithful`, `IdleEventsClean` | the life of injected events |
| `ze_cap` | cap 1, without `within_cap` | `SignalFaithful`: **violated** | two commands share an injected event |
| `cuda` | 2 threads, 2 devices, 2 contexts, a created and a predefined stream, 2 pairs, 2 launches | `TypeOK`, `NamesFaithful`, `EventsInLiveContexts`, `LaunchedOnDevice` | tracer and plugin agree with the driver |
| `cuda_names` | the same, with a profiled command that is no task | `NamesFaithful`: **violated** | a pair with the name of another command |

Why the bounds are enough to matter.

* Two nodes, one with a rank that is not a local master, are the least that
  tells local from global and master from local master; two local barriers are
  what the launcher uses, and let one daemon be in the second while another
  polls for the first.
* Two samplers at different intervals are the least that can be out of order;
  a pass of one tick (`MaxPass`) lets one become late during the pass of
  another; `Floor` is below the largest interval, so lateness by more than one
  interval happens, which is the branch that skips missed deadlines.
* An edge between lists needs two lists, a cycle two events, and a command that
  waits for a list not submitted yet two regular lists; slabs of two slots
  separate held from used, and let a chain be four slots long. What these
  instances cannot show together, more slabs, lists and events at once, the
  theorems cover: all properties but `NeverStuck`, each under the rules it
  needs.
* Three injected events serve two threads and a list's body at once; four
  commands let an event come back and be used a third time, and let a list go
  past its cap of two.
* Two contexts are the least that differ by device, and with one primary
  (`Retained`) and one created (`Created`) context both ways of ending occur;
  two pairs of two threads can cross; `MaxRefs` of 2 is the least that tells
  the last release from others; two contexts also make a handle be used again.

`SYMMETRY` is used with invariants only. Deadlock is not checked: jobs end,
clients may disconnect, pools and bounds run out, and a program may make no
further call.

Fairness. Jobs, in the two runs without faults: weak fairness of each rank's
launcher and daemon. Both are processes of an operating system,
`busy_wait_until` keeps polling and every polled condition stays true until it
is seen, and the traced program is assumed to end; faults have no fairness.
Sampling: weak fairness of `Tick`, strong fairness of the main thread's and the
sampling thread's steps. It is strong because either may have to wait for the
mutex while the other holds it; the thread sleeps outside the mutex after
every pass, and holds it for a bounded time, so the mutex is free again and
again, and a waiting thread is assumed to get it eventually. A dead iprof, a
failing `dlopen` and spurious wake-ups have no fairness.

The mutants in the modules, each just before the definition it stands in for,
are plausible mistakes of the code: a folder shared by all barriers, a missing
ensure, an event put back without a reset, a retain that is not counted, and so
on. Each breaks the property it is listed with.

## Findings

Shown by a run:

1. **The file-system global barrier can open early** (`sync_daemon_fs:45`, run
   `iprof_fs_early`). The daemon waits for an empty folder, and a node whose
   daemon has not started has no sentinel in it yet. The trace of that node
   stays behind under the temporary name. Only jobs whose ranks never meet, or
   whose master is interrupted before they do, are exposed.
2. **The dependency graph can have a cycle** (`tracer_ze_helpers.include.c:862`,
   run `ze_cycle`), when a regular list is executed again while another list's
   undrained command points at it and it waits for that command's event:
   `_slot_drain` then recurses without end.
3. **Past the slot cap two commands share an injected event** (line 790, run
   `ze_cap`): the event goes back to the free list although the list's body
   holds it, and the program can see its event before its command is done.
4. **Commands that are profiled but are not tasks take another's name**
   (`btx_cudamatching_model.yaml:234`, run `cuda_names`).

Seen while modelling, from a rule or a constant the passing runs assume:

5. `zeCommandListReset` of a list that never ran hangs (line 888): slots are
   live from the Append on. A synchronisation's epilogue can hang at the same
   line: a command appended by another thread between the return and the
   epilogue is drained too, while the mutex keeps out the Execute that would
   submit it.
6. A destroyed event's entry can come back (line 897): slots keep its address.
7. A failed Append races with any other call of the tracer (`ze_model.rb:326`):
   its `_put_event` holds no mutex, and an event taken in between is handed out
   twice. Without `quiet_fail`, `EventsUnique` fails.
8. Ctrl-C reaches the sampling daemon, which has no handler (`CtrlC`); iprof
   rescues its own Interrupt, and then the first step of `LocalMaster.teardown`
   (`xprof.rb.in:690`) raises on the closed socket, before the LTTng session
   is torn down.
9. A plugin without finalizer is accepted (`thapi_sampling_daemon.cpp:59`) and
   closed with its samplers still registered: the thread then calls unmapped
   code. `PluginLoaded` holds when every plugin has one, as the three in the
   repository do.
10. The result of a pair is looked up under the thread that reports it
    (`btx_cudainterval_callbacks.cpp:263`), the one that ends the context, and
    not under the one that launched: the device is missing or another's.
    `LaunchedOnDevice` states what does hold.
11. With `EarlyReuse = TRUE` `LaunchedOnDevice` fails: the exit of one thread's
    `cuCtxDestroy` erases the device of a new context with the same handle
    (`context_manager.cpp:69`). Whether a driver does that is not known.
12. Executing a list again waits, under the mutex, for everything on the queue
    it was last submitted to (line 1196): "Syncing a QUEUE [...] only observes
    already-submitted work" (1192), but work already submitted may wait for an
    event. With `reg` done and not drained on a queue, and `reg2` on the same
    queue waiting for an event that the program signals after it executes `reg`
    again, the second Execute never returns, where it would without the tracer.
    So it is for an event that another call of the tracer, then behind the
    mutex, would have signaled. Without `signal_first`, `NeverStuck` fails.
13. A timing can be stashed under the address of a destroyed event (line 897),
    although "evicting the entry at destroy [...] closes the recycled-address
    reads" (1167). Let a command of an out-of-order immediate list signal `e1`,
    and a later one `e2`, both done. A synchronisation on `e2` drains the second
    only. The program destroys `e1`; the list's next synchronisation drains the
    first command, whose slot still names `e1`, and the timing is served to the
    next event at that address. Without `sync_first`, `TimestampsFresh` fails.
14. The slab of a list that is destroyed before its commands are drained is not
    always freed (line 954): references between its own slots count as pins, and
    those slots drop their edges without giving the references back. Without
    `sync_first`, `SlabsNeeded` fails.
15. An interrupted iprof goes on to the second barrier while its program may
    still run (`xprof.rb.in:105`): the local master then destroys the session
    under it. `SessionAlive` excepts the programs in `abandoned`.
16. Launches on the predefined streams get the wrong device
    (`context_manager.cpp:23`): only stream 0 is treated as implicit, and
    `CU_STREAM_LEGACY` and `CU_STREAM_PER_THREAD` (`cuda.h:440`, `:450`) are
    looked up among the created ones, so a default context and device 0 are
    found. `LaunchedOnDevice` excepts launches on `Implicit` handles.

## Proofs

Everything below holds for every finite set of ranks, every assignment to
nodes, and every value of the other constants, unless a case is named.

**`SyncDaemon_proofs`**, from `TopologyAssumption` (each rank has a node, each
node with ranks one local master) and `BoundsAssumption`:

* `TypeCorrect`: `SDSpec => []SDTypeOK`;
* `LocalBarrierCorrect`: `SDSpec => []LocalBarrierSafe`;
* `BarrierRefinement`: `SDSpec => LocalBarrierHolds`, that is, `SDSpec`
  implements `LocalBarrier` with `arrived <- LocalArrived`, `left <- lbCount`;
* `GlobalBarrierCorrect`: `Kind = "mpi"` implies `SDSpec => []GlobalBarrierSafe`.

`LocalBarrierSafe` alone is not inductive: the file-system daemon decides by
counting sentinels, so the invariant `BarrierInv` adds what a sentinel means
(`SentinelsMatch`): `<<k, q>>` lies in the folder of `q`'s own node, and `q`
has entered its barrier `k` (`k < LocalArrived(q)`). The lemma `CompleteMeansAll` is the heart of the
argument: as many sentinels of barrier `k` as the node has ranks, all of ranks
of that node, are sentinels of all of them (equal cardinality of finite sets),
so a daemon leaves only when every peer has entered. The refinement maps
`EnterLocal` to an arrival, `LeaveLocal` to a leave and the rest to stuttering.
The global barrier needs `GlobalInv`: with MPI no daemon cleans a folder, and
the promise is between all ranks, not the local masters only.

**`Iprof_proofs`**:

* `JobRefinesDaemons`: `Spec => SDSpec`, so a job inherits what is proved of the
  daemons (`JobBarrier`: `Spec => LocalBarrierHolds`);
* `JobTypeCorrect`, `JobSessionAlive`, `JobInStep`, `JobSessionReleased`: the
  invariants of those names, for every set of faults. `SessionAlive` is about
  every program whose iprof waits for it; one that was abandoned has no such
  guarantee (finding 15).

The inductive invariant `JobInv` has four parts. `Talk` says for each place of
an iprof that was not interrupted which request is open and how far it got,
which is why `InStep` holds. `Counts` ties that place to the number of local
barriers its daemon has come out of. `Path` says where an interrupted iprof can
be and that only local masters tear down. `Session` ties a session to its
local master: it exists once the master has asked for a barrier, and it is down
only when the master's daemon has come out of two. `SessionAlive` then follows
from the barrier: a rank that waits for its program has come out of exactly one
barrier, so by `LocalBarrierSafe` its local master has entered one (the session
exists) and has come out of at most one (it is not down). An Interrupt that
leaves `wait_ready` breaks `Talk`, and the argument shows that nothing else
depends on it.

**`IprofRename_proofs`**:

* `JobTracesInFinalFolder`: `Kind = "mpi"` implies `Spec => []TracesInFinalFolder`,
  whatever fails;
* `JobTracesInFinalFolderFs`: `Kind = "fs"`, `AppSyncs` and
  `"interrupt" \notin Faults` imply the same, whatever else fails.

Invariant `RenameInv`: a rank that has asked for the global barrier is past its
teardown and analysis for good; an iprof that goes on uninterrupted has been
through the barrier; a master that renames is one of those. It is kept if every
local master has asked by the time a healthy master is out of the barrier.
With the MPI daemon `GlobalInv` says so, also of those that failed, because
`SyncDaemon.open` asks in an ensure clause. The file-system daemon waits only for
those whose sentinel is there, so `SentinelInv` follows the sentinels: that of a
local master whose daemon has started lies in the folder until it is withdrawn
(`Sentinels`); a master without an exception has left the program, where all
ranks met, hence all daemons have started (`Gathered`); and when such a master
empties the folder, all have withdrawn (`Emptied`). A master that failed before
the meeting may remove a sentinel that has just come: all of it is claimed only
while `err[Master] = "none"`, and a master that failed does not rename. Both
hypotheses are needed: without `AppSyncs` it is finding 1, and after Ctrl-C the
master does not wait for the program's synchronisation.

**`Sampling_proofs`**, from `SamplingAssumption` and
`Plugins \subseteq Finalizers`:

* `SamplingTypeCorrect`, `ThreadSafe` (`NoUseAfterFree`), `PluginSafe`
  (`PluginLoaded`), `SleepsShortEnough` (`WakesInTime`).

The invariant `Inv` says that the thread holds the mutex during a pass
(`PassHolds`) and that there is an entry under its cursor when it calls
(`CallHasEntry`); that the array is there unless the destructor has run, which
needs the mutex and raises the flag (`ArrayThere`); that an entry belongs to a
plugin that holds its handle (`EntriesHeld`), and that such a plugin is mapped
(`HandlesLoaded`), because it is closed only after its finalizer has
unregistered what it holds. `OpenedBefore` gives the loop
that opens plugins what it needs, that no plugin is opened twice. `WakesInTime`
is kept because nothing is registered that the thread already sleeps on
(`SleepersHeld`): while plugins start, all it has known still have handles. Both
threads' actions are split by what they can disturb; time, replies and the
parent disturb nothing but the sleep, which time brings to its end at the pace
of the entries.

**`ZeProfiling_proofs`**, from `ZeAssumption`, `NoneAssumption` and the one
hypothesis `"sync_first" \in Rules`, so for programs that keep none of the other
rules too: `TypesKept` (`TypeOK`), `NoPredDangles` (`NoDanglingPred`),
`CountsStayExact` (`CountsExact`), `DrainedSlabsAreFreed` (`SlabsNeeded`) and
`LatestStaysLive` (`LatestIsLive`). `sync_first` is the premise that destroyed
lists are drained: without it `SlabsNeeded` is false (finding 14).

They share one inductive invariant, `Sound`. No property is inductive alone:
that an edge leads to memory rests on the reference it holds (`RefsExact`), on
the slab with referenced slots being kept (`SlabKnown`, `SlotKnown`, and
`HeldExact`: `n_held` of an immediate list's slab and `n_pinned` of a detached
one are the numbers of slots that are live or referenced, `Needed`), and a
reference is only given back right if `live_slots` and `latest` name live slots
(`ListExact`, `LatestLive`). `Sound(t, X)` is stated of any state `t` of the
tracer, because handlers are compositions: each helper has a lemma that it
takes a sound state to a sound state (`DrainSound`, `ReclaimSound`,
`WithRoomSound`, `FilledSound`, `InstantiateSound`, ...), and a handler's lemma
follows from those of the helpers it calls. `X` is the slot that
`_cl_slot_append` has taken and `_slot_instantiate` has not made live yet: it is
held without being needed. `DrainSound` is proved of a drain of any set of live
slots, not only of what a walk reaches, so nothing depends on the shape of the
graph. Edges are counted (`EdgesPlus`, `EdgesMinus`), as are the slots of a slab
that a drain releases (`DrainedSlab`).

**`ZeProfilingRules_proofs`**, from the same assumptions and, theorem by theorem,
the rules it needs:

* `StashedTimesAreFresh`: `sync_first` and `one_signal` imply
  `Spec => []TimestampsFresh`, for any number of events destroyed and of new ones
  at their addresses; a drain that comes after the destruction is finding 13;
* `EdgesFormDag`: `sync_first` and `consume` imply `Spec => []PredsAcyclic`;
* `OnlyReplaysBlock`: the first five rules (`DrainRules`) imply
  `Spec => []OnlyReplaysWait`: neither an epilogue nor a reset ever waits.

Each invariant has `Sound` (through `State`) in it and `Base`, which no rule but
`sync_first` is needed for: an open list is not on the device, a closed list that
is not in flight has no live slot, and a live slot the device does not have is of a
list that is open (`Unrun`, `Flight`, `OnDevice`). The other parts are one per
theorem.

* `Signals`: an event has one live signaler, and it is `latest`. An event without
  a `latest`, as `sync_first` leaves a destroyed one, then has no live slot whose
  drain could stash a timing for it.
* `Acyclic`: below every live slot there is a set of live slots that is closed
  under edges and that the slot is not in. It is stated with sets, not with
  paths, so that no induction is needed: below a new slot are all that were
  live before it, and a drain intersects. A replay makes the slots of a list live
  again with edges to what was live before; with `consume` no live slot outside
  the list leads back into it (`NoBack`).
* `Ended`: of a command that is done on the device, so are all the commands it
  waited for (`Edged` says what an edge stands for), and of a fired event, the
  signaler is. `Over`: what the epilogue of a call that has returned is going to
  drain is done. What the epilogue reaches over the edges is then done too, by
  `Ended`. A reset is covered by `run_first`: the device has had the slots of the
  list, and is done with them as Level Zero asks. `quiet_sync` and `one_signal`
  keep `Over` while other threads run between the return and the epilogue. A
  replay may wait, so these invariants hold while one holds the mutex and the
  device goes on.

Handlers are compositions here too: `Lesser(t, u)` relates states of which the
second has lost commands only (every drain, destroy and reset), `Grown` adds
one slot (an Append), `Replays` revives a list's (an Execute). Each part has
one lemma per relation, and each handler one lemma that says which relations it
is made of.

**`ZeEventPool_proofs`**, from `PoolAssumption` (finitely many
threads) and two hypotheses on the program:

* if `"quiet_fail" \in Rules`: `TypesKept` (`TypeOK`) and `EventsStayUnique`
  (`EventsUnique`);
* if also `"within_cap" \in Rules`: `SignalsAreFaithful` (`SignalFaithful`),
  `TimingsAreFaithful` (`TimingFaithful`), `IdleEventsStayClean`
  (`IdleEventsClean`).

Neither hypothesis can be dropped: findings 3 and 7 are what happens otherwise.
Uniqueness counts holders; the inductive `OwnInv` says who they are. An event
has at most one holder, a call under way or a slot, and a free event none
(`Owned`); a call is on an open list, alone on it, and its command has no slot
yet (`Calls`). A regular list past its cap gives its event back while its body
holds it, so `Overfull` follows such calls. The second half of a failed Append
writes back a free list it read earlier: `Seen` says that what it read is
still nobody's, which only `quiet_fail` makes true. `SignalInv` then says that
a signal stands for the one command that is awaited for that event, and
where each command can be for each state of its list; without it a reset event
could be signaled again by a command that was drained already.

**`CudaTracing_proofs`**, from `CudaAssumption` (finitely many threads):

* `TypesKept` (`TypeOK`) and `NoPairIsOrphaned` (`EventsInLiveContexts`), for
  every program;
* `NamesStayFaithful` (`NamesFaithful`), if `Names \subseteq Tasks`; otherwise
  finding 4;
* `LaunchesFindTheirDevice` (`LaunchedOnDevice`), if also `EarlyReuse = FALSE`
  (finding 11).

The invariant under all of them is `CallInv`: which step each operation can be
at (`CallOk`), that a call which ends a context has it alone (`Alone`), that
pairs are apart (`PairsApart`), and `Counts`: the driver's count of a primary
context is what the program holds plus the retains and releases under way,
the tracer's is what the program holds. The two differ in the middle of every
call, so that "the tracer saw the last release" means "the driver is about to
see it" only by counting threads. `PairsInUse` adds that the context of every
listed pair is one the program still has and nobody is ending: that is why
nothing is left in the list when a context goes. `PairsNamed` follows one
thread from its launch to the result. `ManagerInv` says how far the plugin can
be behind the driver: by one call of each thread, since a destroy or a create
moves the thread's stack when the driver runs and the plugin's at the exit.

Only model-checked: liveness (`AllEnd`, `KeepsSampling`, `DaemonEnds`), which is
outside what the prover does, and `NeverStuck`, which the run `ze_events` shows
for two regular lists and an immediate one. It needs an order on the commands in
which each waits for earlier ones only, which the state does not record.

## Not modelled

* Paranoid and property dumps of Level Zero, the MPI, OpenMP, ITT and PyTorch
  tracers, HIP: a call in, tracepoints out, next to no state.
* OpenCL: event callbacks run in driver threads and keep a reference count per
  object; worth a module.
* The other interval plugins, aggregation, tally and timeline: sequential
  functions of the trace. Matching of Level Zero results and the per-node
  aggregation are worth checking against a definition.
* `iprof`'s option parsing, command lines and on-node processing; reading of
  the topology from the environment.
* MPI session set-up in `sync_daemon_mpi`; a second job with a reused job id.
* Level Zero: failing submissions, several lists in one Execute, several
  contexts.
* The `DL_FOREACH` of the CUDA tracer's destructor while threads still launch:
  a data race. `Exit` is taken only when no thread is in a call.
* Code generators, vendored headers, `whichlib64`, the babeltrace driver: build
  time, third-party, or plain sequential I/O. Generated and vendored code is by
  far the largest part of the repository's lines.

## Plan

1. `ZeProfiling`: the split of `Execute` into prologue and submission, with a
   submission that fails.
2. OpenCL's callbacks and reference counts.
3. Aggregation and tally as functions, and Level Zero's interval plugin.
4. A second job on the same node with a reused job id.
5. Proofs: `NeverStuck` from the order in which commands were submitted.
