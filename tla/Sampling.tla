------------------------------ MODULE Sampling ------------------------------
(* The sampling daemon that iprof starts on the local master of each node:   *)
(* iprof, the daemon's main thread, which loads plugins and has them         *)
(* register samplers (thapi_sampling_daemon.cpp), and the sampling thread    *)
(* that calls them (thapi_sampling.c).  The two threads share an array of    *)
(* samplers under a mutex, and a flag that is also read without it.          *)
(*                                                                           *)
(* Times are relative: due[s] is what is left until s is due, and negative   *)
(* once it is late.  While the thread makes a pass over the array, the times *)
(* of the array are relative to the pass's now, and elapsed counts on.       *)
EXTENDS Integers, Sequences, FiniteSets, Functions

CONSTANTS Plugins, Samplers,
          Argv,        \* the plugins on the command line
          PluginOf,    \* the plugin that registers a sampler
          Interval,
          Finalizers,  \* plugins that export thapi_finalize_sampling_plugin
          MaxPass,     \* bound: ticks a pass over the array may take
          Floor,       \* bound: lateness is not counted below
          None

ASSUME SamplingAssumption ==
  /\ Argv \in Seq(Plugins)
  /\ \A i, j \in 1 .. Len(Argv) : Argv[i] = Argv[j] => i = j
  /\ PluginOf \in [Samplers -> Plugins]
  /\ Interval \in [Samplers -> Nat \ {0}]
  /\ Finalizers \subseteq Plugins
  /\ MaxPass \in Nat
  /\ Floor \in Int
  /\ \A s \in Samplers : Floor < -Interval[s]
  /\ None \notin Samplers

VARIABLES iprof,    \* where the parent is; "dead" closes its socket
          inbox,    \* messages to the daemon
          replies,  \* READYs iprof has not read
          main,     \* where the daemon's main is
          at,       \* its loop index
          plugins,  \* the plugins dlopen has found
          loaded,   \* those still mapped
          handles,  \* samplers whose plugin holds a handle
          pending,  \* a sampler between its clock_gettime and the lock
          thread,   \* where the sampling thread is
          mutex,    \* who holds thapi_sampling_mutex
          array,    \* thapi_sampling_events: "unset", "alive" or "freed"
          events,   \* its entries
          due,      \* next of each entry
          cursor,   \* entries a pass has called
          elapsed,  \* ticks since the pass read the clock
          target,   \* what is left of the thread's sleep
          known,    \* history: the entries when it fell asleep
          finished  \* thapi_sampling_finished

parent == <<iprof, inbox, replies>>
daemon == <<main, at, plugins, loaded, handles, pending>>
entries == <<array, events, due>>
pass == <<cursor, elapsed, target, known>>
vars == <<parent, daemon, thread, mutex, entries, pass, finished>>

IprofPcs == {"starting", "running", "finishing", "reaping", "done", "dead", "raised"}
Closed == iprof \in {"done", "dead", "raised"} \* its end of the socket is
MainPcs == {"open", "initialize", "wait_init", "wait_finish", "finalize",
            "reply", "cleanup", "join", "gone"}
ThreadPcs == {"none", "test", "lock", "waiting", "pass", "calling", "asleep", "ended"}

Distinct(q) == \A i, j \in 1 .. Len(q) : q[i] = q[j] => i = j

TypeOK == /\ iprof \in IprofPcs
          /\ inbox \in Seq({"INIT", "FINISH"})
          /\ replies \in Nat
          /\ main \in MainPcs
          /\ at \in Nat \ {0}
          /\ plugins \in Seq(Plugins) /\ Distinct(plugins)
          /\ loaded \subseteq Plugins
          /\ handles \subseteq Samplers
          /\ pending \in Samplers \union {None}
          /\ thread \in ThreadPcs
          /\ mutex \in {"free", "thread"}
          /\ array \in {"unset", "alive", "freed"}
          /\ events \in Seq(Samplers) /\ Distinct(events)
          /\ due \in [Samplers -> Int]
          /\ cursor \in Nat
          /\ elapsed \in 0 .. MaxPass
          /\ target \in Int
          /\ known \subseteq Samplers
          /\ finished \in BOOLEAN

Init == /\ iprof = "starting" /\ inbox = <<"INIT">> /\ replies = 0
        /\ main = "open" /\ at = 1
        /\ plugins = <<>> /\ loaded = {} /\ handles = {} /\ pending = None
        /\ thread = "none" /\ mutex = "free"
        /\ array = "unset" /\ events = <<>> /\ due = [s \in Samplers |-> 0]
        /\ cursor = 0 /\ elapsed = 0 /\ target = 0 /\ known = {}
        /\ finished = FALSE

-----------------------------------------------------------------------------
(* Time. *)

Clip(t) == IF t < Floor THEN Floor ELSE t
InPass == thread \in {"pass", "calling"}

Tick == /\ main # "gone"
        /\ InPass => elapsed < MaxPass
        /\ elapsed' = IF InPass THEN elapsed + 1 ELSE 0
        /\ due' = [s \in Samplers |->
             IF s = pending \/ (s \in Range(events) /\ ~InPass)
             THEN Clip(due[s] - 1) ELSE due[s]]
        /\ target' = IF thread = "asleep" THEN Clip(target - 1) ELSE target
        /\ UNCHANGED <<parent, daemon, thread, mutex, array, events, cursor,
                       known, finished>>

-----------------------------------------------------------------------------
(* thapi_sampling.c *)

\* Mutant: entries stay in the order in which they came.
Unsorted(q, d) == {q}

\* utarray_sort: qsort by next; the order of entries due together is open.
Sortings(q, d) ==
  {[i \in 1 .. Len(q) |-> q[p[i]]] :
     p \in {p \in Bijection(1 .. Len(q), 1 .. Len(q)) :
             \A i, j \in 1 .. Len(q) : i < j => d[q[p[i]]] <= d[q[p[j]]]}}

\* pthread_cond_signal.
Woken == IF thread = "waiting" THEN "lock" ELSE thread

\* thapi_register_sampling before the lock: start the thread, which may fail,
\* on the first call, and read the clock.
RegisterClock(s) ==
  /\ pending = None
  /\ pending' = s
  /\ due' = [due EXCEPT ![s] = Interval[s]]
  /\ array' = "alive"
  /\ IF array = "unset" THEN thread' \in {"test", "none"} ELSE UNCHANGED thread
  /\ UNCHANGED <<main, at, plugins, loaded, handles, mutex, events, pass, finished>>

\* Mutants: the plugin does not keep the handle; the thread is not woken.
RegisterForgotten(s) ==
  /\ pending = s
  /\ mutex = "free"
  /\ events' \in Sortings(Append(events, s), due)
  /\ thread' = Woken
  /\ pending' = None
  /\ UNCHANGED <<main, at, plugins, loaded, handles, mutex, array, due, pass, finished>>

RegisterQuietly(s) ==
  /\ pending = s
  /\ mutex = "free"
  /\ events' \in Sortings(Append(events, s), due)
  /\ handles' = handles \union {s}
  /\ pending' = None
  /\ UNCHANGED <<main, at, plugins, loaded, thread, mutex, array, due, pass, finished>>

\* thapi_register_sampling under the lock.
RegisterEntry(s) ==
  /\ pending = s
  /\ mutex = "free"
  /\ events' \in Sortings(Append(events, s), due)
  /\ thread' = Woken
  /\ handles' = handles \union {s}
  /\ pending' = None
  /\ UNCHANGED <<main, at, plugins, loaded, mutex, array, due, pass, finished>>

\* utarray_erase.
Erase(q, i) == [j \in 1 .. Len(q) - 1 |-> IF j < i THEN q[j] ELSE q[j + 1]]

\* thapi_unregister_sampling.
Unregister(s) ==
  /\ mutex = "free"
  /\ \E i \in 1 .. Len(events) : events[i] = s /\ events' = Erase(events, i)
  /\ handles' = handles \ {s}
  /\ UNCHANGED <<main, at, plugins, loaded, pending, thread, mutex, array, due,
                 pass, finished>>

\* Mutant: the destructor does not wake the thread.
CleanupQuietly ==
  /\ main = "cleanup"
  /\ IF thread = "none"
     THEN main' = "gone" /\ UNCHANGED <<thread, array, finished>>
     ELSE /\ mutex = "free"
          /\ main' = "join"
          /\ finished' = TRUE
          /\ array' = "freed"
          /\ UNCHANGED thread
  /\ UNCHANGED <<parent, at, plugins, loaded, handles, pending, mutex, events, due, pass>>

\* thapi_sampling_cleanup, the library's destructor: frees entries and array,
\* which events still shows as the thread would find them.
Cleanup ==
  /\ main = "cleanup"
  /\ IF thread = "none"
     THEN main' = "gone" /\ UNCHANGED <<thread, array, finished>>
     ELSE /\ mutex = "free"
          /\ main' = "join"
          /\ finished' = TRUE
          /\ array' = "freed"
          /\ thread' = Woken
  /\ UNCHANGED <<parent, at, plugins, loaded, handles, pending, mutex, events, due, pass>>

Join == /\ main = "join"
        /\ thread = "ended"
        /\ main' = "gone"
        /\ UNCHANGED <<parent, at, plugins, loaded, handles, pending, thread, mutex,
                       entries, pass, finished>>

\* thapi_sampling_loop: the flag is read without the lock.
Test == /\ thread = "test"
        /\ thread' = IF finished THEN "ended" ELSE "lock"
        /\ UNCHANGED <<parent, daemon, mutex, entries, pass, finished>>

\* Mutant: the flag is not read again under the lock.
LockTrusting ==
  /\ thread = "lock"
  /\ mutex = "free"
  /\ IF events = <<>>
     THEN thread' = "waiting" /\ UNCHANGED <<mutex, cursor, elapsed>>
     ELSE thread' = "pass" /\ mutex' = "thread" /\ cursor' = 0 /\ elapsed' = 0
  /\ UNCHANGED <<parent, daemon, entries, target, known, finished>>

\* Under the lock: leave, still holding it, wait for an entry, or read the clock.
Lock ==
  /\ thread = "lock"
  /\ mutex = "free"
  /\ \/ /\ finished
        /\ thread' = "ended"
        /\ mutex' = "thread"
        /\ UNCHANGED <<cursor, elapsed>>
     \/ /\ ~finished
        /\ events = <<>>
        /\ thread' = "waiting"
        /\ UNCHANGED <<mutex, cursor, elapsed>>
     \/ /\ ~finished
        /\ events # <<>>
        /\ thread' = "pass"
        /\ mutex' = "thread"
        /\ cursor' = 0
        /\ elapsed' = 0
  /\ UNCHANGED <<parent, daemon, entries, target, known, finished>>

SpuriousWakeup == /\ thread = "waiting"
                  /\ main # "gone"
                  /\ thread' = "lock"
                  /\ UNCHANGED <<parent, daemon, mutex, entries, pass, finished>>

Late == cursor < Len(events) /\ due[events[cursor + 1]] < 0

Call == /\ thread = "pass"
        /\ Late
        /\ thread' = "calling"
        /\ UNCHANGED <<parent, daemon, mutex, entries, pass, finished>>

\* The next multiple of the interval or, when that is late too, an interval
\* from now.
NextDue(s) == IF due[s] + Interval[s] < 0 THEN Interval[s] ELSE due[s] + Interval[s]

Return == /\ thread = "calling"
          /\ thread' = "pass"
          /\ due' = [due EXCEPT ![events[cursor + 1]] = NextDue(events[cursor + 1])]
          /\ cursor' = cursor + 1
          /\ UNCHANGED <<parent, daemon, mutex, array, events, elapsed, target,
                         known, finished>>

\* Sort, take the first entry's time, unlock and sleep.
EndPass ==
  /\ thread = "pass"
  /\ ~Late
  /\ due' = [s \in Samplers |->
               IF s \in Range(events) THEN Clip(due[s] - elapsed) ELSE due[s]]
  /\ events' \in Sortings(events, due')
  /\ target' = due'[events'[1]]
  /\ known' = Range(events)
  /\ thread' = "asleep"
  /\ mutex' = "free"
  /\ elapsed' = 0
  /\ UNCHANGED <<parent, daemon, array, cursor, finished>>

Wake == /\ thread = "asleep"
        /\ target <= 0
        /\ thread' = "test"
        /\ UNCHANGED <<parent, daemon, mutex, entries, pass, finished>>

-----------------------------------------------------------------------------
(* thapi_sampling_daemon.cpp *)

library == <<thread, mutex, entries, pass, finished>>

\* dlopen of the next argument, which may fail.
Open == /\ main = "open"
        /\ IF at <= Len(Argv)
           THEN /\ \/ /\ plugins' = Append(plugins, Argv[at])
                      /\ loaded' = loaded \union {Argv[at]}
                   \/ UNCHANGED <<plugins, loaded>>
                /\ at' = at + 1
                /\ UNCHANGED main
           ELSE /\ at' = 1
                /\ main' = "initialize"
                /\ UNCHANGED <<plugins, loaded>>
        /\ UNCHANGED <<parent, handles, pending, library>>

Mine == {s \in Samplers : PluginOf[s] = plugins[at]}

\* thapi_initialize_sampling_plugin of the plugins in turn: each registers
\* its samplers.
Initialize ==
  /\ main = "initialize"
  /\ at <= Len(plugins)
  /\ \/ \E s \in Mine \ handles : RegisterClock(s) \/ RegisterEntry(s)
     \/ /\ Mine \subseteq handles
        /\ at' = at + 1
        /\ UNCHANGED <<main, plugins, loaded, handles, pending, library>>
  /\ UNCHANGED parent

Initialized == /\ main = "initialize"
               /\ at > Len(plugins)
               /\ at' = 1
               /\ main' = "wait_init"
               /\ UNCHANGED <<parent, plugins, loaded, handles, pending, library>>

\* send_msg: a READY to an iprof that is gone raises SIGPIPE.
Reply(next) == IF Closed
               THEN main' = "gone" /\ UNCHANGED replies
               ELSE main' = next /\ replies' = replies + 1

\* recv_expect, and its failure at the end of the stream.
Expect(m) == inbox # <<>> /\ Head(inbox) = m /\ inbox' = Tail(inbox)
Eof == /\ main \in {"wait_init", "wait_finish"}
       /\ Closed
       /\ inbox = <<>>
       /\ main' = "cleanup"
       /\ UNCHANGED <<parent, at, plugins, loaded, handles, pending, library>>

RecvInit == /\ main = "wait_init"
            /\ Expect("INIT")
            /\ Reply("wait_finish")
            /\ UNCHANGED <<iprof, at, plugins, loaded, handles, pending, library>>

RecvFinish == /\ main = "wait_finish"
              /\ Expect("FINISH")
              /\ main' = "finalize"
              /\ UNCHANGED <<iprof, replies, at, plugins, loaded, handles, pending, library>>

\* Mutant: the plugin is closed before it is finalized.
DlcloseFirst ==
  /\ main = "finalize"
  /\ at <= Len(plugins)
  /\ \/ /\ plugins[at] \in loaded
        /\ loaded' = loaded \ {plugins[at]}
        /\ UNCHANGED <<main, at, plugins, handles, pending, library>>
     \/ /\ plugins[at] \notin loaded
        /\ \E s \in Mine \intersect handles : Unregister(s)
     \/ /\ plugins[at] \notin loaded
        /\ Mine \intersect handles = {}
        /\ at' = at + 1
        /\ UNCHANGED <<main, plugins, loaded, handles, pending, library>>
  /\ UNCHANGED parent

\* thapi_finalize_sampling_plugin, if any, of the plugins in turn: each
\* unregisters its samplers and is closed.
Finalize ==
  /\ main = "finalize"
  /\ at <= Len(plugins)
  /\ \/ /\ plugins[at] \in Finalizers
        /\ \E s \in Mine \intersect handles : Unregister(s)
     \/ /\ plugins[at] \in Finalizers => Mine \intersect handles = {}
        /\ loaded' = loaded \ {plugins[at]}
        /\ at' = at + 1
        /\ UNCHANGED <<main, plugins, handles, pending, library>>
  /\ UNCHANGED parent

\* The closing READY, then exit runs the destructor.
Finalized == /\ main = "finalize"
             /\ at > Len(plugins)
             /\ Reply("cleanup")
             /\ UNCHANGED <<iprof, inbox, at, plugins, loaded, handles, pending, library>>

-----------------------------------------------------------------------------
(* iprof: SamplingDaemon, which is a DaemonClient. *)

ReadReady == /\ replies > 0
             /\ replies' = replies - 1
             /\ \/ iprof = "starting" /\ iprof' = "running"
                \/ iprof = "finishing" /\ iprof' = "reaping"
             /\ UNCHANGED <<inbox, daemon, library>>

\* LocalMaster.teardown: finalize, whose sendmsg raises when the daemon is gone.
SendFinish == /\ iprof = "running"
              /\ IF main = "gone"
                 THEN iprof' = "raised" /\ UNCHANGED inbox
                 ELSE iprof' = "finishing" /\ inbox' = Append(inbox, "FINISH")
              /\ UNCHANGED <<replies, daemon, library>>

Reap == /\ iprof = "reaping"
        /\ main = "gone"
        /\ iprof' = "done"
        /\ UNCHANGED <<inbox, replies, daemon, library>>

Die == /\ ~Closed
       /\ iprof' = "dead"
       /\ UNCHANGED <<inbox, replies, daemon, library>>

\* Ctrl-C while the traced program runs: the terminal signals the whole
\* process group; iprof rescues its Interrupt, the daemon has no handler.
CtrlC == /\ iprof = "running"
         /\ main # "gone"
         /\ main' = "gone"
         /\ UNCHANGED <<parent, at, plugins, loaded, handles, pending, library>>

-----------------------------------------------------------------------------
MainStep == \/ Open \/ Initialize \/ Initialized \/ RecvInit \/ Eof \/ RecvFinish
            \/ Finalize \/ Finalized \/ Cleanup \/ Join
ThreadStep == /\ main # "gone"
              /\ Test \/ Lock \/ Call \/ Return \/ EndPass \/ Wake

Next == \/ Tick \/ MainStep \/ ThreadStep \/ SpuriousWakeup
        \/ ReadReady \/ SendFinish \/ Reap \/ Die \/ CtrlC

Spec == Init /\ [][Next]_vars

\* Time passes, samplers return, and neither thread is kept from the mutex
\* for ever: the sampling thread sleeps outside it.
FairSpec == Spec /\ WF_vars(Tick) /\ SF_vars(MainStep) /\ SF_vars(ThreadStep)

-----------------------------------------------------------------------------
(* Properties. *)

\* The thread works on the array only while it exists, though the destructor
\* frees it before the thread has ended.
NoUseAfterFree == InPass => array = "alive"

\* "pfn" is code of a plugin: it is called only while the plugin is mapped,
\* and never once its finalizer, which closes what the sampler reads, is over.
PluginLoaded == thread = "calling" => PluginOf[events[cursor + 1]] \in loaded

\* The thread never sleeps past an entry that it knew when it fell asleep,
\* whatever was registered or unregistered meanwhile.
WakesInTime == thread = "asleep" =>
                 \A s \in known \intersect Range(events) : target <= due[s]

\* A sampler that is late gets called, unless it is unregistered before.
Sampled(s) == thread = "calling" /\ events[cursor + 1] = s
KeepsSampling ==
  \A s \in Samplers :
    (s \in Range(events) /\ due[s] < 0 /\ thread # "none")
      ~> (Sampled(s) \/ s \notin Range(events) \/ finished \/ main = "gone")

\* Once iprof asks for it, or is gone, the daemon ends: the destructor's join
\* returns, and what it joins did not leave with a mutex somebody needs.
DaemonEnds == (iprof \in {"finishing", "dead"}) ~> (main = "gone")
=============================================================================
