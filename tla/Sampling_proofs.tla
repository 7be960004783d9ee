--------------------------- MODULE Sampling_proofs ---------------------------
(* The sampling thread never works on freed memory nor on a closed plugin,   *)
(* for any plugins that all have a finalizer, any samplers and any interval. *)
EXTENDS Sampling, TLAPS

\* While a pass runs, the mutex keeps the destructor and unregister out.
PassHolds == InPass => /\ mutex = "thread" /\ array = "alive" /\ ~finished
                       /\ events # <<>>
CallHasEntry == thread = "calling" => cursor < Len(events)

\* The array is there from the first registration to the destructor.
ArrayThere == /\ array = "freed" => finished
              /\ pending # None \/ events # <<>> => array # "unset"

\* Entries have handles, and handles belong to plugins that are mapped.
EntriesHeld == Range(events) \subseteq handles
HandlesLoaded == \A s \in handles : PluginOf[s] \in loaded
OpenedLoaded == main \in {"open", "initialize"} => Range(plugins) \subseteq loaded

Inv == /\ TypeOK
       /\ PassHolds /\ CallHasEntry /\ ArrayThere
       /\ EntriesHeld /\ HandlesLoaded /\ OpenedLoaded

\* main has opened plugins of the command line, which names each once.
OpenedBefore == main = "open" =>
  \A i \in 1 .. Len(plugins) : \E j \in 1 .. Len(Argv) : j < at /\ plugins[i] = Argv[j]

\* A plugin that starts registers samplers the thread cannot have fallen asleep
\* on: the daemon never registers one again.
SleepersHeld == main \in {"open", "initialize"} => known \subseteq handles

-----------------------------------------------------------------------------
(* Sequences without duplicates. *)

\* Sorting keeps the entries and brings none in twice.
LEMMA SortingsFacts ==
  ASSUME NEW S, NEW q \in Seq(S), Distinct(q), NEW d, NEW t \in Sortings(q, d)
  PROVE  /\ t \in Seq(S) /\ Distinct(t)
         /\ Range(t) \subseteq Range(q)
         /\ Len(t) = Len(q)
<1>1. PICK p \in Bijection(1 .. Len(q), 1 .. Len(q)) :
        t = [i \in 1 .. Len(q) |-> q[p[i]]]
  BY DEF Sortings
<1>2. /\ p \in [1 .. Len(q) -> 1 .. Len(q)]
      /\ \A i, j \in 1 .. Len(q) : p[i] = p[j] => i = j
  BY DEF Bijection, Injection, IsInjective
<1>3. Len(q) \in Nat /\ \A i \in 1 .. Len(q) : q[i] \in S
  OBVIOUS
<1>4. t \in Seq(S) /\ Len(t) = Len(q)
  BY <1>1, <1>2, <1>3
<1>5. Distinct(t)
  <2> SUFFICES ASSUME NEW i \in 1 .. Len(t), NEW j \in 1 .. Len(t), t[i] = t[j]
               PROVE  i = j
    BY DEF Distinct
  <2>1. i \in 1 .. Len(q) /\ j \in 1 .. Len(q)
    BY <1>4
  <2>2. q[p[i]] = q[p[j]]
    BY <1>1, <2>1
  <2>3. p[i] = p[j]
    BY <1>2, <2>1, <2>2 DEF Distinct
  <2> QED
    BY <1>2, <2>1, <2>3
<1>6. Range(t) \subseteq Range(q)
  BY <1>1, <1>2, <1>3 DEF Range
<1> QED
  BY <1>4, <1>5, <1>6

\* The first entry is due first.
LEMMA SortingsFirst ==
  ASSUME NEW S, NEW q \in Seq(S), NEW d \in [S -> Int], NEW t \in Sortings(q, d)
  PROVE  \A x \in Range(t) : d[t[1]] <= d[x]
<1>1. PICK p \in Bijection(1 .. Len(q), 1 .. Len(q)) :
        /\ t = [i \in 1 .. Len(q) |-> q[p[i]]]
        /\ \A i, j \in 1 .. Len(q) : i < j => d[q[p[i]]] <= d[q[p[j]]]
  BY DEF Sortings
<1>2. p \in [1 .. Len(q) -> 1 .. Len(q)]
  BY DEF Bijection, Injection
<1>3. Len(q) \in Nat /\ \A i \in 1 .. Len(q) : q[i] \in S
  OBVIOUS
<1> SUFFICES ASSUME NEW i \in 1 .. Len(q) PROVE d[t[1]] <= d[t[i]]
  BY <1>1 DEF Range
<1>4. 1 \in 1 .. Len(q) /\ t[1] = q[p[1]] /\ t[i] = q[p[i]] /\ d[t[1]] \in Int
  <2>1. 1 \in 1 .. Len(q) /\ t[i] = q[p[i]]
    BY <1>1, <1>3
  <2>2. p[1] \in 1 .. Len(q) /\ t[1] = q[p[1]]
    BY <1>1, <1>2, <2>1
  <2>3. d[q[p[1]]] \in Int
    BY <1>3, <2>2
  <2> QED
    BY <2>1, <2>2, <2>3
<1>5. CASE i = 1
  BY <1>4, <1>5
<1>6. CASE 1 < i
  BY <1>1, <1>4, <1>6
<1> QED
  BY <1>5, <1>6

\* Erasing an entry leaves the others.
LEMMA EraseFacts ==
  ASSUME NEW S, NEW q \in Seq(S), Distinct(q), NEW i \in 1 .. Len(q)
  PROVE  /\ Erase(q, i) \in Seq(S) /\ Distinct(Erase(q, i))
         /\ Range(Erase(q, i)) \subseteq Range(q) \ {q[i]}
<1> DEFINE t == Erase(q, i)
<1>1. Len(q) \in Nat \ {0} /\ \A j \in 1 .. Len(q) : q[j] \in S
  OBVIOUS
<1>2. t = [j \in 1 .. Len(q) - 1 |-> IF j < i THEN q[j] ELSE q[j + 1]]
  BY DEF Erase
<1> HIDE DEF t
<1>3. t \in Seq(S) /\ Len(t) = Len(q) - 1
  BY <1>1, <1>2
<1>4. Distinct(t)
  <2> SUFFICES ASSUME NEW j \in 1 .. Len(t), NEW k \in 1 .. Len(t), t[j] = t[k]
               PROVE  j = k
    BY DEF Distinct
  <2> QED
    BY <1>1, <1>2, <1>3 DEF Distinct
<1>5. Range(t) \subseteq Range(q) \ {q[i]}
  <2> SUFFICES ASSUME NEW j \in 1 .. Len(t)
               PROVE  t[j] \in Range(q) /\ t[j] # q[i]
    BY <1>2, <1>3 DEF Range
  <2> QED
    BY <1>1, <1>2, <1>3 DEF Distinct, Range
<1> QED
  BY <1>3, <1>4, <1>5 DEF t

\* Appending a new entry.
LEMMA AppendFacts ==
  ASSUME NEW S, NEW q \in Seq(S), Distinct(q), NEW s \in S, s \notin Range(q)
  PROVE  /\ Append(q, s) \in Seq(S) /\ Distinct(Append(q, s))
         /\ Range(Append(q, s)) = Range(q) \union {s}
<1>1. /\ Append(q, s) \in Seq(S) /\ Len(q) \in Nat
      /\ DOMAIN q = 1 .. Len(q)
      /\ DOMAIN Append(q, s) = 1 .. Len(q) + 1
      /\ Len(Append(q, s)) = Len(q) + 1
      /\ \A i \in 1 .. Len(q) : Append(q, s)[i] = q[i]
      /\ Append(q, s)[Len(q) + 1] = s
  OBVIOUS
<1>2. \A i \in 1 .. Len(q) : q[i] # s
  BY <1>1 DEF Range
<1>3. Distinct(Append(q, s))
  BY <1>1, <1>2 DEF Distinct
<1>4. Range(Append(q, s)) = Range(q) \union {s}
  BY <1>1 DEF Range
<1> QED
  BY <1>1, <1>3, <1>4

-----------------------------------------------------------------------------
(* The invariant. *)

\* What no step may forget: the parts of Inv but for the types.
Safe == /\ PassHolds /\ CallHasEntry /\ ArrayThere
        /\ EntriesHeld /\ HandlesLoaded /\ OpenedLoaded

\* The parent's steps and the messages.
LEMMA ParentKeepsInv ==
  ASSUME Inv,
         ReadReady \/ SendFinish \/ Die \/ CtrlC \/ Reap
           \/ RecvInit \/ RecvFinish \/ Eof \/ Finalized \/ Initialized
  PROVE  Inv'
<1> USE DEF parent, daemon, entries, pass, library
<1>1. /\ Append(inbox, "FINISH") \in Seq({"INIT", "FINISH"})
      /\ inbox # <<>> => Tail(inbox) \in Seq({"INIT", "FINISH"})
  BY DEF Inv, TypeOK
<1>2. /\ UNCHANGED <<plugins, loaded, handles, pending, library>>
      /\ main' = main \/ main' \notin {"open", "initialize"}
      /\ at' \in Nat \ {0}
  BY DEF Inv, TypeOK, ReadReady, SendFinish, Die, CtrlC, Reap, RecvInit, RecvFinish,
         Eof, Finalized, Initialized, Reply
<1>3. iprof' \in IprofPcs /\ replies' \in Nat /\ main' \in MainPcs
  BY DEF Inv, TypeOK, ReadReady, SendFinish, Die, CtrlC, Reap, RecvInit, RecvFinish,
         Eof, Finalized, Initialized, Reply, IprofPcs, MainPcs
<1>4. inbox' \in Seq({"INIT", "FINISH"})
  BY <1>1 DEF Inv, TypeOK, ReadReady, SendFinish, Die, CtrlC, Reap, RecvInit,
              RecvFinish, Eof, Finalized, Initialized, Expect
<1>5. TypeOK'
  BY <1>2, <1>3, <1>4 DEF Inv, TypeOK, Distinct
<1>6. Safe'
  BY <1>2 DEF Inv, Safe, InPass, PassHolds, CallHasEntry, ArrayThere, EntriesHeld,
              HandlesLoaded, OpenedLoaded, Range
<1> QED
  BY <1>5, <1>6 DEF Inv, Safe

\* The clock.
LEMMA TickKeepsInv ==
  ASSUME Inv, Tick
  PROVE  Inv'
<1> USE DEF parent, daemon
<1>1. \A t \in Int : Clip(t - 1) \in Int
  BY SamplingAssumption DEF Clip
<1>2. due' \in [Samplers -> Int] /\ target' \in Int /\ elapsed' \in 0 .. MaxPass
  BY <1>1, SamplingAssumption DEF Inv, TypeOK, Tick
<1>3. TypeOK'
  BY <1>2 DEF Inv, TypeOK, Tick, Distinct
<1>4. Safe'
  BY DEF Inv, Safe, Tick, InPass, PassHolds, CallHasEntry, ArrayThere, EntriesHeld,
         HandlesLoaded, OpenedLoaded, Range
<1> QED
  BY <1>3, <1>4 DEF Inv, Safe

\* The sampling thread.  It writes the array only by sorting it.
LEMMA ThreadKeepsInv ==
  ASSUME Inv, Test \/ Lock \/ Call \/ Return \/ EndPass \/ Wake \/ SpuriousWakeup
  PROVE  Inv'
<1> USE DEF parent, daemon, entries, pass
<1> USE DEF Inv, TypeOK, Safe, InPass, PassHolds, CallHasEntry, ArrayThere,
            EntriesHeld, HandlesLoaded, OpenedLoaded, ThreadPcs
<1>1. CASE Test \/ Call \/ Wake \/ SpuriousWakeup
  <2>1. CASE Test
    BY <2>1 DEF Test, Distinct, Range
  <2>2. CASE Call
    BY <2>2 DEF Call, Late, Distinct, Range
  <2>3. CASE Wake
    BY <2>3 DEF Wake, Distinct, Range
  <2>4. CASE SpuriousWakeup
    BY <2>4 DEF SpuriousWakeup, Distinct, Range
  <2> QED
    BY <1>1, <2>1, <2>2, <2>3, <2>4
<1>2. CASE Lock
  <2>3. /\ thread' \in ThreadPcs /\ mutex' \in {"free", "thread"}
        /\ cursor' \in Nat /\ elapsed' \in 0 .. MaxPass
    BY <1>2, SamplingAssumption DEF Lock
  <2>4. UNCHANGED <<parent, daemon, entries, target, known, finished>>
    BY <1>2 DEF Lock
  <2>5. Distinct(plugins)' /\ Distinct(events)'
    BY <2>4 DEF Distinct
  <2>1. TypeOK'
    BY <2>3, <2>4, <2>5
  <2>2. Safe'
    BY <1>2 DEF Lock, Range
  <2> QED
    BY <2>1, <2>2
<1>3. CASE Return
  <2>1. events[cursor + 1] \in Samplers
    BY <1>3 DEF Return
  <2> DEFINE s == events[cursor + 1]
  <2>5. NextDue(s) \in Int
    BY <2>1, SamplingAssumption DEF NextDue
  <2>2. due' \in [Samplers -> Int] /\ cursor' \in Nat
    BY <1>3, <2>1, <2>5 DEF Return
  <2>3. TypeOK'
    BY <1>3, <2>2 DEF Return, Distinct
  <2>4. Safe'
    BY <1>3 DEF Return, Range
  <2> QED
    BY <2>3, <2>4
<1>4. CASE EndPass
  <2>1. due' \in [Samplers -> Int]
    BY <1>4, SamplingAssumption DEF EndPass, Clip
  <2>2. /\ events' \in Seq(Samplers) /\ Distinct(events)'
        /\ Range(events)' \subseteq Range(events)
        /\ Len(events') = Len(events)
    <3>1. events' \in Sortings(events, due')
      BY <1>4 DEF EndPass
    <3>2. events \in Seq(Samplers) /\ Distinct(events)
      OBVIOUS
    <3>3. /\ events' \in Seq(Samplers) /\ Distinct(events')
          /\ Range(events') \subseteq Range(events)
          /\ Len(events') = Len(events)
      BY <3>1, <3>2, SortingsFacts
    <3> QED
      BY <3>3 DEF Distinct, Range
  <2>3. target' \in Int
    <3>1. Len(events') # 0
      BY <1>4, <2>2 DEF EndPass
    <3>2. events'[1] \in Samplers
      BY <2>2, <3>1
    <3> QED
      BY <1>4, <2>1, <3>2 DEF EndPass
  <2>4. known' \subseteq Samplers
    BY <1>4 DEF EndPass, Range
  <2>5. TypeOK'
    <3>1. Distinct(plugins)'
      BY <1>4 DEF EndPass, Distinct
    <3>2. elapsed' \in 0 .. MaxPass
      BY <1>4, SamplingAssumption DEF EndPass
    <3> QED
      BY <1>4, <2>1, <2>2, <2>3, <2>4, <3>1, <3>2 DEF EndPass
  <2>6. Safe'
    BY <1>4, <2>2 DEF EndPass
  <2> QED
    BY <2>5, <2>6
<1> QED
  BY <1>1, <1>2, <1>3, <1>4

\* The daemon's main thread, which writes the array under the mutex.
LEMMA RegisterKeepsInv ==
  ASSUME Inv, main = "initialize", at <= Len(plugins), UNCHANGED parent,
         NEW s \in Mine \ handles, RegisterClock(s) \/ RegisterEntry(s)
  PROVE  Inv'
<1> USE DEF parent, pass
<1> USE DEF Inv, TypeOK, Safe, InPass, PassHolds, CallHasEntry, ArrayThere,
            EntriesHeld, HandlesLoaded, OpenedLoaded, ThreadPcs
<1>1. s \in Samplers /\ PluginOf[s] = plugins[at] /\ s \notin Range(events)
  BY DEF Mine
<1>2. CASE RegisterClock(s)
  <2>4. Interval[s] \in Int
    BY <1>1, SamplingAssumption
  <2>1. due' \in [Samplers -> Int]
    BY <1>1, <1>2, <2>4 DEF RegisterClock
  <2>2. TypeOK'
    BY <1>1, <1>2, <2>1 DEF RegisterClock, Distinct
  <2>3. Safe'
    BY <1>2 DEF RegisterClock, Range
  <2> QED
    BY <2>2, <2>3
<1>3. CASE RegisterEntry(s)
  <2> DEFINE q == Append(events, s)
  <2>1. q \in Seq(Samplers) /\ Distinct(q) /\ Range(q) = Range(events) \union {s}
    BY <1>1, AppendFacts
  <2>2. events' \in Sortings(q, due)
    BY <1>3 DEF RegisterEntry
  <2> HIDE DEF q
  <2>3. /\ events' \in Seq(Samplers) /\ Distinct(events')
        /\ Range(events') \subseteq Range(q)
    BY <2>1, <2>2, SortingsFacts
  <2>4. Distinct(events)' /\ Range(events)' \subseteq handles'
    BY <1>3, <2>1, <2>3 DEF RegisterEntry, Distinct, Range
  <2>5. HandlesLoaded'
    BY <1>1, <1>3 DEF RegisterEntry, Range
  <2>6. TypeOK'
    <3>1. Distinct(plugins)'
      BY <1>3 DEF RegisterEntry, Distinct
    <3> QED
      BY <1>1, <1>3, <2>3, <2>4, <3>1 DEF RegisterEntry, Woken
  <2>7. Safe'
    <3>1. ~InPass' /\ thread' # "calling"
      BY <1>3 DEF RegisterEntry, Woken
    <3>2. array' # "unset" /\ (array' = "freed" => finished')
      BY <1>1, <1>3, SamplingAssumption DEF RegisterEntry
    <3>3. OpenedLoaded'
      BY <1>3 DEF RegisterEntry, Range
    <3> QED
      BY <2>4, <2>5, <3>1, <3>2, <3>3
  <2> QED
    BY <2>6, <2>7
<1> QED
  BY <1>2, <1>3

\* Unregistering a sampler keeps the invariant.
LEMMA UnregisterKeepsInv ==
  ASSUME Inv, UNCHANGED parent, NEW s \in Samplers, Unregister(s)
  PROVE  Inv'
<1> USE DEF parent, pass
<1> USE DEF Inv, TypeOK, Safe, InPass, PassHolds, CallHasEntry, ArrayThere,
            EntriesHeld, HandlesLoaded, OpenedLoaded, ThreadPcs
<1>1. PICK i \in 1 .. Len(events) : events[i] = s /\ events' = Erase(events, i)
  BY DEF Unregister
<1>2. /\ events' \in Seq(Samplers) /\ Distinct(events')
      /\ Range(events') \subseteq Range(events) \ {s}
  BY <1>1, EraseFacts
<1>3. events # <<>>
  BY <1>1
<1>4. Distinct(events)' /\ Range(events)' \subseteq handles'
  BY <1>2 DEF Unregister, Distinct, Range
<1>5. TypeOK'
  <2>1. Distinct(plugins)'
    BY DEF Unregister, Distinct
  <2> QED
    BY <1>2, <1>4, <2>1 DEF Unregister
<1>6. Safe'
  BY <1>3, <1>4 DEF Unregister, Range
<1> QED
  BY <1>5, <1>6

\* The rest of the daemon, when every plugin has a finalizer.
LEMMA DaemonKeepsInv ==
  ASSUME Inv, OpenedBefore, Plugins \subseteq Finalizers,
         Open \/ Initialize \/ Finalize \/ Cleanup \/ Join
  PROVE  Inv'
<1> USE DEF parent, pass, library, entries
<1> USE DEF Inv, TypeOK, Safe, InPass, PassHolds, CallHasEntry, ArrayThere,
            EntriesHeld, HandlesLoaded, OpenedLoaded, ThreadPcs, MainPcs
<1>1. CASE Open
  <2>1. CASE at <= Len(Argv) /\ plugins' = Append(plugins, Argv[at])
    <3>1. Argv \in Seq(Plugins) /\ at \in 1 .. Len(Argv) /\ Argv[at] \in Plugins
      BY <2>1, SamplingAssumption
    <3>2. Argv[at] \notin Range(plugins)
      <4>1. \A i \in 1 .. Len(plugins) : \E j \in 1 .. Len(Argv) :
              j < at /\ plugins[i] = Argv[j]
        BY <1>1 DEF Open, OpenedBefore
      <4>2. \A j \in 1 .. Len(Argv) : j < at => Argv[j] # Argv[at]
        BY <3>1, SamplingAssumption
      <4> QED
        <5>1. plugins \in Seq(Plugins) /\ at \in Nat
          OBVIOUS
        <5>2. DOMAIN plugins = 1 .. Len(plugins)
          BY <5>1
        <5>3. \A i \in 1 .. Len(plugins) : plugins[i] # Argv[at]
          BY <4>1, <4>2
        <5> QED
          BY <5>2, <5>3 DEF Range
    <3> DEFINE q == Append(plugins, Argv[at])
    <3>3. /\ q \in Seq(Plugins) /\ Distinct(q)
          /\ Range(q) = Range(plugins) \union {Argv[at]}
      BY <3>1, <3>2, AppendFacts
    <3>4. Len(q) = Len(plugins) + 1 /\ q[Len(q)] = Argv[at]
          /\ \A i \in 1 .. Len(plugins) : q[i] = plugins[i]
      OBVIOUS
    <3>5. plugins' = q
      BY <2>1
    <3> HIDE DEF q
    <3>6. at' = at + 1 /\ main' = main
          /\ UNCHANGED <<parent, handles, pending, library>>
          /\ (loaded' = loaded \union {Argv[at]} \/ plugins' = plugins)
      BY <1>1, <2>1 DEF Open
    <3>7. plugins' # plugins
      BY <3>4, <3>5
    <3>8. loaded' = loaded \union {Argv[at]}
      BY <3>6, <3>7
    <3>9. Distinct(plugins)' /\ Distinct(events)'
      BY <3>3, <3>5, <3>6 DEF Distinct
    <3>10. TypeOK'
      BY <3>1, <3>3, <3>5, <3>6, <3>8, <3>9
    <3>12. OpenedLoaded'
      BY <1>1, <3>3, <3>5, <3>8 DEF Open, Range
    <3>13. HandlesLoaded'
      BY <3>6, <3>8
    <3> QED
      BY <3>6, <3>10, <3>12, <3>13 DEF Range
  <2> QED
    <3>1. CASE ~(at <= Len(Argv) /\ plugins' = Append(plugins, Argv[at]))
      <4>1. /\ UNCHANGED <<plugins, loaded, parent, handles, pending, library>>
            /\ at' \in Nat \ {0} /\ main = "open" /\ main' \in {"open", "initialize"}
        BY <1>1, <3>1 DEF Open
      <4>2. Distinct(plugins)' /\ Distinct(events)'
        BY <4>1 DEF Distinct
      <4>3. TypeOK'
        BY <4>1, <4>2
      <4>4. Safe'
        BY <4>1 DEF Range
      <4> QED
        BY <4>3, <4>4
    <3> QED
      BY <2>1, <3>1
<1>2. CASE Initialize
  <2>1. ASSUME NEW s \in Mine \ handles, RegisterClock(s) \/ RegisterEntry(s) PROVE Inv'
    BY <1>2, <2>1, RegisterKeepsInv DEF Initialize
  <2>2. CASE at' = at + 1 /\ UNCHANGED <<main, plugins, loaded, handles, pending, library>>
    BY <1>2, <2>2 DEF Initialize, Distinct, Range
  <2> QED
    BY <1>2, <2>1, <2>2 DEF Initialize
<1>3. CASE Finalize
  <2>1. ASSUME NEW s \in Samplers, Unregister(s) PROVE Inv'
    BY <1>3, <2>1, UnregisterKeepsInv DEF Finalize
  <2>2. ASSUME Mine \intersect handles = {}, loaded' = loaded \ {plugins[at]}, at' = at + 1,
               UNCHANGED <<main, plugins, handles, pending, library>>
        PROVE  Inv'
    <3>1. HandlesLoaded'
      BY <2>2, SamplingAssumption DEF Mine
    <3>2. main' \notin {"open", "initialize"}
      BY <1>3, <2>2 DEF Finalize
    <3> QED
      BY <1>3, <2>2, <3>1, <3>2 DEF Finalize, Distinct, Range
  <2>3. plugins[at] \in Plugins
    BY <1>3 DEF Finalize
  <2> QED
    BY <1>3, <2>1, <2>2, <2>3 DEF Finalize, Mine
<1>4. CASE Cleanup
  <2>1. ~InPass' /\ thread' # "calling"
    BY <1>4 DEF Cleanup, Woken
  <2>2. TypeOK'
    <3>1. Distinct(plugins)' /\ Distinct(events)'
      BY <1>4 DEF Cleanup, Distinct
    <3> QED
      BY <1>4, <3>1 DEF Cleanup, Woken
  <2>3. Safe'
    BY <1>4, <2>1 DEF Cleanup, Range
  <2> QED
    BY <2>2, <2>3
<1>5. CASE Join
  BY <1>5 DEF Join, Distinct, Range
<1> QED
  BY <1>1, <1>2, <1>3, <1>4, <1>5

\* Only the first loop of main opens plugins.
LEMMA StepKeepsOpened ==
  ASSUME Inv, OpenedBefore, [Next]_vars
  PROVE  OpenedBefore'
<1> USE DEF vars, parent, daemon, entries, pass, library
<1>1. UNCHANGED <<main, plugins, at>> \/ main' # "open" \/ Open
  BY DEF Next, MainStep, ThreadStep, Tick, Initialize, Initialized, RecvInit, Eof,
         RecvFinish, Finalize, Finalized, Cleanup, Join, Test, Lock, Call, Return, EndPass,
         Wake, SpuriousWakeup, ReadReady, SendFinish, Reap, Die, CtrlC, Reply,
         RegisterClock, RegisterEntry, Unregister
<1>2. CASE UNCHANGED <<main, plugins, at>> \/ main' # "open"
  BY <1>2 DEF OpenedBefore
<1>3. CASE Open /\ main' = "open"
  <2>1. /\ at \in 1 .. Len(Argv) /\ at' = at + 1 /\ plugins \in Seq(Plugins)
        /\ plugins' = Append(plugins, Argv[at]) \/ plugins' = plugins
    BY <1>3, SamplingAssumption DEF Inv, TypeOK, Open
  <2>2. \A i \in 1 .. Len(plugins) : \E j \in 1 .. Len(Argv) :
          j < at /\ plugins[i] = Argv[j]
    BY <1>3 DEF Open, OpenedBefore
  <2>3. CASE plugins' = plugins
    BY <2>1, <2>2, <2>3 DEF OpenedBefore
  <2>4. CASE plugins' = Append(plugins, Argv[at])
    <3>1. \A i \in 1 .. Len(plugins') :
            \/ i \in 1 .. Len(plugins) /\ plugins'[i] = plugins[i]
            \/ plugins'[i] = Argv[at]
      BY <2>1, <2>4
    <3> QED
      BY <2>1, <2>2, <3>1 DEF OpenedBefore
  <2> QED
    BY <2>1, <2>3, <2>4
<1> QED
  BY <1>1, <1>2, <1>3

\* Every step keeps the invariant.
LEMMA StepKeepsInv ==
  ASSUME Inv, OpenedBefore, Plugins \subseteq Finalizers, [Next]_vars
  PROVE  Inv'
<1>1. CASE UNCHANGED vars
  BY <1>1 DEF vars, parent, daemon, entries, pass, Inv, TypeOK, Distinct, InPass, PassHolds,
              CallHasEntry, ArrayThere, EntriesHeld, HandlesLoaded, OpenedLoaded, Range
<1>2. CASE Next
  BY <1>2, ParentKeepsInv, TickKeepsInv, ThreadKeepsInv, DaemonKeepsInv
     DEF Next, MainStep, ThreadStep
<1> QED
  BY <1>1, <1>2

\* The invariant holds at first.
LEMMA InitInv == Init => Inv /\ OpenedBefore
<1> SUFFICES ASSUME Init PROVE Inv /\ OpenedBefore
  OBVIOUS
<1>1. Range(events) = {} /\ Len(events) = 0 /\ Len(plugins) = 0 /\ Range(plugins) = {}
  BY DEF Init, Range
<1>2. inbox \in Seq({"INIT", "FINISH"}) /\ events \in Seq(Samplers) /\ plugins \in Seq(Plugins)
  BY DEF Init
<1>3. TypeOK
  <2>1. due \in [Samplers -> Int] /\ elapsed \in 0 .. MaxPass
    BY SamplingAssumption DEF Init
  <2>2. /\ iprof \in IprofPcs /\ main \in MainPcs /\ thread \in ThreadPcs
        /\ pending \in Samplers \union {None}
    BY DEF Init, IprofPcs, MainPcs, ThreadPcs
  <2>3. Distinct(plugins) /\ Distinct(events)
    BY <1>1 DEF Distinct
  <2>4. at \in Nat \ {0} /\ replies \in Nat /\ cursor \in Nat /\ target \in Int
    BY DEF Init
  <2>5. /\ loaded \subseteq Plugins /\ handles \subseteq Samplers /\ known \subseteq Samplers
        /\ mutex \in {"free", "thread"} /\ array \in {"unset", "alive", "freed"}
        /\ finished \in BOOLEAN
    BY DEF Init
  <2> QED
    BY <1>2, <2>1, <2>2, <2>3, <2>4, <2>5 DEF TypeOK
<1>4. Safe /\ OpenedBefore
  BY <1>1 DEF Init, Safe, InPass, PassHolds, CallHasEntry, ArrayThere, EntriesHeld,
              HandlesLoaded, OpenedLoaded, OpenedBefore
<1> QED
  BY <1>3, <1>4 DEF Inv, Safe

\* So it always holds.
LEMMA AlwaysInv ==
  ASSUME Plugins \subseteq Finalizers
  PROVE  Spec => []Inv
<1>1. Init => Inv /\ OpenedBefore
  BY InitInv
<1>2. Inv /\ OpenedBefore /\ [Next]_vars => Inv' /\ OpenedBefore'
  BY StepKeepsInv, StepKeepsOpened
<1> QED
  BY <1>1, <1>2, PTL DEF Spec

-----------------------------------------------------------------------------
(* Sleeping. *)

\* Only the end of a pass changes what the thread sleeps on, and the handles
\* only grow while plugins start.
LEMMA StepKeepsSleepers ==
  ASSUME Inv, SleepersHeld, [Next]_vars
  PROVE  SleepersHeld'
<1> USE DEF vars, parent, daemon, entries, pass, library
<1>1. \/ UNCHANGED <<main, known, handles>>
      \/ main' \notin {"open", "initialize"}
      \/ Open \/ Initialize \/ EndPass
  BY DEF Next, MainStep, ThreadStep, Tick, Initialized, RecvInit, Eof,
         RecvFinish, Finalize, Finalized, Cleanup, Join, Test, Lock, Call, Return,
         Wake, SpuriousWakeup, ReadReady, SendFinish, Reap, Die, CtrlC, Reply, Unregister
<1>2. CASE UNCHANGED <<main, known, handles>> \/ main' \notin {"open", "initialize"}
  BY <1>2 DEF SleepersHeld
<1>3. CASE Open
  BY <1>3 DEF Open, SleepersHeld
<1>4. CASE Initialize
  BY <1>4 DEF Initialize, RegisterClock, RegisterEntry, SleepersHeld
<1>5. CASE EndPass
  BY <1>5 DEF EndPass, Inv, EntriesHeld, SleepersHeld
<1> QED
  BY <1>1, <1>2, <1>3, <1>4, <1>5

\* Time brings the end of the sleep and the entries near at the same pace.
LEMMA TickWakesInTime ==
  ASSUME Inv, WakesInTime, Tick
  PROVE  WakesInTime'
<1> SUFFICES ASSUME thread' = "asleep", NEW s \in known' \intersect Range(events')
             PROVE  target' <= due'[s]
  BY DEF WakesInTime
<1>1. thread = "asleep" /\ s \in known /\ s \in Range(events) /\ ~InPass /\ s \in Samplers
  BY DEF Tick, InPass, Inv, TypeOK, daemon
<1>2. target' = Clip(target - 1) /\ due'[s] = Clip(due[s] - 1)
  BY <1>1 DEF Tick
<1>3. target <= due[s] /\ target \in Int /\ due[s] \in Int
  BY <1>1 DEF WakesInTime, Inv, TypeOK
<1> QED
  BY <1>2, <1>3, SamplingAssumption DEF Clip

\* A pass ends with the thread asleep until the first of the sorted entries.
LEMMA EndPassWakesInTime ==
  ASSUME Inv, EndPass
  PROVE  WakesInTime'
<1>1. events' \in Sortings(events, due') /\ target' = due'[events'[1]]
  BY DEF EndPass
<1>2. due' \in [Samplers -> Int]
  <2>1. \A t \in Int : Clip(t) \in Int
    BY SamplingAssumption DEF Clip
  <2>2. \A s \in Samplers : due[s] \in Int /\ due[s] - elapsed \in Int
    BY SamplingAssumption DEF Inv, TypeOK
  <2> QED
    BY <2>1, <2>2 DEF EndPass
<1>3. events \in Seq(Samplers)
  BY DEF Inv, TypeOK
<1>4. \A s \in Range(events') : due'[events'[1]] <= due'[s]
  BY <1>1, <1>2, <1>3, SortingsFirst
<1> QED
  BY <1>1, <1>4 DEF WakesInTime

\* A registration adds an entry that nobody sleeps on.
LEMMA RegisterWakesInTime ==
  ASSUME Inv, SleepersHeld, WakesInTime, main = "initialize",
         NEW s \in Mine \ handles, RegisterClock(s) \/ RegisterEntry(s)
  PROVE  WakesInTime'
<1> USE DEF pass
<1>1. s \in Samplers /\ s \notin Range(events) /\ s \notin known
  BY DEF Mine, Inv, EntriesHeld, SleepersHeld
<1>2. UNCHANGED <<known, target>> /\ (thread' = "asleep" => thread = "asleep")
  BY DEF RegisterClock, RegisterEntry, Woken
<1>3. Range(events') \subseteq Range(events) \union {s}
  <2>1. CASE RegisterClock(s)
    BY <2>1 DEF RegisterClock
  <2>2. CASE RegisterEntry(s)
    <3> DEFINE q == Append(events, s)
    <3>1. events \in Seq(Samplers) /\ Distinct(events)
      BY DEF Inv, TypeOK
    <3>2. q \in Seq(Samplers) /\ Distinct(q) /\ Range(q) = Range(events) \union {s}
      BY <1>1, <3>1, AppendFacts
    <3>3. events' \in Sortings(q, due)
      BY <2>2 DEF RegisterEntry
    <3> HIDE DEF q
    <3> QED
      BY <3>2, <3>3, SortingsFacts
  <2> QED
    BY <2>1, <2>2
<1>4. \A x \in Samplers : x # s => due'[x] = due[x]
  BY DEF RegisterClock, RegisterEntry, Inv, TypeOK
<1>5. known \subseteq Samplers
  BY DEF Inv, TypeOK
<1> QED
  BY <1>1, <1>2, <1>3, <1>4, <1>5 DEF WakesInTime

\* Every step keeps the thread's sleep short enough.
LEMMA StepWakesInTime ==
  ASSUME Inv, SleepersHeld, WakesInTime, [Next]_vars
  PROVE  WakesInTime'
<1> USE DEF vars, parent, daemon, entries, pass, library
<1>1. \/ UNCHANGED <<thread, known, events, due, target>>
      \/ thread' # "asleep"
      \/ Tick \/ EndPass \/ Initialize \/ Finalize
  BY DEF Next, MainStep, ThreadStep, Open, Initialized, RecvInit, Eof,
         RecvFinish, Finalized, Cleanup, Join, Test, Lock, Call, Return, Woken,
         Wake, SpuriousWakeup, ReadReady, SendFinish, Reap, Die, CtrlC, Reply
<1>2. CASE UNCHANGED <<thread, known, events, due, target>> \/ thread' # "asleep"
  BY <1>2 DEF WakesInTime
<1>3. CASE Initialize
  <2>1. ASSUME NEW s \in Mine \ handles, RegisterClock(s) \/ RegisterEntry(s)
        PROVE  WakesInTime'
    BY <1>3, <2>1, RegisterWakesInTime DEF Initialize
  <2>2. CASE UNCHANGED library
    BY <2>2 DEF WakesInTime
  <2> QED
    BY <1>3, <2>1, <2>2 DEF Initialize
<1>4. CASE Finalize
  <2>1. ASSUME NEW s \in Mine \intersect handles, Unregister(s)
        PROVE  WakesInTime'
    <3>1. PICK i \in 1 .. Len(events) : events[i] = s /\ events' = Erase(events, i)
      BY <2>1 DEF Unregister
    <3>2. events \in Seq(Samplers) /\ Distinct(events)
      BY DEF Inv, TypeOK
    <3>3. Range(events') \subseteq Range(events)
      BY <3>1, <3>2, EraseFacts
    <3> QED
      BY <2>1, <3>3 DEF Unregister, WakesInTime
  <2>2. CASE UNCHANGED library
    BY <2>2 DEF WakesInTime
  <2> QED
    BY <1>4, <2>1, <2>2 DEF Finalize
<1> QED
  BY <1>1, <1>2, <1>3, <1>4, TickWakesInTime, EndPassWakesInTime

-----------------------------------------------------------------------------
(* The theorems.  Each holds of daemons whose plugins all have a finalizer:  *)
(* one without is closed with its samplers registered.                       *)

\* Every variable keeps its type: no sampler is entered twice, whatever the
\* order in which samplers come, and no plugin is opened twice.
THEOREM SamplingTypeCorrect ==
  ASSUME Plugins \subseteq Finalizers
  PROVE  Spec => []TypeOK
<1>1. Inv => TypeOK
  BY DEF Inv
<1> QED
  BY <1>1, AlwaysInv, PTL

\* The sampling thread, which reads the flag without the mutex, never touches
\* the array once the library's destructor has freed it.
THEOREM ThreadSafe ==
  ASSUME Plugins \subseteq Finalizers
  PROVE  Spec => []NoUseAfterFree
<1>1. Inv => NoUseAfterFree
  BY DEF Inv, NoUseAfterFree, PassHolds, InPass
<1> QED
  BY <1>1, AlwaysInv, PTL

\* The sampling thread never calls into a plugin that dlclose has unmapped.
THEOREM PluginSafe ==
  ASSUME Plugins \subseteq Finalizers
  PROVE  Spec => []PluginLoaded
<1>1. Inv => PluginLoaded
  BY DEF Inv, TypeOK, PluginLoaded, PassHolds, InPass, CallHasEntry, EntriesHeld,
         HandlesLoaded, Range
<1> QED
  BY <1>1, AlwaysInv, PTL

\* The sampling thread never sleeps past an entry that it knew when it fell
\* asleep, though entries come and go and time passes meanwhile.
THEOREM SleepsShortEnough ==
  ASSUME Plugins \subseteq Finalizers
  PROVE  Spec => []WakesInTime
<1>1. Init => SleepersHeld /\ WakesInTime
  BY DEF Init, SleepersHeld, WakesInTime
<1>2. Inv /\ SleepersHeld /\ WakesInTime /\ [Next]_vars => SleepersHeld' /\ WakesInTime'
  BY StepKeepsSleepers, StepWakesInTime
<1> QED
  BY <1>1, <1>2, AlwaysInv, PTL DEF Spec
=============================================================================
