-------------------------- MODULE CudaTracing_proofs --------------------------
(* The pairs of events that time CUDA commands are in one place at a time,   *)
(* are reported before their context ends and under the right command, and   *)
(* the plugin knows the device of every launch, for any threads, contexts,   *)
(* streams and devices.                                                      *)
EXTENDS CudaTracing, FiniteSetTheorems, SequenceTheorems, TLAPS

-----------------------------------------------------------------------------
(* Calls, pairs and primary contexts. *)

CallRecords == [op : {"none", "launch", "create", "destroy", "retain",
                      "release", "reset", "exit"},
                at : {"none", "profile", "register", "results", "exit"},
                ctx : Contexts \union {None}, pair : Pairs \union {None}]

\* A call that ends or resets its context once the pairs are reported.
Ending(t) == call[t].op \in {"destroy", "reset"} /\ call[t].at = "results"

CallOk(t) ==
  /\ call[t].op = "none" <=> call[t] = Idle
  /\ call[t].op = "launch" => call[t].at \in {"profile", "register"} /\ call[t].pair \in Pairs
  /\ call[t].op # "launch" => call[t].at \notin {"profile", "register"} /\ call[t].pair = None
  /\ call[t].op \in {"create", "retain"} => call[t].at = "exit"
  /\ call[t].op = "destroy" => call[t].at \in {"results", "exit"}
  /\ call[t].op \in {"release", "reset", "exit"} => call[t].at = "results"
  /\ call[t].op \in {"none", "exit"} <=> call[t].ctx = None
  /\ evs[t] # {} => call[t].at = "results"

\* A call that ends a context works in it alone, but for retains.
Alone == \A t, u \in Threads :
           Ending(t) /\ call[u].ctx = call[t].ctx => u = t \/ call[u].op = "retain"

\* No pair is in two places.
PairsApart == \A t, u \in Threads :
                /\ t # u => evs[t] \intersect evs[u] = {}
                /\ t # u /\ call[t].pair = call[u].pair => call[t].pair = None
                /\ call[t].pair \notin evs[u]

\* The driver's count of retains and the tracer's.
IsPrimaryOf(d, c) == primary[d].refs > 0 /\ primary[d].ctx = c
Working(d) == {t \in Threads : /\ call[t].op \in {"retain", "release"}
                               /\ call[t].ctx = primary[d].ctx}

Counts ==
  \A d \in Devices :
    /\ primary[d].refs = held[d] + Cardinality(Working(d))
    /\ primary[d].refs = 0 => primary[d].ctx = None
    /\ primary[d].refs > 0 => primary[d].ctx \in Contexts /\ device[primary[d].ctx] = d
    /\ primaries[d].refs = held[d]
    /\ held[d] > 0 => primaries[d].ctx = primary[d].ctx

PrimaryCalls ==
  \A t \in Threads :
    /\ call[t].op \in {"retain", "release", "reset"} =>
         \E d \in Devices : IsPrimaryOf(d, call[t].ctx)
    /\ call[t].op = "create" \/ (call[t].op = "destroy" /\ call[t].at = "results") =>
         /\ device[call[t].ctx] # None
         /\ \A d \in Devices : ~IsPrimaryOf(d, call[t].ctx)

CallInv == /\ TypeOK
           /\ \A t \in Threads : CallOk(t)
           /\ Alone /\ PairsApart /\ Counts /\ PrimaryCalls

-----------------------------------------------------------------------------
(* Pairs and their contexts. *)

\* The program has the context and no call is about to end it.
InUse(c) == /\ c \in Contexts /\ device[c] # None
            /\ \A d \in Devices : IsPrimaryOf(d, c) => held[d] > 0
            /\ \A t \in Threads : Ending(t) => call[t].ctx # c

PairsInUse ==
  /\ \A p \in events : InUse(owner[p]) /\ device[owner[p]] = launched[p].dev
  /\ \A t \in Threads : call[t].op = "launch" =>
       InUse(call[t].ctx) /\ device[call[t].ctx] = launched[call[t].pair].dev

-----------------------------------------------------------------------------
(* Pairs and their commands. *)

PairsNamed ==
  /\ \A t \in Threads : /\ call[t].at = "profile" => profiled[t] = launched[call[t].pair].cmd
                        /\ call[t].at = "register" =>
                             timed[call[t].pair] = launched[call[t].pair].cmd
  /\ NamesFaithful

-----------------------------------------------------------------------------
(* What the plugin knows. *)

StackOk(t) ==
  LET c == call[t].ctx
      q == ctxStack[t] IN
  stack[t] = IF call[t].op = "create" THEN Append(q, c)
             ELSE IF call[t].op = "destroy" /\ call[t].at = "exit"
             THEN IF Top(q) = c THEN Front(q) ELSE q
             ELSE q

Known(c) == /\ device[c] # None
            /\ \A t \in Threads : call[t].ctx = c => call[t].op # "create"
            /\ \A d \in Devices : IsPrimaryOf(d, c) => held[d] > 0

ManagerInv ==
  /\ \A t \in Threads : StackOk(t)
  /\ \A s \in Streams : streamCtx[s] # None => streamToCtx[s] = streamCtx[s]
  /\ \A c \in Contexts : Known(c) => ctxDevice[c] = device[c]
  /\ \A t \in Threads : call[t].op = "destroy" /\ call[t].at = "exit" =>
       device[call[t].ctx] = None
  /\ \A t \in Threads : call[t].op = "launch" => launched[call[t].pair].cmd.name \in Names
  /\ LaunchedOnDevice

-----------------------------------------------------------------------------
(* Types. *)

\* Stacks stay stacks of contexts, whatever is pushed or popped.
LEMMA StackTypes ==
  ASSUME NEW q \in Seq(Contexts)
  PROVE  /\ Front(q) \in Seq(Contexts)
         /\ \A c \in Contexts : Append(q, c) \in Seq(Contexts)
         /\ \A c \in Contexts \union {None} :
              (IF q = <<>> THEN q ELSE Front(q)) \o (IF c = None THEN <<>> ELSE <<c>>)
                \in Seq(Contexts)
         /\ Top(q) \in Contexts \union {None}
         /\ q # <<>> => Top(q) \in Contexts
<1>1. Len(q) \in Nat /\ \A i \in 1 .. Len(q) : q[i] \in Contexts
  OBVIOUS
<1>2. Front(q) \in Seq(Contexts)
  <2>1. CASE q = <<>>
    BY <2>1 DEF Front
  <2>2. CASE q # <<>>
    BY <1>1, <2>2 DEF Front
  <2> QED
    BY <2>1, <2>2
<1>3. q # <<>> => Top(q) \in Contexts
  BY <1>1 DEF Top, Last
<1>4. \A c \in Contexts \union {None} :
        (IF q = <<>> THEN q ELSE Front(q)) \o (IF c = None THEN <<>> ELSE <<c>>)
          \in Seq(Contexts)
  BY <1>2
<1> QED
  BY <1>2, <1>3, <1>4 DEF Top

\* What a call is after it has begun or moved on.
LEMMA CallTypes ==
  ASSUME CallInv
  PROVE  /\ call \in [Threads -> CallRecords]
         /\ Idle \in CallRecords
         /\ \A t \in Threads : Ready(t) => /\ evs[t] = {} /\ ~ended
                                           /\ call[t].op = "none" /\ call[t].at = "none"
                                           /\ call[t].ctx = None /\ call[t].pair = None
         /\ \A c : Usable(c) => c \in Contexts /\ c # None /\ device[c] \in Devices
<1>1. call \in [Threads -> CallRecords] /\ Idle \in CallRecords
  BY DEF CallInv, TypeOK, CallRecords, Idle
<1>2. \A t \in Threads : Ready(t) => evs[t] = {}
  BY DEF CallInv, CallOk, Ready, Idle
<1>3. \A c : Usable(c) => c \in Contexts /\ c # None /\ device[c] \in Devices
  BY CudaAssumption DEF CallInv, TypeOK, Usable
<1> QED
  BY <1>1, <1>2, <1>3 DEF Ready, Idle

\* Pairs that are collected leave the list for the thread.
LEMMA CollectFacts ==
  ASSUME CallInv, NEW t \in Threads, evs[t] = {}, NEW c,
         Collect(t, c) \/ UNCHANGED <<events, evs>>
  PROVE  /\ evs' \in [Threads -> SUBSET Pairs]
         /\ \A u \in Threads : u # t => evs'[u] = evs[u]
         /\ evs'[t] \subseteq events /\ events' = events \ evs'[t]
         /\ Collect(t, c) => evs'[t] = {p \in events : owner[p] = c}
         /\ \A p \in events' : \A u \in Threads : p \notin evs'[u]
<1> USE DEF CallInv
<1>1. /\ events \subseteq Pairs /\ evs \in [Threads -> SUBSET Pairs]
      /\ \A p \in events : \A u \in Threads : p \notin evs[u]
  BY DEF TypeOK
<1>2. CASE Collect(t, c)
  <2>1. evs' = [evs EXCEPT ![t] = {p \in events : owner[p] = c}]
        /\ events' = events \ {p \in events : owner[p] = c}
    BY <1>2 DEF Collect
  <2> QED
    BY <1>1, <2>1
<1>3. CASE UNCHANGED <<events, evs>> /\ ~Collect(t, c)
  BY <1>1, <1>3
<1> QED
  BY <1>2, <1>3

\* Commands keep the types.
LEMMA CommandTypes ==
  ASSUME CallInv, NEW t \in Threads, CommandStep(t)
  PROVE  TypeOK'
<1> USE DEF CallInv
<1>1. ASSUME NEW n \in Names, NEW s \in Streams \union Implicit \union {None}, Launch(t, n, s)
      PROVE  TypeOK'
  <2>a. PICK c \in Contexts, k \in 1 .. MaxLaunches, cmd \in Commands :
          /\ c = Target(t, s) /\ k = launches + 1 /\ cmd = [name |-> n, ts |-> k]
          /\ device[c] \in Devices
    <3>1. /\ Target(t, s) \in Contexts /\ device[Target(t, s)] \in Devices
      BY <1>1, CallTypes DEF Launch
    <3>2. launches + 1 \in 1 .. MaxLaunches
      BY <1>1, CudaAssumption DEF Launch, TypeOK
    <3>3. [name |-> n, ts |-> launches + 1] \in Commands
      BY <3>2, CudaAssumption DEF Commands
    <3> QED
      BY <3>1, <3>2, <3>3
  <2>1. launches' = k /\ TaskEntry(t, cmd, s)
    BY <1>1, <2>a DEF Launch
  <2>2. profiled' \in [Threads -> Commands]
    BY <2>1 DEF TaskEntry, TypeOK, tasks
  <2>3. nameDevice' \in [Threads -> [Names -> Devices \union {None}]]
    <3>1. ctxStack[t] \in Seq(Contexts) /\ Top(ctxStack[t]) \in Contexts \union {None}
      BY StackTypes DEF TypeOK
    <3>2. GetStreamDevice(t, s) \in Devices \union {None}
      BY <3>1 DEF GetStreamDevice, DeviceOf, TypeOK
    <3>3. PICK d \in Devices \union {None} : d = GetStreamDevice(t, s)
      BY <3>2
    <3>4. cmd.name = n
      BY <2>a
    <3>5. nameDevice' = nameDevice \/ nameDevice' = [nameDevice EXCEPT ![t][n] = d]
      BY <2>1, <3>3, <3>4 DEF TaskEntry, tasks
    <3>6. [nameDevice[t] EXCEPT ![n] = d] \in [Names -> Devices \union {None}]
      BY DEF TypeOK
    <3>7. nameDevice' = nameDevice \/ nameDevice' = [nameDevice EXCEPT ![t] = [@ EXCEPT ![n] = d]]
      BY <3>5
    <3> QED
      BY <3>6, <3>7 DEF TypeOK
  <2>4. CASE UNCHANGED <<call, launched>>
    BY <1>1, <2>1, <2>2, <2>3, <2>4 DEF Launch, TypeOK, driver, tracer, manager
  <2>5. ASSUME NEW p \in FreePairs,
               call' = [call EXCEPT ![t] = [op |-> "launch", at |-> "profile", ctx |-> c,
                                            pair |-> p]],
               launched' = [launched EXCEPT ![p] =
                 [cmd |-> cmd, dev |-> device[c], implicit |-> s \in Implicit]]
        PROVE  TypeOK'
    <3>1. /\ call' \in [Threads -> CallRecords]
          /\ \A u \in Threads : call'[u].pair = IF u = t THEN p ELSE call[u].pair
      BY <2>5, CallTypes DEF CallRecords, FreePairs
    <3>2. p \in Pairs /\ p \notin events
      BY DEF FreePairs
    <3>2a. [cmd |-> cmd, dev |-> device[c], implicit |-> s \in Implicit] \in Launches
      <4>1. (s \in Implicit) \in BOOLEAN
        OBVIOUS
      <4> QED
        BY <2>a, <4>1 DEF Launches
    <3>3. launched' \in [Pairs -> Launches]
      BY <2>5, <3>2, <3>2a DEF TypeOK
    <3>4. UNCHANGED <<driver, held, ended, tracer, manager, timed>>
      BY <1>1 DEF Launch
    <3>5. \A x \in events' : \A u \in Threads : x \notin evs'[u] /\ call'[u].pair # x
      <4>1. \A x \in events : \A u \in Threads : x \notin evs[u] /\ call[u].pair # x
        BY DEF TypeOK
      <4>2. events' = events /\ evs' = evs
        BY <3>4 DEF tracer
      <4>3. \A x \in events : x # p
        BY <3>2
      <4> QED
        BY ONLY <3>1, <4>1, <4>2, <4>3
    <3>6. launches' \in 0 .. MaxLaunches
      BY <2>1, CudaAssumption
    <3> QED
      BY <2>2, <2>3, <3>1, <3>3, <3>4, <3>5, <3>6 DEF TypeOK, driver, tracer, manager, CallRecords
  <2> QED
    BY <1>1, <2>a, <2>4, <2>5 DEF Launch
<1>2. CASE Profile(t)
  <2>1. call[t].pair \in Pairs
    BY <1>2 DEF Profile, CallOk
  <2>2. /\ call' \in [Threads -> CallRecords]
        /\ \A u \in Threads : call'[u].pair = call[u].pair
    BY <1>2, CallTypes DEF Profile, CallRecords
  <2>3. timed' \in [Pairs -> Commands]
    BY <1>2, <2>1 DEF Profile, TypeOK
  <2> QED
    BY <1>2, <2>2, <2>3 DEF Profile, TypeOK, driver, program, tracer, manager, tasks, CallRecords
<1>3. CASE Register(t)
  <2>1. call[t].pair \in Pairs /\ call[t].pair # None
    BY <1>3, CudaAssumption DEF Register, CallOk
  <2>2. /\ call' \in [Threads -> CallRecords]
        /\ \A u \in Threads : call'[u].pair = IF u = t THEN None ELSE call[u].pair
    BY <1>3, CallTypes DEF Register, Idle
  <2>3. owner' \in [Pairs -> Contexts \union {None}]
    BY <1>3, CallTypes DEF Register, CallRecords, TypeOK
  <2>4. \A p \in events' : \A u \in Threads : p \notin evs'[u] /\ call'[u].pair # p
    BY <1>3, <2>1, <2>2, CudaAssumption DEF Register, TypeOK, PairsApart
  <2> QED
    BY <1>3, <2>1, <2>2, <2>3, <2>4 DEF Register, TypeOK, driver, program, manager, tasks,
                                        CallRecords
<1> QED
  BY <1>1, <1>2, <1>3 DEF CommandStep

\* So does the end of contexts.
LEMMA ContextTypes ==
  ASSUME CallInv, NEW t \in Threads, ContextStep(t)
  PROVE  TypeOK'
<1> USE DEF CallInv
<1>1. ASSUME NEW d \in Created, CtxCreate(t, d) PROVE TypeOK'
  <2>1. PICK c \in Contexts :
          /\ device' = [device EXCEPT ![c] = d]
          /\ stack' = [stack EXCEPT ![t] = Append(@, c)]
          /\ call' = [call EXCEPT ![t] = [Idle EXCEPT !.op = "create", !.at = "exit", !.ctx = c]]
    BY <1>1 DEF CtxCreate
  <2>2. device' \in [Contexts -> Devices \union {None}]
    BY <2>1, CudaAssumption DEF TypeOK
  <2>3. stack' \in [Threads -> Seq(Contexts)]
    BY <2>1 DEF TypeOK
  <2>4. /\ call' \in [Threads -> CallRecords]
        /\ \A u \in Threads : call'[u].pair = IF u = t THEN None ELSE call[u].pair
    BY <2>1, CallTypes DEF Idle, CallRecords
  <2>5. \A p \in events : p # None
    BY CudaAssumption DEF TypeOK
  <2> QED
    BY <1>1, <2>2, <2>3, <2>4, <2>5 DEF CtxCreate, TypeOK, program, tracer, manager, tasks,
                                        CallRecords
<1>2. ASSUME NEW c \in Contexts, CtxDestroy(t, c) PROVE TypeOK'
  <2>1. /\ call' \in [Threads -> CallRecords]
        /\ \A u \in Threads : call'[u].pair = IF u = t THEN None ELSE call[u].pair
    BY <1>2, CallTypes DEF CtxDestroy, Begin, Idle, CallRecords
  <2>2. /\ events' \subseteq Pairs /\ evs' \in [Threads -> SUBSET Pairs]
        /\ events' \subseteq events
        /\ \A p \in events' : \A u \in Threads : p \notin evs'[u]
    <3>1. events \subseteq Pairs /\ evs[t] = {} /\ Collect(t, c)
      BY <1>2, CallTypes DEF CtxDestroy, TypeOK
    <3>2. /\ evs' \in [Threads -> SUBSET Pairs] /\ events' = events \ evs'[t]
          /\ \A p \in events' : \A u \in Threads : p \notin evs'[u]
      BY <3>1, CollectFacts
    <3> QED
      BY <3>1, <3>2
  <2>3. \A p \in events : p # None /\ \A u \in Threads : call[u].pair # p
    BY CudaAssumption DEF TypeOK
  <2>4. \A p \in events' : \A u \in Threads : p \notin evs'[u] /\ call'[u].pair # p
    BY <2>1, <2>2, <2>3
  <2>5. UNCHANGED <<driver, program, owner, primaries, manager, tasks, timed, launched>>
    BY <1>2 DEF CtxDestroy
  <2> QED
    BY <2>1, <2>2, <2>4, <2>5 DEF TypeOK, driver, program, manager, tasks, CallRecords
<1>3. CASE CtxCreateExit(t)
  <2>1. call[t].ctx \in Contexts
    BY <1>3, CallTypes DEF CtxCreateExit, CallOk, CallRecords
  <2>2. /\ call' \in [Threads -> CallRecords]
        /\ \A u \in Threads : call'[u].pair = IF u = t THEN None ELSE call[u].pair
    BY <1>3, CallTypes DEF CtxCreateExit, Idle, CallRecords
  <2>3. ctxDevice' \in [Contexts -> Devices \union {None}]
    BY <1>3, <2>1 DEF CtxCreateExit, TypeOK
  <2>4. ctxStack' \in [Threads -> Seq(Contexts)]
    BY <1>3, <2>1 DEF CtxCreateExit, TypeOK
  <2>5. \A p \in events : p # None
    BY CudaAssumption DEF TypeOK
  <2> QED
    BY <1>3, <2>2, <2>3, <2>4, <2>5 DEF CtxCreateExit, TypeOK, driver, program, tracer, tasks,
                                        CallRecords
<1>4. CASE CtxDestroyDriver(t)
  <2>1. call[t].ctx \in Contexts
    BY <1>4, CallTypes DEF CtxDestroyDriver, Reported, CallOk, CallRecords
  <2>2. /\ call' \in [Threads -> CallRecords]
        /\ \A u \in Threads : call'[u].pair \in {None, call[u].pair}
    <3>1. \A u \in Threads : call[u] \in CallRecords
      BY CallTypes
    <3>2. call' = [call EXCEPT ![t].at = "exit"] \/ call' = [call EXCEPT ![t] = Idle]
      BY <1>4 DEF CtxDestroyDriver
    <3>3. /\ Idle \in CallRecords /\ Idle.pair = None
          /\ [call[t] EXCEPT !.at = "exit"] \in CallRecords
          /\ [call[t] EXCEPT !.at = "exit"].pair = call[t].pair
      BY <3>1, CallTypes DEF Idle, CallRecords
    <3> QED
      BY <3>1, <3>2, <3>3, CallTypes
  <2>3. /\ device' \in [Contexts -> Devices \union {None}]
        /\ streamCtx' \in [Streams -> Contexts \union {None}]
    <3>1. UNCHANGED <<device, streamCtx>> \/ Destroyed(call[t].ctx)
      BY <1>4 DEF CtxDestroyDriver
    <3> QED
      BY <2>1, <3>1 DEF Destroyed, TypeOK
  <2>4. stack' \in [Threads -> Seq(Contexts)]
    <3>1. stack[t] \in Seq(Contexts) /\ Front(stack[t]) \in Seq(Contexts)
      BY StackTypes DEF TypeOK
    <3> QED
      BY <1>4, <3>1 DEF CtxDestroyDriver, TypeOK
  <2>5. \A p \in events : p # None
    BY CudaAssumption DEF TypeOK
  <2> QED
    BY <1>4, <2>2, <2>3, <2>4, <2>5 DEF CtxDestroyDriver, TypeOK, program, tracer, manager, tasks,
                                        CallRecords
<1>5. CASE CtxDestroyExit(t)
  <2>1. /\ call' \in [Threads -> CallRecords]
        /\ \A u \in Threads : call'[u].pair \in {None, call[u].pair}
    BY <1>5, CallTypes DEF CtxDestroyExit, Idle, CallRecords
  <2>2. ctxDevice' \in [Contexts -> Devices \union {None}]
    BY <1>5 DEF CtxDestroyExit, TypeOK
  <2>3. ctxStack' \in [Threads -> Seq(Contexts)]
    <3>1. ctxStack[t] \in Seq(Contexts) /\ Front(ctxStack[t]) \in Seq(Contexts)
      BY StackTypes DEF TypeOK
    <3> QED
      BY <1>5, <3>1 DEF CtxDestroyExit, TypeOK
  <2>4. \A p \in events : p # None
    BY CudaAssumption DEF TypeOK
  <2> QED
    BY <1>5, <2>1, <2>2, <2>3, <2>4 DEF CtxDestroyExit, TypeOK, driver, program, tracer, tasks,
                                        CallRecords
<1> QED
  BY <1>1, <1>2, <1>3, <1>4, <1>5 DEF ContextStep

\* A retain or a release that is not over counts in the driver, and not yet,
\* or no more, in the tracer.
LEMMA WorkingFacts ==
  ASSUME CallInv, NEW t \in Threads, call[t].op \in {"retain", "release"}
  PROVE  LET c == call[t].ctx
             d == device[c]
         IN /\ c \in Contexts /\ d \in Devices /\ c # None /\ IsPrimaryOf(d, c)
            /\ held[d] \in Nat /\ held[d] < primary[d].refs
            /\ primary[d].refs \in Nat /\ primary[d].refs <= MaxRefs
            /\ t \in Working(d)
            /\ primary[d].refs = 1 => Working(d) = {t} /\ held[d] = 0
<1> DEFINE c == call[t].ctx
<1>1. PICK d \in Devices : IsPrimaryOf(d, c)
  BY DEF CallInv, PrimaryCalls
<1>2. c \in Contexts /\ device[c] = d
  BY <1>1 DEF CallInv, Counts, IsPrimaryOf
<1>3. t \in Working(d)
  BY <1>1 DEF Working, IsPrimaryOf
<1>4. IsFiniteSet(Working(d)) /\ Cardinality(Working(d)) \in Nat
  BY FS_Subset, FS_CardinalityType, CudaAssumption DEF Working
<1>5. Cardinality(Working(d)) # 0
  BY <1>3, <1>4, FS_EmptySet
<1>6. /\ primary[d].refs = held[d] + Cardinality(Working(d))
      /\ primary[d].refs \in Nat /\ primary[d].refs <= MaxRefs
      /\ held[d] \in Nat
  BY CudaAssumption DEF CallInv, Counts, TypeOK, Counted
<1>7. ASSUME primary[d].refs = 1 PROVE Working(d) = {t} /\ held[d] = 0
  <2>1. Cardinality(Working(d)) = 1 /\ held[d] = 0
    BY <1>4, <1>5, <1>6, <1>7
  <2>2. PICK x : Working(d) = {x}
    BY <1>4, <2>1, FS_Singleton
  <2> QED
    BY <1>3, <2>1, <2>2
<1>8. c # None
  BY <1>2, CudaAssumption
<1>9. held[d] < primary[d].refs
  BY <1>4, <1>5, <1>6
<1> QED
  BY <1>1, <1>2, <1>3, <1>6, <1>7, <1>8, <1>9

\* So do the retains of primary contexts, which are counted within bounds.
LEMMA PrimaryTypes ==
  ASSUME CallInv, NEW t \in Threads, PrimaryStep(t)
  PROVE  TypeOK'
<1> USE DEF CallInv
<1>a. \A p \in events : p # None /\ \A u \in Threads : call[u].pair # p /\ p \notin evs[u]
  BY CudaAssumption DEF TypeOK
<1>b. /\ primary \in [Devices -> Counted] /\ primaries \in [Devices -> Counted]
      /\ \A d \in Devices : primaries[d].refs = held[d]
      /\ NoPrimary \in Counted
  BY CudaAssumption DEF TypeOK, Counts, NoPrimary, Counted
<1>1. ASSUME NEW d \in Retained, PrimaryRetain(t, d) PROVE TypeOK'
  <2>1. PICK c \in Contexts :
       /\ \/ /\ primary[d].refs > 0 /\ c = primary[d].ctx
             /\ primary' = [primary EXCEPT ![d].refs = @ + 1]
             /\ UNCHANGED device
          \/ /\ primary[d].refs = 0 /\ Fresh(c)
             /\ primary' = [primary EXCEPT ![d] = [ctx |-> c, refs |-> 1]]
             /\ device' = [device EXCEPT ![c] = d]
       /\ call' = [call EXCEPT ![t] = [Idle EXCEPT !.op = "retain", !.at = "exit", !.ctx = c]]
    BY <1>1 DEF PrimaryRetain
  <2>2. primary[d].refs + 1 \in 0 .. MaxRefs /\ d \in Devices /\ 1 \in 0 .. MaxRefs
    BY <1>1, <1>b, CudaAssumption DEF PrimaryRetain, Counted
  <2>3. [primary[d] EXCEPT !.refs = @ + 1] \in Counted /\ [ctx |-> c, refs |-> 1] \in Counted
    BY <1>b, <2>2 DEF Counted
  <2>4. primary' \in [Devices -> Counted]
    BY <1>b, <2>1, <2>3
  <2>5. device' \in [Contexts -> Devices \union {None}]
    BY <2>1, <2>2 DEF TypeOK
  <2>6. /\ call' \in [Threads -> CallRecords]
        /\ \A u \in Threads : call'[u].pair = IF u = t THEN None ELSE call[u].pair
    BY <2>1, CallTypes DEF Idle, CallRecords
  <2>7. UNCHANGED <<stack, streamCtx, program, tracer, manager, tasks, timed, launched>>
    BY <1>1 DEF PrimaryRetain
  <2> QED
    BY <1>a, <2>4, <2>5, <2>6, <2>7 DEF TypeOK, program, tracer, manager, tasks, CallRecords
<1>2. ASSUME NEW d \in Retained, PrimaryRelease(t, d) PROVE TypeOK'
  <2>1. d \in Devices /\ held[d] > 0
    BY <1>2, CudaAssumption DEF PrimaryRelease
  <2>2. held' \in [Devices -> 0 .. MaxRefs]
    BY <1>2, <2>1, CudaAssumption DEF PrimaryRelease, TypeOK
  <2>3. primaries' \in [Devices -> Counted]
    <3>1. primaries[d].refs # 0 => [primaries[d] EXCEPT !.refs = @ - 1] \in Counted
      BY <1>b, <2>1, CudaAssumption DEF Counted
    <3>2. primaries[d].refs # 0
      BY <1>b, <2>1
    <3> QED
      BY <1>2, <1>b, <2>1, <3>1, <3>2 DEF PrimaryRelease
  <2>4. /\ events' \subseteq Pairs /\ evs' \in [Threads -> SUBSET Pairs]
        /\ events' \subseteq events
        /\ \A p \in events' : \A u \in Threads : p \notin evs'[u]
    <3>1. PICK x : Collect(t, x) \/ UNCHANGED <<events, evs>>
      BY <1>2 DEF PrimaryRelease
    <3>2. evs[t] = {} /\ events \subseteq Pairs
      BY <1>2, CallTypes DEF PrimaryRelease, TypeOK
    <3> QED
      BY <3>1, <3>2, CollectFacts
  <2>5. primary[d].ctx \in Contexts
    BY <1>2, CallTypes DEF PrimaryRelease
  <2>6. /\ call' \in [Threads -> CallRecords]
        /\ \A u \in Threads : call'[u].pair = IF u = t THEN None ELSE call[u].pair
    BY <1>2, <2>5, CallTypes DEF PrimaryRelease, Begin, Idle, CallRecords
  <2>7. UNCHANGED <<driver, launches, ended, owner, manager, tasks, timed, launched>>
    BY <1>2 DEF PrimaryRelease
  <2>8. \A p \in events' : \A u \in Threads : p \notin evs'[u] /\ call'[u].pair # p
    BY <1>a, <2>4, <2>6
  <2> QED
    BY <2>2, <2>3, <2>4, <2>6, <2>7, <2>8 DEF TypeOK, driver, manager, tasks, CallRecords
<1>3. ASSUME NEW d \in Retained, PrimaryReset(t, d) PROVE TypeOK'
  <2>1. /\ events' \subseteq Pairs /\ evs' \in [Threads -> SUBSET Pairs]
        /\ events' \subseteq events
        /\ \A p \in events' : \A u \in Threads : p \notin evs'[u]
    <3>1. PICK x : Collect(t, x) \/ UNCHANGED <<events, evs>>
      BY <1>3 DEF PrimaryReset
    <3>2. evs[t] = {} /\ events \subseteq Pairs
      BY <1>3, CallTypes DEF PrimaryReset, TypeOK
    <3> QED
      BY <3>1, <3>2, CollectFacts
  <2>2. primary[d].ctx \in Contexts
    BY <1>3, CallTypes DEF PrimaryReset
  <2>3. /\ call' \in [Threads -> CallRecords]
        /\ \A u \in Threads : call'[u].pair = IF u = t THEN None ELSE call[u].pair
    BY <1>3, <2>2, CallTypes DEF PrimaryReset, Begin, Idle, CallRecords
  <2>4. UNCHANGED <<driver, program, owner, primaries, manager, tasks, timed, launched>>
    BY <1>3 DEF PrimaryReset
  <2>5. \A p \in events' : \A u \in Threads : p \notin evs'[u] /\ call'[u].pair # p
    BY <1>a, <2>1, <2>3
  <2> QED
    BY <2>1, <2>3, <2>4, <2>5 DEF TypeOK, driver, program, manager, tasks, CallRecords
<1>4. CASE PrimaryRetainExit(t)
  <2>k. PICK c \in Contexts, d \in Devices : c = call[t].ctx /\ d = device[c]
    BY <1>4, WorkingFacts DEF PrimaryRetainExit
  <2>1. held[d] \in Nat /\ held[d] + 1 \in 0 .. MaxRefs /\ 1 \in 1 .. MaxRefs
    BY <1>4, <2>k, WorkingFacts, CudaAssumption DEF PrimaryRetainExit
  <2>2. held' \in [Devices -> 0 .. MaxRefs]
    BY <1>4, <2>k, <2>1 DEF PrimaryRetainExit, TypeOK
  <2>4. primaries' \in [Devices -> Counted]
    <3>1. Retain(d, c)
      BY <1>4, <2>k DEF PrimaryRetainExit
    <3>2. PICK n \in 1 .. MaxRefs : primaries' = [primaries EXCEPT ![d] = [ctx |-> c, refs |-> n]]
      <4> DEFINE x == primaries[d]
                 y == IF x.refs > 0 /\ x.ctx = c THEN x.refs + 1 ELSE 1
      <4>1. x.refs = held[d]
        BY <1>b
      <4>2. y \in 1 .. MaxRefs
        BY <2>1, <4>1, CudaAssumption
      <4>3. primaries' = [primaries EXCEPT ![d] = [ctx |-> c, refs |-> y]]
        BY <3>1 DEF Retain
      <4> HIDE DEF y
      <4> QED
        BY <4>2, <4>3
    <3>3. [ctx |-> c, refs |-> n] \in Counted
      BY DEF Counted
    <3> QED
      BY <1>b, <3>2, <3>3
  <2>5. ctxDevice' \in [Contexts -> Devices \union {None}]
    BY <1>4, <2>k DEF PrimaryRetainExit, TypeOK
  <2>6. /\ call' \in [Threads -> CallRecords]
        /\ \A u \in Threads : call'[u].pair = IF u = t THEN None ELSE call[u].pair
    BY <1>4, CallTypes DEF PrimaryRetainExit, Idle
  <2>7. UNCHANGED <<driver, launches, ended, events, evs, owner, ctxStack, streamToCtx,
                    tasks, timed, launched>>
    BY <1>4 DEF PrimaryRetainExit
  <2> QED
    BY <1>a, <2>2, <2>4, <2>5, <2>6, <2>7 DEF TypeOK, driver, tasks, CallRecords
<1>5. CASE PrimaryReleaseDriver(t)
  <2>k. PICK c \in Contexts, d \in Devices : c = call[t].ctx /\ d = device[c]
    BY <1>5, WorkingFacts DEF PrimaryReleaseDriver, Reported
  <2>1. primary[d].refs > 0
    BY <1>5, <2>k, WorkingFacts DEF PrimaryReleaseDriver, Reported
  <2>2. [primary[d] EXCEPT !.refs = @ - 1] \in Counted
    BY <1>b, <2>1, CudaAssumption DEF Counted
  <2>3. primary' \in [Devices -> Counted]
    BY <1>5, <1>b, <2>k, <2>2 DEF PrimaryReleaseDriver
  <2>4. /\ device' \in [Contexts -> Devices \union {None}]
        /\ streamCtx' \in [Streams -> Contexts \union {None}]
    <3>1. Destroyed(c) \/ UNCHANGED <<device, streamCtx>>
      BY <1>5, <2>k DEF PrimaryReleaseDriver
    <3> QED
      BY <3>1 DEF Destroyed, TypeOK
  <2>5. /\ call' \in [Threads -> CallRecords]
        /\ \A u \in Threads : call'[u].pair = IF u = t THEN None ELSE call[u].pair
    BY <1>5, CallTypes DEF PrimaryReleaseDriver, Idle
  <2>6. UNCHANGED <<stack, program, tracer, manager, tasks, timed, launched>>
    BY <1>5 DEF PrimaryReleaseDriver
  <2> QED
    BY <1>a, <2>3, <2>4, <2>5, <2>6 DEF TypeOK, program, tracer, manager, tasks, CallRecords
<1>6. CASE PrimaryResetDriver(t)
  <2>1. streamCtx' \in [Streams -> Contexts \union {None}]
    BY <1>6 DEF PrimaryResetDriver, TypeOK
  <2>2. /\ call' \in [Threads -> CallRecords]
        /\ \A u \in Threads : call'[u].pair = IF u = t THEN None ELSE call[u].pair
    BY <1>6, CallTypes DEF PrimaryResetDriver, Idle
  <2>3. UNCHANGED <<device, stack, primary, program, tracer, manager, tasks, timed, launched>>
    BY <1>6 DEF PrimaryResetDriver
  <2> QED
    BY <1>a, <2>1, <2>2, <2>3 DEF TypeOK, program, tracer, manager, tasks, CallRecords
<1> QED
  BY <1>1, <1>2, <1>3, <1>4, <1>5, <1>6 DEF PrimaryStep

\* So do stacks and streams.
LEMMA StackStepTypes ==
  ASSUME CallInv, NEW t \in Threads, StackStep(t)
  PROVE  TypeOK'
<1> USE DEF CallInv
<1>1. /\ stack[t] \in Seq(Contexts) /\ ctxStack[t] \in Seq(Contexts)
  BY DEF TypeOK
<1>2. ASSUME NEW c \in Contexts \union {None}, CtxSetCurrent(t, c) PROVE TypeOK'
  <2>1. stack' \in [Threads -> Seq(Contexts)] /\ ctxStack' \in [Threads -> Seq(Contexts)]
    BY <1>1, <1>2, StackTypes DEF CtxSetCurrent, TypeOK
  <2> QED
    BY <1>2, <2>1 DEF CtxSetCurrent, TypeOK, program, tracer, tasks
<1>3. ASSUME NEW c \in Contexts, CtxPushCurrent(t, c) PROVE TypeOK'
  <2>1. stack' \in [Threads -> Seq(Contexts)] /\ ctxStack' \in [Threads -> Seq(Contexts)]
    BY <1>1, <1>3, StackTypes DEF CtxPushCurrent, TypeOK
  <2> QED
    BY <1>3, <2>1 DEF CtxPushCurrent, TypeOK, program, tracer, tasks
<1>4. CASE CtxPopCurrent(t)
  <2>1. stack' \in [Threads -> Seq(Contexts)] /\ ctxStack' \in [Threads -> Seq(Contexts)]
    BY <1>1, <1>4, StackTypes DEF CtxPopCurrent, TypeOK
  <2> QED
    BY <1>4, <2>1 DEF CtxPopCurrent, TypeOK, program, tracer, tasks
<1>5. ASSUME NEW s \in Streams, StreamCreate(t, s) PROVE TypeOK'
  <2>1. /\ streamCtx' \in [Streams -> Contexts \union {None}]
        /\ streamToCtx' \in [Streams \union Implicit -> Contexts \union {None}]
    BY <1>1, <1>5, StackTypes DEF StreamCreate, TypeOK
  <2> QED
    BY <1>5, <2>1 DEF StreamCreate, TypeOK, program, tracer, tasks
<1> QED
  BY <1>2, <1>3, <1>4, <1>5 DEF StackStep

\* So do results, and the exit.
LEMMA ResultTypes ==
  ASSUME CallInv, NEW t \in Threads, Result(t) \/ Exit(t)
  PROVE  TypeOK'
<1> USE DEF CallInv
<1>a. \A p \in events : p # None /\ \A u \in Threads : call[u].pair # p /\ p \notin evs[u]
  BY CudaAssumption DEF TypeOK
<1>1. CASE Result(t)
  <2>1. PICK p \in evs[t] :
       /\ evs' = [evs EXCEPT ![t] = @ \ {p}]
       /\ owner' = [owner EXCEPT ![p] = None]
       /\ launched' = [launched EXCEPT ![p] = NoLaunch]
    BY <1>1 DEF Result
  <2>2. p \in Pairs
    BY DEF TypeOK
  <2>3. NoCommand \in Commands
    BY CudaAssumption DEF NoCommand, Commands
  <2>9. NoLaunch \in Launches
    BY <2>3 DEF NoLaunch, Launches
  <2>4. launched' \in [Pairs -> Launches]
    BY <2>1, <2>2, <2>9 DEF TypeOK
  <2>5. owner' \in [Pairs -> Contexts \union {None}]
    BY <2>1, <2>2 DEF TypeOK
  <2>6. evs' \in [Threads -> SUBSET Pairs] /\ \A u \in Threads : evs'[u] \subseteq evs[u]
    BY <2>1 DEF TypeOK
  <2>7. UNCHANGED <<driver, program, call, events, primaries, manager, tasks, timed>>
    BY <1>1 DEF Result
  <2> QED
    BY <1>a, <2>4, <2>5, <2>6, <2>7 DEF TypeOK, driver, program, manager, tasks
<1>2. CASE Exit(t)
  <2>1. /\ call' \in [Threads -> CallRecords]
        /\ \A u \in Threads : call'[u].pair = IF u = t THEN None ELSE call[u].pair
    BY <1>2, CallTypes DEF Exit, Begin, Idle, CallRecords
  <2>2. evs' \in [Threads -> SUBSET Pairs] /\ events' = {} /\ ended' \in BOOLEAN
    BY <1>2 DEF Exit, TypeOK
  <2>3. UNCHANGED <<driver, held, launches, owner, primaries, manager, tasks, timed, launched>>
    BY <1>2 DEF Exit
  <2> QED
    BY <2>1, <2>2, <2>3 DEF TypeOK, driver, manager, tasks, CallRecords
<1> QED
  BY <1>1, <1>2

-----------------------------------------------------------------------------
(* Calls. *)

CallsInv == (\A t \in Threads : CallOk(t)) /\ Alone /\ PairsApart
CallsTyped == call' \in [Threads -> CallRecords]

\* What a step of one thread must not do to the others' calls.
LEMMA CallStep ==
  ASSUME CallInv, NEW t \in Threads, CallsTyped, evs' \in [Threads -> SUBSET Pairs],
         \A u \in Threads : u # t => call'[u] = call[u] /\ evs'[u] = evs[u],
         CallOk(t)',
         \A u \in Threads : u # t =>
           /\ Ending(t)' /\ call[u].ctx = call'[t].ctx => call[u].op = "retain"
           /\ Ending(u) /\ call[u].ctx = call'[t].ctx => call'[t].op = "retain"
           /\ call[u].pair = call'[t].pair => call[u].pair = None
           /\ evs'[t] \intersect evs[u] = {}
           /\ call[u].pair \notin evs'[t]
           /\ call'[t].pair \notin evs[u],
         call'[t].pair \notin evs'[t]
  PROVE  CallsInv'
<1> USE DEF CallInv
<1>1. \A u \in Threads : u # t => (Ending(u)' <=> Ending(u))
  BY DEF Ending
<1>2. \A u \in Threads : CallOk(u)'
  BY DEF CallOk
<1>3. Alone'
  BY <1>1 DEF Alone
<1>4. PairsApart'
  BY DEF PairsApart
<1> QED
  BY <1>2, <1>3, <1>4 DEF CallsInv

\* Nothing happens to the calls.
LEMMA CallsSame ==
  ASSUME CallInv, UNCHANGED <<call, evs>>
  PROVE  CallsInv'
BY DEF CallInv, CallsInv, CallOk, Alone, Ending, PairsApart

\* A call returns, or moves on, with the pairs where they are.
LEMMA CallReturns ==
  ASSUME CallInv, NEW t \in Threads, CallsTyped, UNCHANGED evs,
         \A u \in Threads : u # t => call'[u] = call[u],
         evs[t] = {},
         call'[t] = Idle \/ /\ call[t].op = "destroy" /\ call'[t].op = "destroy"
                            /\ call'[t].at = "exit" /\ call'[t].ctx = call[t].ctx
                            /\ call'[t].pair = None
  PROVE  CallsInv'
<1> USE DEF CallInv
<1>1. evs \in [Threads -> SUBSET Pairs] /\ \A u \in Threads : None \notin evs[u]
  BY CudaAssumption DEF TypeOK
<1>2. CallOk(t)'
  BY <1>1, CudaAssumption DEF CallOk, Idle
<1>3. \A u \in Threads : Ending(u) => call[u].ctx # None
  BY DEF Ending, CallOk
<1>4. ~Ending(t)' /\ call'[t].pair = None
  BY DEF Ending, Idle
<1>5. \A u \in Threads : u # t /\ Ending(u) => call[u].ctx # call'[t].ctx
  <2> SUFFICES ASSUME NEW u \in Threads, u # t, Ending(u), call[u].ctx = call'[t].ctx
               PROVE  FALSE
    OBVIOUS
  <2>1. call'[t] # Idle
    BY <1>3 DEF Idle
  <2> QED
    BY <2>1 DEF Alone
<1> QED
  BY <1>1, <1>2, <1>4, <1>5, CallStep

\* A call begins, and may collect pairs.
LEMMA CallBegins ==
  ASSUME CallInv, NEW t \in Threads, Ready(t), CallsTyped,
         NEW c \in Contexts \union {None},
         NEW o \in {"create", "destroy", "retain", "release", "reset", "exit"},
         NEW a \in {"exit", "results"}, a = "exit" <=> o \in {"create", "retain"},
         call' = [call EXCEPT ![t] = [Idle EXCEPT !.op = o, !.at = a, !.ctx = c]],
         o = "exit" <=> c = None,
         evs' \in [Threads -> SUBSET Pairs],
         \A u \in Threads : u # t => evs'[u] = evs[u],
         evs'[t] \subseteq events,
         o \in {"create", "retain"} => evs'[t] = {},
         o \in {"destroy", "reset"} =>
           \A u \in Threads : call[u].ctx = c => call[u].op = "retain",
         o # "retain" => \A u \in Threads : Ending(u) => call[u].ctx # c
  PROVE  CallsInv' /\ call'[t].op = o /\ call'[t].ctx = c /\ call'[t].at = a
<1> USE DEF CallInv
<1>1. call'[t] = [op |-> o, at |-> a, ctx |-> c, pair |-> None]
      /\ \A u \in Threads : u # t => call'[u] = call[u]
  BY CallTypes DEF Idle
<1>2. call'[t].op = o /\ call'[t].at = a /\ call'[t].ctx = c /\ call'[t].pair = None
  BY ONLY <1>1
<1>3. CallOk(t)'
  BY <1>1, <1>2 DEF CallOk, Idle
<1>4. Ending(t)' => o \in {"destroy", "reset"}
  BY <1>2 DEF Ending
<1>5. \A p \in events : p # None /\ \A u \in Threads : p \notin evs[u] /\ call[u].pair # p
  BY CudaAssumption DEF TypeOK
<1>6. \A u \in Threads : None \notin evs[u]
  BY CudaAssumption DEF TypeOK
<1> QED
  BY <1>1, <1>2, <1>3, <1>4, <1>5, <1>6, CallStep

\* Commands keep the calls apart.
LEMMA CommandCalls ==
  ASSUME CallInv, NEW t \in Threads, CommandStep(t)
  PROVE  CallsInv'
<1> USE DEF CallInv
<1>a. CallsTyped /\ evs' \in [Threads -> SUBSET Pairs] /\ UNCHANGED <<evs, primary, held>>
      /\ \A u \in Threads : None \notin evs[u]
  <2>1. TypeOK' /\ UNCHANGED <<evs, primary, held>>
    BY CommandTypes DEF CommandStep, Launch, Profile, Register, driver, tracer, program
  <2> QED
    BY <2>1, CudaAssumption DEF TypeOK, CallsTyped, CallRecords
<1>1. ASSUME NEW n \in Names, NEW s \in Streams \union Implicit \union {None}, Launch(t, n, s)
      PROVE  CallsInv'
  <2>1. PICK c \in Contexts : c = Target(t, s) /\ Usable(c)
    BY <1>1, CallTypes DEF Launch
  <2>2. CASE UNCHANGED call
    BY <1>a, <2>2, CallsSame
  <2>3. ASSUME NEW p \in FreePairs,
               call' = [call EXCEPT ![t] = [op |-> "launch", at |-> "profile", ctx |-> c,
                                            pair |-> p]]
        PROVE  CallsInv'
    <3>1. /\ call'[t] = [op |-> "launch", at |-> "profile", ctx |-> c, pair |-> p]
          /\ \A u \in Threads : u # t => call'[u] = call[u]
      BY <2>3 DEF TypeOK
    <3>2. /\ call'[t].op = "launch" /\ call'[t].at = "profile" /\ call'[t].ctx = c
          /\ call'[t].pair = p /\ c # None
      BY <3>1, CudaAssumption
    <3>3. p \in Pairs /\ \A u \in Threads : p \notin evs[u] /\ call[u].pair # p
      BY DEF FreePairs
    <3>4. evs[t] = {}
      BY <1>1, CallTypes DEF Launch
    <3>5. CallOk(t)'
      BY <1>a, <3>2, <3>3, <3>4 DEF CallOk, Idle
    <3>6. ~Ending(t)' /\ \A u \in Threads : Ending(u) => call[u].ctx # c
      BY <2>1, <3>2 DEF Ending, Usable
    <3> QED
      BY <1>a, <3>1, <3>2, <3>3, <3>4, <3>5, <3>6, CallStep
  <2> QED
    BY <1>1, <2>1, <2>2, <2>3 DEF Launch
<1>2. CASE Profile(t)
  <2>1. /\ call[t].at = "profile" /\ call'[t] = [call[t] EXCEPT !.at = "register"]
        /\ \A u \in Threads : u # t => call'[u] = call[u]
        /\ call[t] \in CallRecords
    BY <1>2, CallTypes DEF Profile, CallRecords
  <2>2. /\ call'[t].at = "register" /\ call'[t].op = call[t].op /\ call'[t].pair = call[t].pair
        /\ call'[t].ctx = call[t].ctx /\ call[t].op = "launch"
    BY <2>1 DEF CallRecords, CallOk
  <2>3. CallOk(t)'
    BY <1>a, <2>1, <2>2 DEF CallOk, Idle
  <2>4. ~Ending(t)' /\ \A u \in Threads : Ending(u) /\ call[u].ctx = call[t].ctx => FALSE
    BY <2>2 DEF Ending, Alone
  <2>5. evs[t] = {} /\ \A u \in Threads : call[t].pair \notin evs[u]
    BY <2>1 DEF CallOk, PairsApart
  <2> QED
    BY <1>a, <2>1, <2>2, <2>3, <2>4, <2>5, CallStep DEF PairsApart
<1>3. CASE Register(t)
  <2>1. /\ call'[t] = Idle /\ evs[t] = {}
        /\ \A u \in Threads : u # t => call'[u] = call[u]
    BY <1>3, CallTypes DEF Register, CallOk
  <2> QED
    BY <1>a, <2>1, CallReturns
<1> QED
  BY <1>1, <1>2, <1>3 DEF CommandStep

\* A call that ends its context has it to itself; no call is ending a context
\* that can be used, or that is new.
LEMMA EndingFacts ==
  ASSUME CallInv
  PROVE  /\ \A c : \A u \in Threads : Usable(c) /\ Ending(u) => call[u].ctx # c
         /\ \A c : \A u \in Threads : Fresh(c) /\ Ending(u) => call[u].ctx # c
<1>1. \A u \in Threads : Ending(u) => device[call[u].ctx] # None
  <2> SUFFICES ASSUME NEW u \in Threads, Ending(u) PROVE device[call[u].ctx] # None
    OBVIOUS
  <2>1. CASE call[u].op = "destroy"
    BY <2>1 DEF CallInv, PrimaryCalls, Ending
  <2>2. CASE call[u].op = "reset"
    <3>1. PICK d \in Devices : IsPrimaryOf(d, call[u].ctx)
      BY <2>2 DEF CallInv, PrimaryCalls
    <3>2. device[call[u].ctx] = d
      BY <3>1 DEF CallInv, Counts, IsPrimaryOf
    <3> QED
      BY <3>2, CudaAssumption
  <2> QED
    BY <2>1, <2>2 DEF Ending
<1> QED
  BY <1>1 DEF Usable, Fresh, Ending

\* So do the beginnings and ends of contexts.
LEMMA ContextCalls ==
  ASSUME CallInv, NEW t \in Threads, ContextStep(t)
  PROVE  CallsInv'
<1> USE DEF CallInv
<1>a. CallsTyped /\ evs' \in [Threads -> SUBSET Pairs]
  BY ContextTypes DEF TypeOK, CallsTyped, CallRecords
<1>1. ASSUME NEW d \in Created, CtxCreate(t, d) PROVE CallsInv'
  <2>1. PICK c \in Contexts :
          /\ Fresh(c)
          /\ call' = [call EXCEPT ![t] = [Idle EXCEPT !.op = "create", !.at = "exit", !.ctx = c]]
    BY <1>1 DEF CtxCreate
  <2>2. Ready(t) /\ UNCHANGED evs /\ evs[t] = {}
    BY <1>1, CallTypes DEF CtxCreate, tracer
  <2>3. c # None /\ \A u \in Threads : Ending(u) => call[u].ctx # c
    BY <2>1, EndingFacts, CudaAssumption
  <2> QED
    BY <1>a, <2>1, <2>2, <2>3, CallBegins
<1>2. ASSUME NEW c \in Contexts, CtxDestroy(t, c) PROVE CallsInv'
  <2>1. /\ Ready(t) /\ Usable(c) /\ Endable(t, c) /\ c # None
        /\ call' = [call EXCEPT ![t] = [Idle EXCEPT !.op = "destroy", !.at = "results",
                                                    !.ctx = c]]
    BY <1>2, CudaAssumption DEF CtxDestroy, Begin
  <2>2. evs'[t] \subseteq events /\ \A u \in Threads : u # t => evs'[u] = evs[u]
    BY <1>2, CallTypes, CollectFacts DEF CtxDestroy
  <2>3. \A u \in Threads : Ending(u) => call[u].ctx # c
    BY <2>1, EndingFacts
  <2>4. \A u \in Threads : call[u].ctx = c => call[u].op = "retain"
    BY <2>1 DEF Endable
  <2> QED
    BY <1>a, <2>1, <2>2, <2>3, <2>4, CallBegins
<1>3. CASE CtxCreateExit(t) \/ CtxDestroyExit(t)
  <2>1. /\ call'[t] = Idle /\ evs[t] = {} /\ UNCHANGED evs
        /\ \A u \in Threads : u # t => call'[u] = call[u]
    BY <1>3, CallTypes DEF CtxCreateExit, CtxDestroyExit, tracer, CallOk
  <2> QED
    BY <1>a, <2>1, CallReturns
<1>4. CASE CtxDestroyDriver(t)
  <2>1. /\ call[t].op = "destroy" /\ call[t].at = "results" /\ evs[t] = {} /\ UNCHANGED evs
        /\ call[t].pair = None /\ call[t] \in CallRecords
    BY <1>4, CallTypes DEF CtxDestroyDriver, Reported, tracer, CallOk
  <2>2. /\ \A u \in Threads : u # t => call'[u] = call[u]
        /\ call'[t] = Idle \/ call'[t] = [call[t] EXCEPT !.at = "exit"]
    BY <1>4, CallTypes DEF CtxDestroyDriver
  <2>3. call'[t] = Idle \/ /\ call'[t].op = "destroy" /\ call'[t].at = "exit"
                           /\ call'[t].ctx = call[t].ctx /\ call'[t].pair = None
    BY <2>1, <2>2 DEF CallRecords
  <2> QED
    BY <1>a, <2>1, <2>2, <2>3, CallReturns
<1> QED
  BY <1>1, <1>2, <1>3, <1>4 DEF ContextStep

\* So do retains, releases and resets.
LEMMA PrimaryStepCalls ==
  ASSUME CallInv, NEW t \in Threads, PrimaryStep(t)
  PROVE  CallsInv'
<1> USE DEF CallInv
<1>a. CallsTyped /\ evs' \in [Threads -> SUBSET Pairs]
  BY PrimaryTypes DEF TypeOK, CallsTyped, CallRecords
<1>1. ASSUME NEW d \in Retained, PrimaryRetain(t, d) PROVE CallsInv'
  <2>1. PICK c \in Contexts :
          call' = [call EXCEPT ![t] = [Idle EXCEPT !.op = "retain", !.at = "exit", !.ctx = c]]
    BY <1>1 DEF PrimaryRetain
  <2>2. Ready(t) /\ UNCHANGED evs /\ evs[t] = {} /\ c # None
    BY <1>1, CallTypes, CudaAssumption DEF PrimaryRetain, tracer
  <2> QED
    BY <1>a, <2>1, <2>2, CallBegins
<1>2. ASSUME NEW d \in Retained, PrimaryRelease(t, d) PROVE CallsInv'
  <2>1. PICK c \in Contexts : c = primary[d].ctx /\ Usable(c)
    BY <1>2, CallTypes DEF PrimaryRelease
  <2>2. /\ Ready(t) /\ c # None /\ evs[t] = {}
        /\ call' = [call EXCEPT ![t] = [Idle EXCEPT !.op = "release", !.at = "results",
                                                    !.ctx = c]]
    BY <1>2, <2>1, CallTypes, CudaAssumption DEF PrimaryRelease, Begin
  <2>3. PICK x : Collect(t, x) \/ UNCHANGED <<events, evs>>
    BY <1>2 DEF PrimaryRelease
  <2>4. evs'[t] \subseteq events /\ \A u \in Threads : u # t => evs'[u] = evs[u]
    BY <2>2, <2>3, CollectFacts
  <2>5. \A u \in Threads : Ending(u) => call[u].ctx # c
    BY <2>1, EndingFacts
  <2> QED
    BY <1>a, <2>2, <2>4, <2>5, CallBegins
<1>3. ASSUME NEW d \in Retained, PrimaryReset(t, d) PROVE CallsInv'
  <2>1. PICK c \in Contexts : c = primary[d].ctx /\ Usable(c)
    BY <1>3, CallTypes DEF PrimaryReset
  <2>2. /\ Ready(t) /\ c # None /\ evs[t] = {}
        /\ call' = [call EXCEPT ![t] = [Idle EXCEPT !.op = "reset", !.at = "results",
                                                    !.ctx = c]]
        /\ \A u \in Threads : call[u].ctx # c
    BY <1>3, <2>1, CallTypes, CudaAssumption DEF PrimaryReset, Begin
  <2>3. PICK x : Collect(t, x) \/ UNCHANGED <<events, evs>>
    BY <1>3 DEF PrimaryReset
  <2>4. evs'[t] \subseteq events /\ \A u \in Threads : u # t => evs'[u] = evs[u]
    BY <2>2, <2>3, CollectFacts
  <2> QED
    BY <1>a, <2>2, <2>4, CallBegins
<1>4. CASE PrimaryRetainExit(t) \/ PrimaryReleaseDriver(t) \/ PrimaryResetDriver(t)
  <2>1. /\ call'[t] = Idle /\ evs[t] = {} /\ UNCHANGED evs
        /\ \A u \in Threads : u # t => call'[u] = call[u]
    BY <1>4, CallTypes DEF PrimaryRetainExit, PrimaryReleaseDriver, PrimaryResetDriver, Reported,
                           tracer, CallOk
  <2> QED
    BY <1>a, <2>1, CallReturns
<1> QED
  BY <1>1, <1>2, <1>3, <1>4 DEF PrimaryStep

\* So do stacks, streams, results and the exit.
LEMMA OtherCalls ==
  ASSUME CallInv, NEW t \in Threads, StackStep(t) \/ Result(t) \/ Exit(t)
  PROVE  CallsInv'
<1> USE DEF CallInv
<1>1. CASE StackStep(t)
  <2>1. UNCHANGED <<call, evs>>
    BY <1>1 DEF StackStep, CtxSetCurrent, CtxPushCurrent, CtxPopCurrent, StreamCreate, tracer
  <2> QED
    BY <2>1, CallsSame
<1>2. CASE Result(t)
  <2>1. PICK p \in evs[t] : evs' = [evs EXCEPT ![t] = @ \ {p}]
    BY <1>2 DEF Result
  <2>2. UNCHANGED call /\ call[t].at = "results"
    BY <1>2 DEF Result
  <2>3. /\ \A u \in Threads : evs'[u] \subseteq evs[u]
        /\ \A u \in Threads : u # t => evs'[u] = evs[u]
    BY <2>1 DEF TypeOK
  <2>4. \A u \in Threads : CallOk(u)'
    BY <2>2, <2>3 DEF CallOk
  <2>5. Alone' /\ PairsApart'
    BY <2>2, <2>3 DEF Alone, Ending, PairsApart
  <2> QED
    BY <2>4, <2>5 DEF CallsInv
<1>3. CASE Exit(t)
  <2>1. /\ Ready(t) /\ \A u \in Threads : call[u] = Idle
        /\ call' = [call EXCEPT ![t] = [Idle EXCEPT !.op = "exit", !.at = "results",
                                                    !.ctx = None]]
        /\ evs' = [evs EXCEPT ![t] = events]
    BY <1>3 DEF Exit, Ready, Begin
  <2>2. CallsTyped /\ evs' \in [Threads -> SUBSET Pairs]
    BY <1>3, ResultTypes DEF TypeOK, CallsTyped, CallRecords
  <2>3. \A u \in Threads : ~Ending(u)
    BY <2>1 DEF Ending, Idle
  <2>4. evs'[t] = events /\ \A u \in Threads : u # t => evs'[u] = evs[u]
    BY <2>1 DEF TypeOK
  <2> QED
    BY <2>1, <2>2, <2>3, <2>4, CallBegins
<1> QED
  BY <1>1, <1>2, <1>3

-----------------------------------------------------------------------------
(* Primary contexts. *)

CountInv == Counts /\ PrimaryCalls

\* A call that neither retains nor releases, and leaves the counts.
LEMMA CountsSame ==
  ASSUME CallInv, NEW t \in Threads, UNCHANGED <<primary, held, primaries>>,
         \A u \in Threads : u # t => call'[u] = call[u],
         \/ call'[t] = call[t]
         \/ {call[t].op, call'[t].op} \intersect {"retain", "release"} = {},
         \A d \in Devices : primary[d].refs > 0 => device'[primary[d].ctx] = d
  PROVE  Counts'
<1> USE DEF CallInv
<1>1. \A d \in Devices : Working(d)' = Working(d)
  BY DEF Working
<1> QED
  BY <1>1 DEF Counts

\* The others' calls still have their contexts.
LEMMA PrimaryCallsSame ==
  ASSUME CallInv, NEW t \in Threads, UNCHANGED <<primary, device>>,
         \A u \in Threads : u # t => call'[u] = call[u],
         call'[t].op \in {"retain", "release", "reset"} =>
           \E d \in Devices : IsPrimaryOf(d, call'[t].ctx),
         call'[t].op = "create" \/ (call'[t].op = "destroy" /\ call'[t].at = "results") =>
           /\ device[call'[t].ctx] # None
           /\ \A d \in Devices : ~IsPrimaryOf(d, call'[t].ctx)
  PROVE  PrimaryCalls'
<1> USE DEF CallInv
<1>1. \A d, c : IsPrimaryOf(d, c)' <=> IsPrimaryOf(d, c)
  BY DEF IsPrimaryOf
<1> QED
  BY <1>1 DEF PrimaryCalls, IsPrimaryOf

\* Commands, stacks, streams, results and the exit leave primary contexts alone.
LEMMA OtherCounts ==
  ASSUME CallInv, NEW t \in Threads, CommandStep(t) \/ StackStep(t) \/ Result(t) \/ Exit(t)
  PROVE  CountInv'
<1> USE DEF CallInv
<1>1. UNCHANGED <<device, primary, held, primaries>>
  BY DEF CommandStep, Launch, Profile, Register, StackStep, CtxSetCurrent, CtxPushCurrent,
         CtxPopCurrent, StreamCreate, Result, Exit, driver, program, tracer
<1>2. /\ \A u \in Threads : u # t => call'[u] = call[u]
      /\ \/ call'[t] = call[t]
         \/ /\ call[t].op \in {"none", "launch"}
            /\ call'[t].op \in {"none", "launch", "exit"}
  <2>1. CASE CommandStep(t)
    <3>1. ASSUME NEW n \in Names, NEW s \in Streams \union Implicit \union {None}, Launch(t, n, s)
          PROVE  /\ \A u \in Threads : u # t => call'[u] = call[u]
                 /\ call'[t] = call[t] \/ (call[t].op = "none" /\ call'[t].op = "launch")
      BY <3>1, CallTypes DEF Launch
    <3>2. ASSUME Profile(t)
          PROVE  /\ \A u \in Threads : u # t => call'[u] = call[u]
                 /\ call[t].op = "launch" /\ call'[t].op = "launch"
      <4>1. call[t] \in CallRecords /\ call'[t] = [call[t] EXCEPT !.at = "register"]
            /\ \A u \in Threads : u # t => call'[u] = call[u]
        BY <3>2, CallTypes DEF Profile
      <4>2. call[t].op = "launch"
        BY <3>2 DEF Profile, CallOk
      <4> QED
        BY <4>1, <4>2 DEF CallRecords
    <3>3. ASSUME Register(t)
          PROVE  /\ \A u \in Threads : u # t => call'[u] = call[u]
                 /\ call[t].op = "launch" /\ call'[t].op = "none"
      BY <3>3, CallTypes DEF Register, CallOk, Idle
    <3> QED
      BY <2>1, <3>1, <3>2, <3>3 DEF CommandStep
  <2>2. CASE StackStep(t) \/ Result(t)
    BY <2>2 DEF StackStep, CtxSetCurrent, CtxPushCurrent, CtxPopCurrent, StreamCreate, Result
  <2>3. CASE Exit(t)
    BY <2>3, CallTypes DEF Exit, Begin, Idle, Ready
  <2> QED
    BY <2>1, <2>2, <2>3
<1>3. Counts'
  BY <1>1, <1>2, CountsSame DEF Counts
<1>4. PrimaryCalls'
  <2>1. CASE call'[t] = call[t]
    BY <1>1, <1>2, <2>1, PrimaryCallsSame DEF PrimaryCalls
  <2>2. CASE call'[t].op \in {"none", "launch", "exit"}
    BY <1>1, <1>2, <2>2, PrimaryCallsSame
  <2> QED
    BY <1>2, <2>1, <2>2
<1> QED
  BY <1>3, <1>4 DEF CountInv

\* Other contexts come and go.
LEMMA ContextCounts ==
  ASSUME CallInv, NEW t \in Threads, ContextStep(t)
  PROVE  CountInv'
<1> USE DEF CallInv
<1>a. UNCHANGED <<primary, held, primaries>>
      /\ \A d, c : IsPrimaryOf(d, c)' <=> IsPrimaryOf(d, c)
  BY DEF ContextStep, CtxCreate, CtxDestroy, CtxCreateExit, CtxDestroyDriver, CtxDestroyExit,
         driver, program, tracer, IsPrimaryOf
<1>b. device \in [Contexts -> Devices \union {None}]
  BY DEF TypeOK
<1>1. ASSUME NEW d \in Created, CtxCreate(t, d) PROVE CountInv'
  <2>1. PICK c \in Contexts :
          /\ device[c] = None /\ device' = [device EXCEPT ![c] = d]
          /\ call' = [call EXCEPT ![t] = [Idle EXCEPT !.op = "create", !.at = "exit", !.ctx = c]]
    BY <1>1 DEF CtxCreate, Fresh
  <2>2. /\ call[t].op = "none" /\ call'[t].op = "create" /\ call'[t].ctx = c
        /\ \A u \in Threads : u # t => call'[u] = call[u]
    BY <1>1, <2>1, CallTypes DEF CtxCreate, Idle
  <2>3. d # None /\ \A e \in Devices : e # None /\ ~IsPrimaryOf(e, c)
    BY <2>1, CudaAssumption DEF Counts, IsPrimaryOf
  <2>4. \A e \in Devices : primary[e].refs > 0 => device'[primary[e].ctx] = e
    BY <1>b, <2>1, <2>3 DEF Counts, IsPrimaryOf
  <2>5. Counts'
    BY <1>a, <2>2, <2>4, CountsSame
  <2>6. device'[c] # None
    BY <1>b, <2>1, <2>3
  <2>7. \A u \in Threads : u # t /\ device[call[u].ctx] # None => device'[call[u].ctx] # None
    BY <1>b, <2>1, <2>3
  <2>8. PrimaryCalls'
    BY <1>a, <2>2, <2>3, <2>6, <2>7 DEF PrimaryCalls
  <2> QED
    BY <2>5, <2>8 DEF CountInv
<1>2. ASSUME NEW c \in Contexts, CtxDestroy(t, c) PROVE CountInv'
  <2>1. /\ call[t].op = "none" /\ call'[t].op = "destroy" /\ call'[t].ctx = c
        /\ \A u \in Threads : u # t => call'[u] = call[u]
        /\ UNCHANGED device /\ device[c] # None /\ \A d \in Devices : ~IsPrimaryOf(d, c)
    BY <1>2, CallTypes DEF CtxDestroy, Begin, Idle, driver, Usable, IsPrimary, IsPrimaryOf
  <2>2. Counts'
    BY <1>a, <2>1, CountsSame DEF Counts
  <2>3. PrimaryCalls'
    BY <1>a, <2>1, PrimaryCallsSame
  <2> QED
    BY <2>2, <2>3 DEF CountInv
<1>3. CASE CtxCreateExit(t) \/ CtxDestroyExit(t)
  <2>1. /\ call[t].op \in {"create", "destroy"} /\ call'[t].op = "none"
        /\ \A u \in Threads : u # t => call'[u] = call[u]
        /\ UNCHANGED device
    BY <1>3, CallTypes DEF CtxCreateExit, CtxDestroyExit, Idle, driver
  <2>2. Counts'
    BY <1>a, <2>1, CountsSame DEF Counts
  <2>3. PrimaryCalls'
    BY <1>a, <2>1, PrimaryCallsSame
  <2> QED
    BY <2>2, <2>3 DEF CountInv
<1>4. CASE CtxDestroyDriver(t)
  <2>k. PICK c \in Contexts : call[t].ctx = c
    BY <1>4, CallTypes DEF CtxDestroyDriver, Reported, CallOk, CallRecords
  <2>1. /\ call[t].op = "destroy" /\ call[t].at = "results" /\ call[t] \in CallRecords
        /\ \A u \in Threads : u # t => call'[u] = call[u]
        /\ Ending(t) /\ device[c] # None /\ \A d \in Devices : ~IsPrimaryOf(d, c)
    BY <1>4, <2>k, CallTypes DEF CtxDestroyDriver, Reported, Ending, PrimaryCalls
  <2>2. CASE call' = [call EXCEPT ![t] = Idle] /\ UNCHANGED device
    <3>1. call'[t].op = "none"
      BY <2>2, CallTypes DEF Idle
    <3>2. Counts'
      BY <1>a, <2>1, <2>2, <3>1, CountsSame DEF Counts
    <3>3. PrimaryCalls'
      BY <1>a, <2>1, <2>2, <3>1, PrimaryCallsSame
    <3> QED
      BY <3>2, <3>3 DEF CountInv
  <2>3. CASE call' = [call EXCEPT ![t].at = "exit"] /\ Destroyed(c)
    <3>1. call'[t].op = "destroy" /\ call'[t].at = "exit"
      BY <2>1, <2>3, CallTypes DEF CallRecords
    <3>2. \A d \in Devices : primary[d].refs > 0 => primary[d].ctx # c
      BY <2>1 DEF IsPrimaryOf
    <3>3. \A x \in Contexts : x # c => device'[x] = device[x]
      BY <1>b, <2>3 DEF Destroyed
    <3>4. Counts'
      BY <1>a, <2>1, <3>1, <3>2, <3>3, CountsSame DEF Counts
    <3>5. \A u \in Threads : u # t /\ call[u].ctx = c => call[u].op = "retain"
      BY <2>k, <2>1 DEF Alone
    <3>6. \A u \in Threads : call[u].ctx \in Contexts \union {None}
      BY CallTypes DEF CallRecords
    <3>7. \A u \in Threads : call[u].op \in {"create", "destroy"} => call[u].ctx # None
      BY DEF CallOk
    <3>8. PrimaryCalls'
      BY <1>a, <2>1, <3>1, <3>3, <3>5, <3>6, <3>7 DEF PrimaryCalls
    <3> QED
      BY <3>4, <3>8 DEF CountInv
  <2> QED
    BY <1>4, <2>k, <2>2, <2>3 DEF CtxDestroyDriver
<1> QED
  BY <1>1, <1>2, <1>3, <1>4 DEF ContextStep

\* A context is the primary one of one device.
LEMMA PrimaryOfOne ==
  ASSUME CallInv, NEW d \in Devices, NEW c \in Contexts, primary[d].ctx = c
  PROVE  /\ IsPrimaryOf(d, c) /\ device[c] = d
         /\ \A e \in Devices : e # d => primary[e].ctx # c
<1>1. \A e \in Devices : primary[e].ctx = c => primary[e].refs > 0 /\ device[c] = e
  <2> SUFFICES ASSUME NEW e \in Devices, primary[e].ctx = c
               PROVE  primary[e].refs > 0 /\ device[c] = e
    OBVIOUS
  <2>1. primary[e].refs \in Nat /\ (primary[e].refs = 0 => primary[e].ctx = None) /\ c # None
    BY CudaAssumption DEF CallInv, Counts, TypeOK, Counted
  <2>2. primary[e].refs > 0
    BY <2>1
  <2> QED
    BY <2>2 DEF CallInv, Counts
<1> QED
  BY <1>1 DEF IsPrimaryOf

\* The calls that work on the retains of a device, counted.
LEMMA WorkingSize ==
  ASSUME CallInv, NEW d \in Devices, NEW t \in Threads
  PROVE  /\ IsFiniteSet(Working(d)) /\ Cardinality(Working(d)) \in Nat
         /\ t \notin Working(d) =>
              Cardinality(Working(d) \union {t}) = Cardinality(Working(d)) + 1
         /\ t \in Working(d) =>
              Cardinality(Working(d) \ {t}) = Cardinality(Working(d)) - 1
         /\ primary[d].refs = held[d] + Cardinality(Working(d))
         /\ primary[d].refs \in Nat /\ held[d] \in Nat /\ primaries[d].refs = held[d]
<1>1. IsFiniteSet(Working(d)) /\ Cardinality(Working(d)) \in Nat
  BY FS_Subset, FS_CardinalityType, CudaAssumption DEF Working
<1>2. /\ primary[d].refs = held[d] + Cardinality(Working(d)) /\ primaries[d].refs = held[d]
      /\ primary[d].refs \in Nat /\ held[d] \in Nat
  BY CudaAssumption DEF CallInv, Counts, TypeOK, Counted
<1> QED
  BY <1>1, <1>2, FS_AddElement, FS_RemoveElement

\* A step changes the counts of one device.
LEMMA CountsStep ==
  ASSUME CallInv, NEW t \in Threads, NEW d \in Devices,
         \A u \in Threads : u # t => call'[u] = call[u],
         \A e \in Devices : e # d =>
           /\ primary'[e] = primary[e] /\ held'[e] = held[e] /\ primaries'[e] = primaries[e]
           /\ primary[e].refs > 0 => device'[primary[e].ctx] = e
           /\ call[t].op \in {"retain", "release"} => call[t].ctx # primary[e].ctx
           /\ call'[t].op \in {"retain", "release"} => call'[t].ctx # primary[e].ctx,
         /\ primary'[d].refs = held'[d] + Cardinality(Working(d)')
         /\ primary'[d].refs = 0 => primary'[d].ctx = None
         /\ primary'[d].refs > 0 => primary'[d].ctx \in Contexts /\ device'[primary'[d].ctx] = d
         /\ primaries'[d].refs = held'[d]
         /\ held'[d] > 0 => primaries'[d].ctx = primary'[d].ctx
  PROVE  Counts'
<1> USE DEF CallInv
<1>1. \A e \in Devices : e # d => Working(e)' = Working(e)
  BY DEF Working
<1>2. \A e \in Devices : e # d =>
        /\ primary'[e].refs = held'[e] + Cardinality(Working(e)')
        /\ primary'[e].refs = 0 => primary'[e].ctx = None
        /\ primary'[e].refs > 0 => primary'[e].ctx \in Contexts /\ device'[primary'[e].ctx] = e
        /\ primaries'[e].refs = held'[e]
        /\ held'[e] > 0 => primaries'[e].ctx = primary'[e].ctx
  BY <1>1 DEF Counts
<1> QED
  BY <1>2 DEF Counts

\* A retain in the driver.
LEMMA RetainCounts ==
  ASSUME CallInv, NEW t \in Threads, NEW d \in Devices, PrimaryRetain(t, d)
  PROVE  CountInv'
<1> USE DEF CallInv
<1>k. PICK c \in Contexts :
       /\ \/ /\ primary[d].refs > 0 /\ c = primary[d].ctx
             /\ primary' = [primary EXCEPT ![d].refs = @ + 1]
             /\ UNCHANGED device
          \/ /\ primary[d].refs = 0 /\ device[c] = None
             /\ primary' = [primary EXCEPT ![d] = [ctx |-> c, refs |-> 1]]
             /\ device' = [device EXCEPT ![c] = d]
       /\ call' = [call EXCEPT ![t] = [Idle EXCEPT !.op = "retain", !.at = "exit", !.ctx = c]]
  BY DEF PrimaryRetain, Fresh
<1>1. /\ call[t].op = "none" /\ call'[t].op = "retain" /\ call'[t].ctx = c
      /\ \A u \in Threads : u # t => call'[u] = call[u]
      /\ UNCHANGED <<held, primaries>>
  BY <1>k, CallTypes DEF PrimaryRetain, Idle, program, tracer
<1>2. t \notin Working(d)
  BY <1>1 DEF Working
<1>b. /\ primary \in [Devices -> Counted] /\ device \in [Contexts -> Devices \union {None}]
      /\ c # None /\ d # None
  BY CudaAssumption DEF TypeOK
<1>3. CASE primary[d].refs > 0 /\ c = primary[d].ctx
           /\ primary' = [primary EXCEPT ![d].refs = @ + 1] /\ UNCHANGED device
  <2>1. IsPrimaryOf(d, c) /\ device[c] = d /\ \A e \in Devices : e # d => primary[e].ctx # c
    BY <1>3, PrimaryOfOne
  <2>2. /\ primary'[d].refs = primary[d].refs + 1 /\ primary'[d].ctx = c
        /\ \A e \in Devices : e # d => primary'[e] = primary[e]
    BY <1>b, <1>3 DEF Counted
  <2>3. Working(d)' = Working(d) \union {t}
    BY <1>1, <1>3, <2>2 DEF Working
  <2>4. primary'[d].refs = held'[d] + Cardinality(Working(d)') /\ primary'[d].refs # 0
    <3>1. /\ Cardinality(Working(d) \union {t}) = Cardinality(Working(d)) + 1
          /\ Cardinality(Working(d)) \in Nat /\ held[d] \in Nat
          /\ primary[d].refs = held[d] + Cardinality(Working(d))
      BY <1>2, WorkingSize
    <3>2. held' = held
      BY <1>1
    <3>3. primary'[d].refs = held[d] + (Cardinality(Working(d)) + 1)
      BY ONLY <2>2, <3>1
    <3> QED
      BY <2>3, <3>1, <3>2, <3>3
  <2>5. Counts'
    BY <1>1, <1>3, <2>1, <2>2, <2>4, CountsStep DEF Counts
  <2>6. \A e \in Devices : \A x : IsPrimaryOf(e, x)' <=> IsPrimaryOf(e, x)
    <3>1. primary'[d].refs > 0
      BY <1>b, <1>3, <2>2 DEF Counted
    <3> QED
      BY <1>3, <2>2, <3>1 DEF IsPrimaryOf
  <2>7. PrimaryCalls'
    BY <1>1, <1>3, <2>1, <2>6 DEF PrimaryCalls
  <2> QED
    BY <2>5, <2>7 DEF CountInv
<1>4. CASE /\ primary[d].refs = 0 /\ device[c] = None
           /\ primary' = [primary EXCEPT ![d] = [ctx |-> c, refs |-> 1]]
           /\ device' = [device EXCEPT ![c] = d]
  <2>1. /\ primary'[d].refs = 1 /\ primary'[d].ctx = c
        /\ \A e \in Devices : e # d => primary'[e] = primary[e]
        /\ device'[c] = d /\ \A x \in Contexts : x # c => device'[x] = device[x]
    BY <1>b, <1>4
  <2>2. \A e \in Devices : primary[e].ctx # c /\ ~IsPrimaryOf(e, c)
    BY <1>4, PrimaryOfOne, CudaAssumption DEF IsPrimaryOf
  <2>3. \A u \in Threads : call[u].op \in {"retain", "release"} => call[u].ctx # c
    BY <2>2 DEF PrimaryCalls
  <2>4. Working(d)' = {t}
    BY <1>1, <2>1, <2>3 DEF Working
  <2>5. held[d] = 0
    <3>1. /\ primary[d].refs = held[d] + Cardinality(Working(d))
          /\ held[d] \in Nat /\ Cardinality(Working(d)) \in Nat
      BY WorkingSize
    <3> QED
      BY <1>4, <3>1
  <2>6. primary'[d].refs = held'[d] + Cardinality(Working(d)')
    <3>1. Cardinality({t}) = 1
      BY FS_Singleton
    <3>2. primary'[d].refs = held'[d] + Cardinality({t})
      BY <1>1, <2>1, <2>5, <3>1
    <3> QED
      BY <2>4, <3>2
  <2>7. \A e \in Devices : e # d => (primary[e].refs > 0 => device'[primary[e].ctx] = e)
    BY <2>1, <2>2 DEF Counts
  <2>8. Counts'
    <3>1. primaries'[d].refs = held'[d] /\ held'[d] = 0
      BY <1>1, <2>5, WorkingSize
    <3> QED
      BY <1>1, <2>1, <2>2, <2>6, <2>7, <3>1, CountsStep
  <2>9. \A e \in Devices : \A x : IsPrimaryOf(e, x) => IsPrimaryOf(e, x)'
    BY <1>4, <2>1 DEF IsPrimaryOf
  <2>10. \A e \in Devices : \A x : x # c => (IsPrimaryOf(e, x)' => IsPrimaryOf(e, x))
    BY <2>1 DEF IsPrimaryOf
  <2>11. \A u \in Threads : call[u].ctx \in Contexts \union {None}
    BY CallTypes DEF CallRecords
  <2>12. \A u \in Threads : call[u].op \in {"create", "destroy"} => call[u].ctx \in Contexts
    BY <2>11 DEF CallOk
  <2>13. IsPrimaryOf(d, c)'
    BY <2>1 DEF IsPrimaryOf
  <2>14. ASSUME NEW u \in Threads, u # t,
                call[u].op = "create" \/ (call[u].op = "destroy" /\ call[u].at = "results")
         PROVE  device'[call[u].ctx] # None /\ \A e \in Devices : ~IsPrimaryOf(e, call[u].ctx)'
    <3>1. /\ device[call[u].ctx] # None /\ \A e \in Devices : ~IsPrimaryOf(e, call[u].ctx)
          /\ call[u].ctx # c
      BY <1>4, <2>14 DEF PrimaryCalls
    <3>2. PICK x \in Contexts : x = call[u].ctx
      BY <2>12, <2>14
    <3>3. \A e \in Devices : ~IsPrimaryOf(e, x)'
      BY <2>10, <3>1, <3>2
    <3>4. call'[u].ctx = x
      BY <1>1, <2>14, <3>2
    <3> QED
      BY <2>1, <3>1, <3>2, <3>3, <3>4 DEF IsPrimaryOf
  <2>15. PrimaryCalls'
    BY <1>1, <2>9, <2>13, <2>14 DEF PrimaryCalls, IsPrimaryOf
  <2> QED
    BY <2>8, <2>15 DEF CountInv
<1> QED
  BY <1>k, <1>3, <1>4

\* A retain that returns.
LEMMA RetainExitCounts ==
  ASSUME CallInv, NEW t \in Threads, PrimaryRetainExit(t)
  PROVE  CountInv'
<1> USE DEF CallInv
<1>k. PICK c \in Contexts, d \in Devices :
        /\ c = call[t].ctx /\ d = device[c] /\ IsPrimaryOf(d, c) /\ t \in Working(d)
  BY WorkingFacts DEF PrimaryRetainExit
<1>1. /\ call[t].op = "retain" /\ call'[t].op = "none"
      /\ \A u \in Threads : u # t => call'[u] = call[u]
      /\ UNCHANGED <<primary, device>>
      /\ held' = [held EXCEPT ![d] = @ + 1] /\ Retain(d, c)
  BY <1>k, CallTypes DEF PrimaryRetainExit, Idle, driver
<1>b. /\ primary \in [Devices -> Counted] /\ primaries \in [Devices -> Counted]
      /\ held \in [Devices -> 0 .. MaxRefs]
  BY DEF TypeOK
<1>2. /\ held'[d] = held[d] + 1 /\ held[d] \in Nat /\ primaries[d].refs = held[d]
      /\ \A e \in Devices : e # d => held'[e] = held[e] /\ primaries'[e] = primaries[e]
  BY <1>b, <1>1, WorkingSize DEF Retain
<1>3. primaries'[d].refs = held[d] + 1 /\ primaries'[d].ctx = c
  <2> DEFINE p == primaries[d]
             n == IF p.refs > 0 /\ p.ctx = c THEN p.refs + 1 ELSE 1
  <2>1. primaries' = [primaries EXCEPT ![d] = [ctx |-> c, refs |-> n]]
    BY <1>1 DEF Retain
  <2>2. n = held[d] + 1
    <3>1. held[d] > 0 => p.ctx = c
      BY <1>k DEF Counts, IsPrimaryOf
    <3> QED
      BY <1>2, <3>1
  <2> HIDE DEF n, p
  <2> QED
    BY <1>b, <2>1, <2>2
<1>4. primary[d].ctx = c /\ device[c] = d /\ \A e \in Devices : e # d => primary[e].ctx # c
  BY <1>k, PrimaryOfOne DEF IsPrimaryOf
<1>5. Working(d)' = Working(d) \ {t}
  BY <1>1 DEF Working
<1>6. primary'[d].refs = held'[d] + Cardinality(Working(d)')
  <2>1. /\ Cardinality(Working(d) \ {t}) = Cardinality(Working(d)) - 1
        /\ Cardinality(Working(d)) \in Nat
        /\ primary[d].refs = held[d] + Cardinality(Working(d))
    BY <1>k, WorkingSize
  <2>2. primary[d].refs = (held[d] + 1) + (Cardinality(Working(d)) - 1)
    BY ONLY <1>2, <2>1
  <2>3. primary'[d].refs = (held[d] + 1) + Cardinality(Working(d) \ {t})
    BY <1>1, <2>1, <2>2
  <2> QED
    BY <1>2, <1>5, <2>3
<1>7. Counts'
  <2>1. primary'[d].refs # 0 /\ primary'[d].ctx = c /\ device'[c] = d
    BY <1>1, <1>4, <1>k DEF IsPrimaryOf
  <2>2. \A e \in Devices : e # d => (primary[e].refs > 0 => device'[primary[e].ctx] = e)
    BY <1>1 DEF Counts
  <2>3. /\ primary'[d].refs = 0 => primary'[d].ctx = None
        /\ primary'[d].refs > 0 => primary'[d].ctx \in Contexts /\ device'[primary'[d].ctx] = d
        /\ primaries'[d].refs = held'[d]
        /\ held'[d] > 0 => primaries'[d].ctx = primary'[d].ctx
    BY <1>2, <1>3, <2>1
  <2>4. \A e \in Devices : e # d =>
        /\ primary'[e] = primary[e] /\ held'[e] = held[e] /\ primaries'[e] = primaries[e]
        /\ primary[e].refs > 0 => device'[primary[e].ctx] = e
        /\ call[t].op \in {"retain", "release"} => call[t].ctx # primary[e].ctx
        /\ call'[t].op \in {"retain", "release"} => call'[t].ctx # primary[e].ctx
    BY <1>1, <1>2, <1>4, <1>k, <2>2
  <2> HIDE DEF CallInv
  <2> QED
    BY CallInv, <1>1, <1>6, <2>3, <2>4, CountsStep
<1>8. PrimaryCalls'
  BY <1>1, PrimaryCallsSame
<1> QED
  BY <1>7, <1>8 DEF CountInv

\* A release in the tracer.
LEMMA ReleaseCounts ==
  ASSUME CallInv, NEW t \in Threads, NEW d \in Devices, PrimaryRelease(t, d)
  PROVE  CountInv'
<1> USE DEF CallInv
<1>k. PICK c \in Contexts : c = primary[d].ctx
  BY CallTypes DEF PrimaryRelease
<1>1. /\ call[t].op = "none" /\ call'[t].op = "release" /\ call'[t].ctx = c
      /\ \A u \in Threads : u # t => call'[u] = call[u]
      /\ UNCHANGED <<primary, device>>
      /\ held' = [held EXCEPT ![d] = @ - 1] /\ held[d] > 0
  BY <1>k, CallTypes DEF PrimaryRelease, Begin, Idle, driver
<1>b. /\ primary \in [Devices -> Counted] /\ primaries \in [Devices -> Counted]
      /\ held \in [Devices -> 0 .. MaxRefs]
  BY DEF TypeOK
<1>2. /\ held'[d] = held[d] - 1 /\ held[d] \in Nat /\ primaries[d].refs = held[d]
      /\ \A e \in Devices : e # d => held'[e] = held[e] /\ primaries'[e] = primaries[e]
  BY <1>b, <1>1, WorkingSize DEF PrimaryRelease
<1>3. primaries'[d].refs = held'[d] /\ (held'[d] > 0 => primaries'[d].ctx = c)
  <2>1. primaries[d].ctx = c
    BY <1>k, <1>1 DEF Counts
  <2>2. CASE primaries[d].refs = 1
    <3>1. primaries' = [primaries EXCEPT ![d] = NoPrimary]
      BY <2>2 DEF PrimaryRelease
    <3>2. primaries'[d].refs = 0
      BY <1>b, <3>1 DEF NoPrimary
    <3> QED
      BY <1>2, <2>2, <3>2
  <2>3. CASE primaries[d].refs # 1
    <3>1. primaries' = [primaries EXCEPT ![d].refs = IF @ = 0 THEN 0 ELSE @ - 1]
      BY <2>3 DEF PrimaryRelease
    <3>2. primaries[d].refs # 0
      BY <1>1, <1>2
    <3>3. primaries'[d].refs = primaries[d].refs - 1 /\ primaries'[d].ctx = primaries[d].ctx
      BY <1>b, <3>1, <3>2 DEF Counted
    <3> QED
      BY <1>2, <2>1, <3>3
  <2> QED
    BY <2>2, <2>3
<1>4. IsPrimaryOf(d, c) /\ device[c] = d /\ \A e \in Devices : e # d => primary[e].ctx # c
  BY <1>k, PrimaryOfOne
<1>5. Working(d)' = Working(d) \union {t} /\ t \notin Working(d)
  BY <1>1, <1>k DEF Working
<1>6. primary'[d].refs = held'[d] + Cardinality(Working(d)')
  <2>1. /\ Cardinality(Working(d) \union {t}) = Cardinality(Working(d)) + 1
        /\ Cardinality(Working(d)) \in Nat
        /\ primary[d].refs = held[d] + Cardinality(Working(d))
    BY <1>5, WorkingSize
  <2>2. primary[d].refs = (held[d] - 1) + (Cardinality(Working(d)) + 1)
    BY ONLY <1>2, <2>1
  <2>3. primary'[d].refs = (held[d] - 1) + Cardinality(Working(d) \union {t})
    BY <1>1, <2>1, <2>2
  <2> QED
    BY <1>2, <1>5, <2>3
<1>7. Counts'
  <2>1. primary'[d].refs # 0 /\ primary'[d].ctx = c /\ device'[c] = d
    BY <1>1, <1>4, <1>k DEF IsPrimaryOf
  <2>2. \A e \in Devices : e # d => (primary[e].refs > 0 => device'[primary[e].ctx] = e)
    BY <1>1 DEF Counts
  <2>3. /\ primary'[d].refs = 0 => primary'[d].ctx = None
        /\ primary'[d].refs > 0 => primary'[d].ctx \in Contexts /\ device'[primary'[d].ctx] = d
        /\ primaries'[d].refs = held'[d]
        /\ held'[d] > 0 => primaries'[d].ctx = primary'[d].ctx
    BY <1>3, <2>1
  <2> QED
    BY <1>1, <1>2, <1>4, <1>6, <2>2, <2>3, CountsStep
<1>8. PrimaryCalls'
  BY <1>1, <1>4, PrimaryCallsSame
<1> QED
  BY <1>7, <1>8 DEF CountInv

\* A release in the driver.
LEMMA ReleaseDriverCounts ==
  ASSUME CallInv, NEW t \in Threads, PrimaryReleaseDriver(t)
  PROVE  CountInv'
<1> USE DEF CallInv
<1>0. call[t].op = "release"
  BY DEF PrimaryReleaseDriver, Reported
<1>k. PICK c \in Contexts, d \in Devices :
        /\ c = call[t].ctx /\ d = device[c] /\ IsPrimaryOf(d, c) /\ t \in Working(d)
        /\ primary[d].refs = 1 => Working(d) = {t} /\ held[d] = 0
  BY <1>0, WorkingFacts
<1>1. /\ call'[t].op = "none"
      /\ \A u \in Threads : u # t => call'[u] = call[u]
      /\ UNCHANGED <<held, primaries>>
      /\ IF primary[d].refs = 1
         THEN primary' = [primary EXCEPT ![d] = NoPrimary] /\ Destroyed(c)
         ELSE primary' = [primary EXCEPT ![d].refs = @ - 1] /\ UNCHANGED device
  BY <1>k, CallTypes DEF PrimaryReleaseDriver, Idle, program, tracer
<1>b. /\ primary \in [Devices -> Counted] /\ device \in [Contexts -> Devices \union {None}]
      /\ c # None
  BY CudaAssumption DEF TypeOK
<1>2. primary[d].ctx = c /\ device[c] = d /\ \A e \in Devices : e # d => primary[e].ctx # c
  BY <1>k, PrimaryOfOne DEF IsPrimaryOf
<1>3. primaries'[d].refs = held'[d] /\ (held'[d] > 0 => primaries'[d].ctx = c)
  BY <1>1, <1>2 DEF Counts
<1>4. CASE primary[d].refs = 1
  <2>1. primary' = [primary EXCEPT ![d] = NoPrimary] /\ Destroyed(c)
    BY <1>1, <1>4
  <2>2. /\ primary'[d].refs = 0 /\ primary'[d].ctx = None
        /\ \A e \in Devices : e # d => primary'[e] = primary[e]
    BY <1>b, <2>1 DEF NoPrimary
  <2>3. \A x \in Contexts : x # c => device'[x] = device[x]
    BY <1>b, <2>1 DEF Destroyed
  <2>4. \A u \in Threads : call[u].op \in {"retain", "release"} => call[u].ctx # None
    BY DEF CallOk
  <2>5. Working(d)' = {}
    BY <1>1, <2>2, <2>4 DEF Working
  <2>6. primary'[d].refs = held'[d] + Cardinality(Working(d)')
    <3>1. held'[d] = 0 /\ Cardinality({}) = 0
      BY <1>1, <1>4, <1>k, FS_EmptySet
    <3>2. primary'[d].refs = held'[d] + Cardinality({})
      BY <2>2, <3>1
    <3> QED
      BY <2>5, <3>2
  <2>7. Counts'
    <3>1. \A e \in Devices : e # d => (primary[e].refs > 0 => device'[primary[e].ctx] = e)
      BY <1>2, <2>3 DEF Counts
    <3>2. held'[d] = 0
      BY <1>1, <1>4, <1>k
    <3> QED
      BY <1>1, <1>2, <1>3, <1>k, <2>2, <2>6, <3>1, <3>2, CountsStep
  <2>8. \A e \in Devices : \A x : IsPrimaryOf(e, x)' => IsPrimaryOf(e, x) /\ x # c
    BY <1>2, <2>2 DEF IsPrimaryOf
  <2>9. \A e \in Devices : \A x : x # c => (IsPrimaryOf(e, x) => IsPrimaryOf(e, x)')
    BY <1>2, <2>2 DEF IsPrimaryOf
  <2>10. \A u \in Threads : u # t => (call[u].op \in {"retain", "release"} => call[u].ctx # c)
    BY <1>4, <1>k, <1>2 DEF Working
  <2>11. \A u \in Threads : call[u].op = "reset" => call[u].ctx # c
    <3> SUFFICES ASSUME NEW u \in Threads, call[u].op = "reset", call[u].ctx = c PROVE FALSE
      OBVIOUS
    <3>1. Ending(u)
      BY DEF Ending, CallOk
    <3> QED
      BY <1>0, <1>k, <3>1 DEF Alone
  <2>12. \A u \in Threads : call[u].op = "create" \/ (call[u].op = "destroy"
                                                      /\ call[u].at = "results")
           => /\ call[u].ctx # c /\ call[u].ctx \in Contexts /\ device[call[u].ctx] # None
              /\ \A e \in Devices : ~IsPrimaryOf(e, call[u].ctx)
    BY <1>k, CallTypes DEF PrimaryCalls, CallOk, CallRecords
  <2>13. ASSUME NEW u \in Threads, u # t,
                call[u].op \in {"retain", "release", "reset"}
         PROVE  \E e \in Devices : IsPrimaryOf(e, call[u].ctx)'
    <3>a. PICK x : x = call[u].ctx
      OBVIOUS
    <3>1. PICK e \in Devices : IsPrimaryOf(e, x) /\ x = call[u].ctx
      BY <2>13, <3>a DEF PrimaryCalls
    <3>2. x # c
      BY <2>10, <2>11, <2>13, <3>1
    <3>3. IsPrimaryOf(e, x)'
      BY <2>9, <3>1, <3>2
    <3>4. call'[u].ctx = x
      BY <1>1, <2>13, <3>1
    <3> QED
      BY <3>3, <3>4 DEF IsPrimaryOf
  <2>14. ASSUME NEW u \in Threads, u # t,
                call[u].op = "create" \/ (call[u].op = "destroy" /\ call[u].at = "results")
         PROVE  device'[call[u].ctx] # None /\ \A e \in Devices : ~IsPrimaryOf(e, call[u].ctx)'
    <3>1. PICK x \in Contexts : /\ x = call[u].ctx /\ x # c /\ device[x] # None
                                /\ \A e \in Devices : ~IsPrimaryOf(e, x)
      BY <2>12, <2>14
    <3>2. \A e \in Devices : ~IsPrimaryOf(e, x)'
      BY <2>8, <3>1
    <3>3. call'[u].ctx = x
      BY <1>1, <2>14, <3>1
    <3> QED
      BY <2>3, <3>1, <3>2, <3>3 DEF IsPrimaryOf
  <2>15. PrimaryCalls'
    BY <1>1, <2>13, <2>14 DEF PrimaryCalls, IsPrimaryOf
  <2> QED
    BY <2>7, <2>15 DEF CountInv
<1>5. CASE primary[d].refs # 1
  <2>1. primary' = [primary EXCEPT ![d].refs = @ - 1] /\ UNCHANGED device
    BY <1>1, <1>5
  <2>2. /\ primary'[d].refs = primary[d].refs - 1 /\ primary'[d].ctx = c
        /\ \A e \in Devices : e # d => primary'[e] = primary[e]
    BY <1>b, <1>2, <2>1 DEF Counted
  <2>3. primary'[d].refs > 0 /\ primary'[d].refs # 0
    BY <1>5, <1>b, <1>k, <2>2, CudaAssumption DEF IsPrimaryOf, Counted
  <2>4. Working(d)' = Working(d) \ {t}
    BY <1>1, <1>2, <2>2 DEF Working
  <2>5. primary'[d].refs = held'[d] + Cardinality(Working(d)')
    <3>1. /\ Cardinality(Working(d) \ {t}) = Cardinality(Working(d)) - 1
          /\ Cardinality(Working(d)) \in Nat /\ held[d] \in Nat
          /\ primary[d].refs = held[d] + Cardinality(Working(d))
      BY <1>k, WorkingSize
    <3>2. primary'[d].refs = held[d] + (Cardinality(Working(d)) - 1)
      BY ONLY <2>2, <3>1
    <3>3. primary'[d].refs = held[d] + Cardinality(Working(d) \ {t})
      BY <3>1, <3>2
    <3> QED
      BY <1>1, <2>4, <3>3
  <2>6. Counts'
    <3>1. \A e \in Devices : e # d => (primary[e].refs > 0 => device'[primary[e].ctx] = e)
      BY <2>1 DEF Counts
    <3>2. device'[c] = d
      BY <1>2, <2>1
    <3>3. \A e \in Devices : e # d =>
          /\ primary'[e] = primary[e] /\ held'[e] = held[e] /\ primaries'[e] = primaries[e]
          /\ primary[e].refs > 0 => device'[primary[e].ctx] = e
          /\ call[t].op \in {"retain", "release"} => call[t].ctx # primary[e].ctx
          /\ call'[t].op \in {"retain", "release"} => call'[t].ctx # primary[e].ctx
      BY <1>1, <1>2, <1>3, <1>k, <2>2, <3>1
    <3>4. /\ primary'[d].refs = 0 => primary'[d].ctx = None
          /\ primary'[d].refs > 0 => primary'[d].ctx \in Contexts /\ device'[primary'[d].ctx] = d
          /\ primaries'[d].refs = held'[d]
          /\ held'[d] > 0 => primaries'[d].ctx = primary'[d].ctx
      BY <1>1, <1>2, <1>3, <1>k, <2>2, <2>3, <3>2
    <3> HIDE DEF CallInv
    <3> QED
      BY CallInv, <1>1, <2>5, <3>3, <3>4, CountsStep
  <2>7. \A e \in Devices : \A x : IsPrimaryOf(e, x)' <=> IsPrimaryOf(e, x)
    BY <1>k, <1>2, <2>2, <2>3 DEF IsPrimaryOf
  <2>8. PrimaryCalls'
    BY <1>1, <2>1, <2>7 DEF PrimaryCalls
  <2> QED
    BY <2>6, <2>8 DEF CountInv
<1> QED
  BY <1>4, <1>5

\* A reset changes no count.
LEMMA ResetCounts ==
  ASSUME CallInv, NEW t \in Threads,
         (\E d \in Retained : PrimaryReset(t, d)) \/ PrimaryResetDriver(t)
  PROVE  CountInv'
<1> USE DEF CallInv
<1>1. UNCHANGED <<device, primary, held, primaries>>
  BY DEF PrimaryReset, PrimaryResetDriver, driver, program, tracer
<1>2. ASSUME NEW d \in Retained, PrimaryReset(t, d) PROVE CountInv'
  <2>1. PICK c \in Contexts : c = primary[d].ctx /\ d \in Devices
    BY <1>2, CallTypes, CudaAssumption DEF PrimaryReset
  <2>2. /\ call[t].op = "none" /\ call'[t].op = "reset" /\ call'[t].ctx = c
        /\ \A u \in Threads : u # t => call'[u] = call[u]
    BY <1>2, <2>1, CallTypes DEF PrimaryReset, Begin, Idle
  <2>3. IsPrimaryOf(d, c)
    BY <2>1, PrimaryOfOne
  <2>4. Counts'
    BY <1>1, <2>2, CountsSame DEF Counts
  <2>5. PrimaryCalls'
    BY <1>1, <2>1, <2>2, <2>3, PrimaryCallsSame
  <2> QED
    BY <2>4, <2>5 DEF CountInv
<1>3. CASE PrimaryResetDriver(t)
  <2>1. /\ call[t].op = "reset" /\ call'[t].op = "none"
        /\ \A u \in Threads : u # t => call'[u] = call[u]
    BY <1>3, CallTypes DEF PrimaryResetDriver, Reported, Idle
  <2>2. Counts'
    BY <1>1, <2>1, CountsSame DEF Counts
  <2>3. PrimaryCalls'
    BY <1>1, <2>1, PrimaryCallsSame
  <2> QED
    BY <2>2, <2>3 DEF CountInv
<1> QED
  BY <1>2, <1>3

\* Retains, releases and resets keep the tracer's counts those of the program.
LEMMA PrimaryCounts ==
  ASSUME CallInv, NEW t \in Threads, PrimaryStep(t)
  PROVE  CountInv'
<1>1. Retained \subseteq Devices
  BY CudaAssumption
<1> QED
  BY <1>1, RetainCounts, RetainExitCounts, ReleaseCounts, ReleaseDriverCounts, ResetCounts
     DEF PrimaryStep

\* Calls begin apart.
LEMMA InitCalls == Init => CallInv
<1> SUFFICES ASSUME Init PROVE CallInv
  OBVIOUS
<1>1. /\ device = [c \in Contexts |-> None] /\ stack = [t \in Threads |-> <<>>]
      /\ streamCtx = [s \in Streams |-> None]
      /\ primary = [d \in Devices |-> NoPrimary] /\ held = [d \in Devices |-> 0]
      /\ call = [t \in Threads |-> Idle] /\ launches = 0 /\ ended = FALSE
      /\ events = {} /\ evs = [t \in Threads |-> {}]
      /\ primaries = [d \in Devices |-> NoPrimary]
  BY DEF Init
<1>2. NoCommand \in Commands /\ NoPrimary \in Counted /\ Idle \in CallRecords
  BY CudaAssumption DEF NoCommand, Commands, NoPrimary, Counted, Idle, CallRecords
<1>3. TypeOK
  <2>1. /\ call \in [Threads -> CallRecords] /\ held \in [Devices -> 0 .. MaxRefs]
        /\ primary \in [Devices -> Counted] /\ primaries \in [Devices -> Counted]
        /\ launches \in 0 .. MaxLaunches
    BY <1>1, <1>2, CudaAssumption
  <2>7. NoLaunch \in Launches
    BY <1>2 DEF NoLaunch, Launches
  <2>2. /\ timed \in [Pairs -> Commands] /\ profiled \in [Threads -> Commands]
        /\ nameDevice \in [Threads -> [Names -> Devices \union {None}]]
        /\ launched \in [Pairs -> Launches]
    BY <1>2, <2>7 DEF Init
  <2>3. /\ owner \in [Pairs -> Contexts \union {None}]
        /\ ctxStack \in [Threads -> Seq(Contexts)]
        /\ ctxDevice \in [Contexts -> Devices \union {None}]
        /\ streamToCtx \in [Streams \union Implicit -> Contexts \union {None}]
    BY DEF Init
  <2>4. /\ device \in [Contexts -> Devices \union {None}]
        /\ stack \in [Threads -> Seq(Contexts)] /\ evs \in [Threads -> SUBSET Pairs]
        /\ streamCtx \in [Streams -> Contexts \union {None}]
    BY <1>1
  <2>5. ended \in BOOLEAN /\ events = {}
    BY <1>1
  <2> QED
    BY <2>1, <2>2, <2>3, <2>4, <2>5 DEF TypeOK, CallRecords
<1>4. \A t \in Threads : /\ call[t].op = "none" /\ call[t].at = "none" /\ call[t].ctx = None
                         /\ call[t].pair = None /\ call[t] = Idle /\ evs[t] = {}
  BY <1>1 DEF Idle
<1>5. \A t \in Threads : CallOk(t)
  BY <1>4 DEF CallOk
<1>6. Alone /\ PairsApart
  BY <1>4 DEF Alone, PairsApart, Ending
<1>7. PrimaryCalls
  BY <1>4 DEF PrimaryCalls
<1>8. Counts
  <2>1. \A d \in Devices : Working(d) = {}
    BY <1>4 DEF Working
  <2>2. Cardinality({}) = 0
    BY FS_EmptySet
  <2>3. \A d \in Devices : /\ primary[d].refs = 0 /\ primary[d].ctx = None /\ held[d] = 0
                           /\ primaries[d].refs = 0
    BY <1>1 DEF NoPrimary
  <2>4. \A d \in Devices : Cardinality(Working(d)) = 0
    BY <2>1, <2>2
  <2> QED
    BY <2>3, <2>4 DEF Counts
<1> QED
  BY <1>3, <1>5, <1>6, <1>7, <1>8 DEF CallInv

\* Every step keeps them apart.
LEMMA NextCalls == CallInv /\ [Next]_vars => CallInv'
<1> SUFFICES ASSUME CallInv, [Next]_vars PROVE CallInv'
  OBVIOUS
<1>1. ASSUME NEW t \in Threads, CommandStep(t) PROVE CallInv'
  BY <1>1, CommandTypes, CommandCalls, OtherCounts DEF CallInv, CallsInv, CountInv
<1>2. ASSUME NEW t \in Threads, ContextStep(t) PROVE CallInv'
  BY <1>2, ContextTypes, ContextCalls, ContextCounts DEF CallInv, CallsInv, CountInv
<1>3. ASSUME NEW t \in Threads, PrimaryStep(t) PROVE CallInv'
  BY <1>3, PrimaryTypes, PrimaryStepCalls, PrimaryCounts DEF CallInv, CallsInv, CountInv
<1>4. ASSUME NEW t \in Threads, StackStep(t) PROVE CallInv'
  BY <1>4, StackStepTypes, OtherCalls, OtherCounts DEF CallInv, CallsInv, CountInv
<1>5. ASSUME NEW t \in Threads, Result(t) \/ Exit(t) PROVE CallInv'
  BY <1>5, ResultTypes, OtherCalls, OtherCounts DEF CallInv, CallsInv, CountInv
<1>6. CASE UNCHANGED vars
  <2> USE <1>6 DEF vars, driver, program, tracer, manager, tasks, CallInv
  <2>1. TypeOK'
    BY DEF TypeOK
  <2>2. CallsInv'
    BY CallsSame
  <2>3. PrimaryCalls'
    BY DEF PrimaryCalls, IsPrimaryOf
  <2>4. \A d \in Devices : Working(d)' = Working(d)
    BY DEF Working
  <2>5. Counts'
    BY <2>4 DEF Counts
  <2> QED
    BY <2>1, <2>2, <2>3, <2>5 DEF CallsInv
<1> QED
  BY <1>1, <1>2, <1>3, <1>4, <1>5, <1>6 DEF Next

\* Calls that end a context, a pair of events and the counts of a primary
\* context in the driver and in the tracer stay apart, whatever the threads do.
THEOREM CallsKept == Spec => []CallInv
BY InitCalls, NextCalls, PTL DEF Spec

\* Every variable keeps its type, and a pair that waits in _events is not in the
\* hands of a thread, whatever the program does and at any size.
THEOREM TypesKept == Spec => []TypeOK
<1>1. CallInv => TypeOK
  BY DEF CallInv
<1> QED
  BY <1>1, CallsKept, PTL

-----------------------------------------------------------------------------
(* Pairs stay in contexts that live. *)

\* A context stays in use unless t begins to end it.
LEMMA UseKept ==
  ASSUME NEW t \in Threads, NEW c \in Contexts, InUse(c),
         \A u \in Threads : u # t => call'[u] = call[u],
         Ending(t)' => call'[t].ctx # c,
         device'[c] = device[c],
         \/ UNCHANGED <<primary, held>>
         \/ \A d \in Devices : IsPrimaryOf(d, c)' => held'[d] > 0
  PROVE  InUse(c)'
<1>1. \A u \in Threads : Ending(u)' => call'[u].ctx # c
  BY DEF InUse, Ending
<1>2. \A d \in Devices : IsPrimaryOf(d, c)' => held'[d] > 0
  BY DEF InUse, IsPrimaryOf
<1> QED
  BY <1>1, <1>2 DEF InUse, Ending, IsPrimaryOf

\* What the program may use is in use.
LEMMA UsableInUse ==
  ASSUME CallInv, NEW c, Usable(c)
  PROVE  InUse(c)
<1>1. c \in Contexts /\ device[c] # None
  BY DEF Usable
<1>2. \A d \in Devices : IsPrimaryOf(d, c) => held[d] > 0
  <2> SUFFICES ASSUME NEW d \in Devices, IsPrimaryOf(d, c) PROVE held[d] > 0
    OBVIOUS
  <2>1. device[c] = d /\ IsPrimary(c)
    BY DEF CallInv, Counts, IsPrimaryOf, IsPrimary
  <2> QED
    BY <2>1 DEF Usable
<1>3. \A u \in Threads : Ending(u) => call[u].ctx # c
  BY EndingFacts
<1> QED
  BY <1>1, <1>2, <1>3 DEF InUse

\* A step that launches nothing keeps the pairs where they are, or collects some.
LEMMA PairsStep ==
  ASSUME CallInv, PairsInUse,
         \A p \in events' : p \in events /\ owner'[p] = owner[p] /\ launched'[p] = launched[p],
         \A u \in Threads : call'[u].op = "launch" =>
           /\ call[u].op = "launch" /\ call'[u].ctx = call[u].ctx /\ call'[u].pair = call[u].pair
           /\ launched'[call[u].pair] = launched[call[u].pair],
         \A c \in Contexts : InUse(c) =>
           ((\/ \E p \in events' : owner[p] = c
             \/ \E u \in Threads : call'[u].op = "launch" /\ call[u].ctx = c) =>
              InUse(c)' /\ device'[c] = device[c])
  PROVE  PairsInUse'
<1>1. ASSUME NEW p \in events'
      PROVE  InUse(owner[p])' /\ device'[owner'[p]] = launched'[p].dev
  <2>1. PICK c \in Contexts : c = owner[p] /\ InUse(c) /\ device[c] = launched[p].dev
    BY <1>1 DEF PairsInUse, InUse
  <2>2. InUse(c)' /\ device'[c] = device[c]
    BY <1>1, <2>1
  <2>3. owner'[p] = c /\ launched'[p] = launched[p]
    BY <1>1, <2>1
  <2> QED
    BY <2>1, <2>2, <2>3 DEF InUse, Ending, IsPrimaryOf
<1>2. ASSUME NEW u \in Threads, call'[u].op = "launch"
      PROVE  InUse(call[u].ctx)' /\ device'[call'[u].ctx] = launched'[call'[u].pair].dev
  <2>1. PICK c \in Contexts : c = call[u].ctx /\ InUse(c)
                              /\ device[c] = launched[call[u].pair].dev
    BY <1>2 DEF PairsInUse, InUse
  <2>2. InUse(c)' /\ device'[c] = device[c]
    BY <1>2, <2>1
  <2>3. call'[u].ctx = c /\ launched'[call'[u].pair] = launched[call[u].pair]
    BY <1>2, <2>1
  <2> QED
    BY <2>1, <2>2, <2>3 DEF InUse, Ending, IsPrimaryOf
<1> QED
  BY <1>1, <1>2 DEF PairsInUse

\* A launch, its record and its registration are in a context in use.
LEMMA CommandPairs ==
  ASSUME CallInv, PairsInUse, NEW t \in Threads, CommandStep(t)
  PROVE  PairsInUse'
<1> USE DEF CallInv
<1>a. UNCHANGED <<device, primary, held>>
  BY DEF CommandStep, Launch, Profile, Register, driver, program
<1>b. \A p \in events : p \in Pairs /\ \A u \in Threads : call[u].pair # p
  BY DEF TypeOK
<1>c. launched \in [Pairs -> Launches]
  BY DEF TypeOK
<1>1. ASSUME NEW n \in Names, NEW s \in Streams \union Implicit \union {None}, Launch(t, n, s)
      PROVE  PairsInUse'
  <2>1. PICK c \in Contexts : c = Target(t, s) /\ Usable(c)
    BY <1>1, CallTypes DEF Launch
  <2>2. InUse(c) /\ UNCHANGED <<events, owner>>
    BY <1>1, <2>1, UsableInUse DEF Launch, tracer
  <2>3. CASE UNCHANGED <<call, launched>>
    <3>1. \A x \in Contexts : InUse(x) => InUse(x)'
      BY <1>a, <2>3 DEF InUse, Ending, IsPrimaryOf
    <3> QED
      BY <1>a, <2>2, <2>3, <3>1, PairsStep
  <2>4. ASSUME NEW p \in FreePairs, NEW k,
               call' = [call EXCEPT ![t] = [op |-> "launch", at |-> "profile", ctx |-> c,
                                            pair |-> p]],
               launched' = [launched EXCEPT ![p] =
                 [cmd |-> k, dev |-> device[c], implicit |-> s \in Implicit]]
        PROVE  PairsInUse'
    <3>1. /\ call'[t].op = "launch" /\ call'[t].at = "profile" /\ call'[t].ctx = c
          /\ call'[t].pair = p /\ \A u \in Threads : u # t => call'[u] = call[u]
      BY <2>4, CallTypes
    <3>2. p \in Pairs /\ p \notin events /\ \A u \in Threads : call[u].pair # p
      BY DEF FreePairs
    <3>3. launched'[p].dev = device[c] /\ \A q \in Pairs : q # p => launched'[q] = launched[q]
      BY <1>c, <2>4, <3>2
    <3>4. \A x \in Contexts : InUse(x) => InUse(x)'
      BY <1>a, <3>1, UseKept DEF Ending
    <3>5. ASSUME NEW q \in events PROVE InUse(owner[q])' /\ device'[owner'[q]] = launched'[q].dev
      <4>1. PICK x \in Contexts : x = owner[q] /\ InUse(x) /\ device[x] = launched[q].dev
        BY <3>5 DEF PairsInUse, InUse
      <4>2. InUse(x)'
        BY <3>4, <4>1
      <4>3. owner'[q] = x /\ launched'[q] = launched[q]
        BY <1>b, <2>2, <3>2, <3>3, <3>5, <4>1
      <4> QED
        BY <1>a, <4>1, <4>2, <4>3 DEF InUse, Ending, IsPrimaryOf
    <3>6. ASSUME NEW u \in Threads, call'[u].op = "launch"
          PROVE  InUse(call[u].ctx)' /\ device'[call'[u].ctx] = launched'[call'[u].pair].dev
      <4>1. CASE u = t
        <5>1. InUse(c)' /\ call'[u].ctx = c /\ call'[u].pair = p
          BY <2>2, <3>1, <3>4, <4>1
        <5> QED
          BY <1>a, <3>3, <5>1 DEF InUse, Ending, IsPrimaryOf
      <4>2. CASE u # t
        <5>1. call'[u] = call[u] /\ call[u].op = "launch"
          BY <3>1, <3>6, <4>2
        <5>2. PICK x \in Contexts : x = call[u].ctx /\ InUse(x)
                                    /\ device[x] = launched[call[u].pair].dev
          BY <5>1 DEF PairsInUse, InUse
        <5>3. InUse(x)' /\ call'[u].ctx = x
          BY <3>4, <5>1, <5>2
        <5>4. launched'[call'[u].pair] = launched[call[u].pair]
          BY <3>2, <3>3, <5>1 DEF CallOk
        <5> QED
          BY <1>a, <5>2, <5>3, <5>4 DEF InUse, Ending, IsPrimaryOf
      <4> QED
        BY <4>1, <4>2
    <3> QED
      BY <2>2, <3>5, <3>6 DEF PairsInUse
  <2> QED
    BY <1>1, <2>1, <2>3, <2>4 DEF Launch
<1>2. CASE Profile(t)
  <2>1. /\ call[t].op = "launch" /\ call[t] \in CallRecords
        /\ call'[t] = [call[t] EXCEPT !.at = "register"]
        /\ \A u \in Threads : u # t => call'[u] = call[u]
        /\ UNCHANGED <<events, owner, launched>>
    BY <1>2, CallTypes DEF Profile, tracer, CallOk
  <2>2. /\ call'[t].at = "register" /\ call'[t].ctx = call[t].ctx
        /\ call'[t].pair = call[t].pair
    BY <2>1 DEF CallRecords
  <2>3. \A x \in Contexts : InUse(x) => InUse(x)'
    BY <1>a, <2>1, <2>2, UseKept DEF Ending
  <2> QED
    BY <1>a, <2>1, <2>2, <2>3, PairsStep
<1>3. CASE Register(t)
  <2>k. PICK p \in Pairs, c \in Contexts :
          /\ p = call[t].pair /\ c = call[t].ctx /\ InUse(c) /\ device[c] = launched[p].dev
          /\ call[t].op = "launch"
    BY <1>3 DEF Register, CallOk, PairsInUse, InUse
  <2>1. /\ events' = events \union {p} /\ owner' = [owner EXCEPT ![p] = c] /\ UNCHANGED launched
        /\ call'[t] = Idle /\ \A u \in Threads : u # t => call'[u] = call[u]
    BY <1>3, <2>k, CallTypes DEF Register
  <2>2. p \notin events /\ call'[t].op = "none" /\ call'[t].at = "none"
    BY <1>b, <2>k, <2>1 DEF Idle
  <2>3. \A x \in Contexts : InUse(x) => InUse(x)'
    BY <1>a, <2>1, <2>2, UseKept DEF Ending
  <2>4. owner'[p] = c /\ \A q \in events : owner'[q] = owner[q]
    BY <1>b, <2>1, <2>2 DEF TypeOK
  <2>5. ASSUME NEW q \in events' PROVE InUse(owner[q])' /\ device'[owner'[q]] = launched'[q].dev
    <3>1. PICK x \in Contexts : x = owner'[q] /\ InUse(x) /\ device[x] = launched[q].dev
      BY <2>k, <2>1, <2>4, <2>5 DEF PairsInUse, InUse
    <3>2. InUse(x)'
      BY <2>3, <3>1
    <3> QED
      BY <1>a, <2>1, <3>1, <3>2 DEF InUse, Ending, IsPrimaryOf
  <2>6. ASSUME NEW u \in Threads, call'[u].op = "launch"
        PROVE  InUse(call[u].ctx)' /\ device'[call'[u].ctx] = launched'[call'[u].pair].dev
    <3>1. call'[u] = call[u] /\ call[u].op = "launch"
      BY <2>1, <2>2, <2>6
    <3>2. PICK x \in Contexts : x = call[u].ctx /\ InUse(x)
                                /\ device[x] = launched[call[u].pair].dev
      BY <3>1 DEF PairsInUse, InUse
    <3>3. InUse(x)' /\ call'[u].ctx = x
      BY <2>3, <3>1, <3>2
    <3> QED
      BY <1>a, <2>1, <3>1, <3>2, <3>3 DEF InUse, Ending, IsPrimaryOf
  <2> QED
    BY <2>5, <2>6 DEF PairsInUse
<1> QED
  BY <1>1, <1>2, <1>3 DEF CommandStep

\* Contexts that come and go have no pairs.
LEMMA ContextPairs ==
  ASSUME CallInv, PairsInUse, NEW t \in Threads, ContextStep(t)
  PROVE  PairsInUse'
<1> USE DEF CallInv
<1>a. UNCHANGED <<primary, held, owner, launched>>
  BY DEF ContextStep, CtxCreate, CtxDestroy, CtxCreateExit, CtxDestroyDriver, CtxDestroyExit,
         driver, program, tracer
<1>b. device \in [Contexts -> Devices \union {None}]
  BY DEF TypeOK
<1>1. ASSUME NEW d \in Created, CtxCreate(t, d) PROVE PairsInUse'
  <2>1. PICK c \in Contexts :
          /\ device[c] = None /\ device' = [device EXCEPT ![c] = d]
          /\ call' = [call EXCEPT ![t] = [Idle EXCEPT !.op = "create", !.at = "exit", !.ctx = c]]
    BY <1>1 DEF CtxCreate, Fresh
  <2>2. /\ call'[t].op = "create" /\ UNCHANGED events
        /\ \A u \in Threads : u # t => call'[u] = call[u]
    BY <1>1, <2>1, CallTypes DEF CtxCreate, Idle, tracer
  <2>3. \A x \in Contexts : InUse(x) => device'[x] = device[x]
    BY <1>b, <2>1 DEF InUse
  <2>4. \A x \in Contexts : InUse(x) => InUse(x)'
    BY <1>a, <2>2, <2>3, UseKept DEF Ending
  <2> QED
    BY <1>a, <2>2, <2>3, <2>4, PairsStep
<1>2. ASSUME NEW c \in Contexts, CtxDestroy(t, c) PROVE PairsInUse'
  <2>1. /\ call'[t].op = "destroy" /\ call'[t].ctx = c
        /\ \A u \in Threads : u # t => call'[u] = call[u]
        /\ UNCHANGED device
    BY <1>2, CallTypes DEF CtxDestroy, Begin, Idle, driver
  <2>2. events' = events \ {p \in events : owner[p] = c}
    BY <1>2 DEF CtxDestroy, Collect
  <2>3. \A u \in Threads : call[u].op = "launch" => call[u].ctx # c
    BY <1>2 DEF CtxDestroy, Endable
  <2>4. \A x \in Contexts : InUse(x) => (x # c => InUse(x)')
    BY <1>a, <2>1, UseKept
  <2> QED
    BY <1>a, <2>1, <2>2, <2>3, <2>4, PairsStep
<1>3. CASE CtxCreateExit(t) \/ CtxDestroyExit(t)
  <2>1. /\ call'[t].op = "none"
        /\ \A u \in Threads : u # t => call'[u] = call[u]
        /\ UNCHANGED <<device, events>>
    BY <1>3, CallTypes DEF CtxCreateExit, CtxDestroyExit, Idle, driver, tracer
  <2>2. \A x \in Contexts : InUse(x) => InUse(x)'
    BY <1>a, <2>1, UseKept DEF Ending
  <2> QED
    BY <1>a, <2>1, <2>2, PairsStep
<1>4. CASE CtxDestroyDriver(t)
  <2>k. PICK c \in Contexts : call[t].ctx = c
    BY <1>4, CallTypes DEF CtxDestroyDriver, Reported, CallOk, CallRecords
  <2>1. /\ Ending(t) /\ call[t] \in CallRecords /\ call[t].op = "destroy" /\ UNCHANGED events
        /\ call' = [call EXCEPT ![t] = Idle] \/ call' = [call EXCEPT ![t].at = "exit"]
        /\ UNCHANGED device \/ Destroyed(c)
    BY <1>4, <2>k, CallTypes DEF CtxDestroyDriver, Reported, Ending, tracer
  <2>2. call'[t] = Idle \/ call'[t] = [call[t] EXCEPT !.at = "exit"]
    BY <2>1, CallTypes
  <2>3. call'[t].op # "launch" /\ ~Ending(t)' /\ \A u \in Threads : u # t => call'[u] = call[u]
    <3>1. call'[t].op # "launch" /\ call'[t].at # "results"
      BY <2>1, <2>2 DEF CallRecords, Idle
    <3> QED
      BY <2>1, <3>1, CallTypes DEF Ending
  <2>4. \A x \in Contexts : InUse(x) => device'[x] = device[x]
    BY <1>b, <2>1, <2>k DEF InUse, Destroyed
  <2>5. \A x \in Contexts : InUse(x) => InUse(x)'
    BY <1>a, <2>3, <2>4, UseKept
  <2> QED
    BY <1>a, <2>1, <2>3, <2>4, <2>5, PairsStep
<1> QED
  BY <1>1, <1>2, <1>3, <1>4 DEF ContextStep

\* Nor has a primary context whose last retain goes, or that is reset.
LEMMA PrimaryPairs ==
  ASSUME CallInv, PairsInUse, NEW t \in Threads, PrimaryStep(t)
  PROVE  PairsInUse'
<1> USE DEF CallInv
<1>a. UNCHANGED <<owner, launched>>
  BY DEF PrimaryStep, PrimaryRetain, PrimaryRelease, PrimaryReset, PrimaryRetainExit,
         PrimaryReleaseDriver, PrimaryResetDriver, tracer
<1>b. /\ device \in [Contexts -> Devices \union {None}] /\ Retained \subseteq Devices
      /\ primary \in [Devices -> Counted] /\ held \in [Devices -> 0 .. MaxRefs]
  BY CudaAssumption DEF TypeOK
<1>1. ASSUME NEW d \in Retained, PrimaryRetain(t, d) PROVE PairsInUse'
  <2>1. PICK c \in Contexts :
       /\ \/ /\ primary[d].refs > 0 /\ c = primary[d].ctx
             /\ primary' = [primary EXCEPT ![d].refs = @ + 1]
             /\ UNCHANGED device
          \/ /\ primary[d].refs = 0 /\ device[c] = None
             /\ primary' = [primary EXCEPT ![d] = [ctx |-> c, refs |-> 1]]
             /\ device' = [device EXCEPT ![c] = d]
       /\ call' = [call EXCEPT ![t] = [Idle EXCEPT !.op = "retain", !.at = "exit", !.ctx = c]]
    BY <1>1 DEF PrimaryRetain, Fresh
  <2>2. /\ call'[t].op = "retain" /\ UNCHANGED <<events, held>>
        /\ \A u \in Threads : u # t => call'[u] = call[u]
    BY <1>1, <2>1, CallTypes DEF PrimaryRetain, Idle, tracer, program
  <2>3. \A x \in Contexts : InUse(x) => device'[x] = device[x]
    BY <1>b, <2>1 DEF InUse
  <2>4. \A x \in Contexts : InUse(x) =>
          \A e \in Devices : IsPrimaryOf(e, x)' => IsPrimaryOf(e, x)
    <3>1. CASE /\ primary[d].refs > 0 /\ c = primary[d].ctx
               /\ primary' = [primary EXCEPT ![d].refs = @ + 1]
      <4>1. /\ primary'[d].ctx = primary[d].ctx
            /\ \A e \in Devices : e # d => primary'[e] = primary[e]
        BY <1>b, <3>1 DEF Counted
      <4> QED
        BY <3>1, <4>1 DEF IsPrimaryOf
    <3>2. CASE /\ primary[d].refs = 0 /\ device[c] = None
               /\ primary' = [primary EXCEPT ![d] = [ctx |-> c, refs |-> 1]]
      <4>1. primary'[d].ctx = c /\ \A e \in Devices : e # d => primary'[e] = primary[e]
        BY <1>b, <3>2
      <4> QED
        BY <3>2, <4>1 DEF IsPrimaryOf, InUse
    <3> QED
      BY <2>1, <3>1, <3>2
  <2>5. \A x \in Contexts : InUse(x) => \A e \in Devices : IsPrimaryOf(e, x)' => held'[e] > 0
    BY <2>2, <2>4 DEF InUse
  <2>6. \A x \in Contexts : InUse(x) => InUse(x)'
    BY <2>2, <2>3, <2>5, UseKept DEF Ending
  <2> QED
    BY <1>a, <2>2, <2>3, <2>6, PairsStep
<1>2. ASSUME NEW d \in Retained, PrimaryRelease(t, d) PROVE PairsInUse'
  <2>k. PICK c \in Contexts : c = primary[d].ctx
    BY <1>2, CallTypes DEF PrimaryRelease
  <2>1. /\ call'[t].op = "release" /\ UNCHANGED <<device, primary>>
        /\ \A u \in Threads : u # t => call'[u] = call[u]
        /\ held' = [held EXCEPT ![d] = @ - 1] /\ held[d] > 0
    BY <1>2, CallTypes DEF PrimaryRelease, Begin, Idle, driver
  <2>2. events' \subseteq events
    BY <1>2 DEF PrimaryRelease, Collect
  <2>3. held[d] = 1 => /\ \A p \in events' : owner[p] # c
                       /\ \A u \in Threads : call[u].op = "launch" => call[u].ctx # c
    <3> SUFFICES ASSUME held[d] = 1
                 PROVE  /\ \A p \in events' : owner[p] # c
                        /\ \A u \in Threads : call[u].op = "launch" => call[u].ctx # c
      OBVIOUS
    <3>1. primaries[d].refs = 1 /\ primaries[d].ctx = c
      BY <1>b, <2>k DEF Counts
    <3>2. Collect(t, c) /\ Endable(t, c)
      BY <1>2, <2>k, <3>1 DEF PrimaryRelease
    <3> QED
      BY <3>2 DEF Collect, Endable
  <2>4. \A x \in Contexts : InUse(x) => ((x = c => held[d] # 1) => InUse(x)')
    <3> SUFFICES ASSUME NEW x \in Contexts, InUse(x), x = c => held[d] # 1 PROVE InUse(x)'
      OBVIOUS
    <3>1. \A e \in Devices : IsPrimaryOf(e, x)' => IsPrimaryOf(e, x) /\ held[e] > 0
      BY <2>1 DEF IsPrimaryOf, InUse
    <3>2. \A e \in Devices : e # d => held'[e] = held[e]
      BY <1>b, <2>1
    <3>3. IsPrimaryOf(d, x)' => held'[d] > 0
      <4> SUFFICES ASSUME IsPrimaryOf(d, x)' PROVE held'[d] > 0
        OBVIOUS
      <4>1. x = c
        BY <2>1, <2>k DEF IsPrimaryOf
      <4>2. held[d] \in Nat /\ held'[d] = held[d] - 1 /\ held[d] # 0 /\ held[d] # 1
        BY <1>b, <2>1, <4>1, CudaAssumption
      <4> QED
        BY ONLY <4>2
    <3>4. \A e \in Devices : IsPrimaryOf(e, x)' => held'[e] > 0
      BY <3>1, <3>2, <3>3
    <3> QED
      BY <2>1, <3>4, UseKept DEF Ending
  <2> QED
    BY <1>a, <2>1, <2>2, <2>3, <2>4, PairsStep
<1>3. ASSUME NEW d \in Retained, PrimaryReset(t, d) PROVE PairsInUse'
  <2>k. PICK c \in Contexts : c = primary[d].ctx
    BY <1>3, CallTypes DEF PrimaryReset
  <2>1. /\ call'[t].op = "reset" /\ call'[t].ctx = c /\ UNCHANGED <<device, primary, held>>
        /\ \A u \in Threads : u # t => call'[u] = call[u]
        /\ \A u \in Threads : call[u].ctx # c
        /\ held[d] > 0
    BY <1>3, <2>k, CallTypes DEF PrimaryReset, Begin, Idle, driver, program
  <2>2. primaries[d].refs > 0 /\ primaries[d].ctx = c
    BY <1>b, <2>1, <2>k DEF Counts
  <2>3. events' = events \ {p \in events : owner[p] = c}
    BY <1>3, <2>2 DEF PrimaryReset, Collect
  <2>4. \A x \in Contexts : InUse(x) => (x # c => InUse(x)')
    BY <2>1, UseKept
  <2> QED
    BY <1>a, <2>1, <2>3, <2>4, PairsStep
<1>4. CASE PrimaryRetainExit(t)
  <2>k. PICK c \in Contexts, d \in Devices : c = call[t].ctx /\ d = device[c]
    BY <1>4, WorkingFacts DEF PrimaryRetainExit
  <2>1. /\ call'[t].op = "none" /\ UNCHANGED <<device, primary, events>>
        /\ \A u \in Threads : u # t => call'[u] = call[u]
        /\ held' = [held EXCEPT ![d] = @ + 1]
    BY <1>4, <2>k, CallTypes DEF PrimaryRetainExit, Idle, driver
  <2>2. \A e \in Devices : held[e] > 0 => held'[e] > 0
    BY <1>b, <2>1
  <2>3. \A x \in Contexts : InUse(x) => \A e \in Devices : IsPrimaryOf(e, x)' => held'[e] > 0
    BY <2>1, <2>2 DEF InUse, IsPrimaryOf
  <2>4. \A x \in Contexts : InUse(x) => InUse(x)'
    BY <2>1, <2>3, UseKept DEF Ending
  <2> QED
    BY <1>a, <2>1, <2>4, PairsStep
<1>5. CASE PrimaryReleaseDriver(t)
  <2>0. call[t].op = "release"
    BY <1>5 DEF PrimaryReleaseDriver, Reported
  <2>k. PICK c \in Contexts, d \in Devices :
        /\ c = call[t].ctx /\ d = device[c] /\ IsPrimaryOf(d, c)
        /\ primary[d].refs = 1 => held[d] = 0
    BY <2>0, WorkingFacts
  <2>1. /\ call'[t].op = "none" /\ UNCHANGED <<held, events>>
        /\ \A u \in Threads : u # t => call'[u] = call[u]
        /\ IF primary[d].refs = 1
           THEN primary' = [primary EXCEPT ![d] = NoPrimary] /\ Destroyed(c)
           ELSE primary' = [primary EXCEPT ![d].refs = @ - 1] /\ UNCHANGED device
    BY <1>5, <2>k, CallTypes DEF PrimaryReleaseDriver, Idle, program, tracer
  <2>2. primary[d].refs = 1 => ~InUse(c)
    BY <2>k DEF InUse
  <2>3. \A x \in Contexts : InUse(x) => device'[x] = device[x]
    BY <1>b, <2>1, <2>2 DEF Destroyed
  <2>4. \A e \in Devices : \A x : IsPrimaryOf(e, x)' => IsPrimaryOf(e, x)
    <3>1. primary'[d].refs = 0 \/ primary'[d].ctx = primary[d].ctx
      BY <1>b, <2>1 DEF NoPrimary, Counted
    <3>2. \A e \in Devices : e # d => primary'[e] = primary[e]
      BY <1>b, <2>1
    <3> QED
      BY <2>k, <3>1, <3>2 DEF IsPrimaryOf
  <2>5. \A x \in Contexts : InUse(x) => \A e \in Devices : IsPrimaryOf(e, x)' => held'[e] > 0
    BY <2>1, <2>4 DEF InUse
  <2>6. \A x \in Contexts : InUse(x) => InUse(x)'
    BY <2>1, <2>3, <2>5, UseKept DEF Ending
  <2> QED
    BY <1>a, <2>1, <2>3, <2>6, PairsStep
<1>6. CASE PrimaryResetDriver(t)
  <2>1. /\ call'[t].op = "none" /\ UNCHANGED <<device, primary, held, events>>
        /\ \A u \in Threads : u # t => call'[u] = call[u]
    BY <1>6, CallTypes DEF PrimaryResetDriver, Idle, tracer, program
  <2>2. \A x \in Contexts : InUse(x) => InUse(x)'
    BY <2>1, UseKept DEF Ending
  <2> QED
    BY <1>a, <2>1, <2>2, PairsStep
<1> QED
  BY <1>1, <1>2, <1>3, <1>4, <1>5, <1>6 DEF PrimaryStep

\* Stacks, streams, results and the exit leave the pairs where they are.
LEMMA OtherPairs ==
  ASSUME CallInv, PairsInUse, NEW t \in Threads, StackStep(t) \/ Result(t) \/ Exit(t)
  PROVE  PairsInUse'
<1> USE DEF CallInv
<1>a. UNCHANGED <<device, primary, held>>
  BY DEF StackStep, CtxSetCurrent, CtxPushCurrent, CtxPopCurrent, StreamCreate, Result, Exit,
         driver, program
<1>1. CASE StackStep(t) \/ Result(t)
  <2>1. UNCHANGED <<call, events>>
    BY <1>1 DEF StackStep, CtxSetCurrent, CtxPushCurrent, CtxPopCurrent, StreamCreate, Result,
                tracer
  <2>2. \A x \in Contexts : InUse(x) => InUse(x)'
    BY <1>a, <2>1 DEF InUse, Ending, IsPrimaryOf
  <2>3. /\ \A p \in events : owner'[p] = owner[p] /\ launched'[p] = launched[p]
        /\ \A u \in Threads : call[u].op = "launch" =>
             launched'[call[u].pair] = launched[call[u].pair]
    <3>1. CASE StackStep(t)
      BY <3>1 DEF StackStep, CtxSetCurrent, CtxPushCurrent, CtxPopCurrent, StreamCreate, tracer
    <3>2. CASE Result(t)
      <4>1. PICK p \in evs[t] :
              /\ owner' = [owner EXCEPT ![p] = None]
              /\ launched' = [launched EXCEPT ![p] = NoLaunch]
        BY <3>2 DEF Result
      <4>2. p \notin events /\ \A u \in Threads : call[u].pair # p
        BY DEF TypeOK, PairsApart
      <4>3. /\ owner \in [Pairs -> Contexts \union {None}] /\ events \subseteq Pairs
            /\ launched \in [Pairs -> Launches]
        BY DEF TypeOK
      <4>4. \A u \in Threads : call[u].op = "launch" => call[u].pair \in Pairs
        BY DEF CallOk
      <4> QED
        BY <4>1, <4>2, <4>3, <4>4
    <3> QED
      BY <1>1, <3>1, <3>2
  <2> QED
    BY <1>a, <2>1, <2>2, <2>3, PairsStep
<1>2. CASE Exit(t)
  <2>1. events' = {} /\ \A u \in Threads : call[u].op = "none"
    BY <1>2 DEF Exit, Ready, Idle
  <2>2. call'[t].op = "exit" /\ \A u \in Threads : u # t => call'[u] = call[u]
    BY <1>2, CallTypes DEF Exit, Begin, Idle
  <2> QED
    BY <2>1, <2>2, PairsStep
<1> QED
  BY <1>1, <1>2

\* A pair that waits to be reported, or is about to, is in a context that the
\* program has and that no call is ending, whatever the threads do.
THEOREM PairsStayInUse == Spec => [](CallInv /\ PairsInUse)
<1>1. Init => PairsInUse
  BY DEF Init, PairsInUse, Idle
<1>2. CallInv /\ PairsInUse /\ [Next]_vars => PairsInUse'
  <2> SUFFICES ASSUME CallInv, PairsInUse, [Next]_vars PROVE PairsInUse'
    OBVIOUS
  <2>1. CASE UNCHANGED vars
    BY <2>1 DEF vars, driver, program, tracer, PairsInUse, InUse, Ending, IsPrimaryOf
  <2> QED
    BY <2>1, CommandPairs, ContextPairs, PrimaryPairs, OtherPairs DEF Next
<1> QED
  BY <1>1, <1>2, InitCalls, NextCalls, PTL DEF Spec

\* No context is destroyed, released or reset with pairs of it in _events.
THEOREM NoPairIsOrphaned == Spec => []EventsInLiveContexts
<1>1. CallInv /\ PairsInUse => EventsInLiveContexts
  <2> SUFFICES ASSUME CallInv, PairsInUse, NEW p \in events
               PROVE  /\ device[owner[p]] = launched[p].dev
                      /\ \A t \in Threads : Reported(t, "destroy") \/ Reported(t, "reset")
                                            => owner[p] # call[t].ctx
    BY DEF EventsInLiveContexts
  <2>1. \A t \in Threads : Reported(t, "destroy") \/ Reported(t, "reset") => Ending(t)
    BY DEF Reported, Ending
  <2> QED
    BY <2>1 DEF PairsInUse, InUse
<1> QED
  BY <1>1, PairsStayInUse, PTL

-----------------------------------------------------------------------------
(* Pairs stand for the commands they timed. *)

\* What is neither a command nor a result launches nothing, and moves pairs only
\* from _events to its thread.
LEMMA OtherMoves ==
  ASSUME CallInv, NEW t \in Threads,
         ContextStep(t) \/ PrimaryStep(t) \/ StackStep(t) \/ Exit(t)
  PROVE  /\ UNCHANGED <<timed, launched, tasks>>
         /\ \A u \in Threads : u # t => call'[u] = call[u]
         /\ call'[t] = call[t] \/ call'[t].op # "launch"
         /\ \A u \in Threads : events' \union evs'[u] \subseteq events \union evs[u]
<1> USE DEF CallInv
<1>1. UNCHANGED <<timed, launched, tasks>>
  BY DEF ContextStep, CtxCreate, CtxDestroy, CtxCreateExit, CtxDestroyDriver, CtxDestroyExit,
         PrimaryStep, PrimaryRetain, PrimaryRelease, PrimaryReset, PrimaryRetainExit,
         PrimaryReleaseDriver, PrimaryResetDriver, Exit,
         StackStep, CtxSetCurrent, CtxPushCurrent, CtxPopCurrent, StreamCreate
<1>2. /\ \A u \in Threads : u # t => call'[u] = call[u]
      /\ call'[t] = call[t] \/ call'[t].op # "launch"
  <2>1. CASE ContextStep(t)
    <3>1. ASSUME NEW d \in Created, CtxCreate(t, d)
          PROVE  (\A u \in Threads : u # t => call'[u] = call[u]) /\ call'[t].op = "create"
      BY <3>1, CallTypes DEF CtxCreate, Idle
    <3>2. ASSUME NEW c \in Contexts, CtxDestroy(t, c)
          PROVE  (\A u \in Threads : u # t => call'[u] = call[u]) /\ call'[t].op = "destroy"
      BY <3>2, CallTypes DEF CtxDestroy, Begin, Idle
    <3>3. ASSUME CtxCreateExit(t) \/ CtxDestroyExit(t)
          PROVE  (\A u \in Threads : u # t => call'[u] = call[u]) /\ call'[t].op = "none"
      BY <3>3, CallTypes DEF CtxCreateExit, CtxDestroyExit, Idle
    <3>4. ASSUME CtxDestroyDriver(t)
          PROVE  (\A u \in Threads : u # t => call'[u] = call[u]) /\ call'[t].op # "launch"
      <4>1. /\ call' = [call EXCEPT ![t] = Idle] \/ call' = [call EXCEPT ![t].at = "exit"]
            /\ call[t].op = "destroy" /\ call[t] \in CallRecords
        BY <3>4, CallTypes DEF CtxDestroyDriver, Reported
      <4>2. call'[t] = Idle \/ call'[t] = [call[t] EXCEPT !.at = "exit"]
        BY <4>1, CallTypes
      <4>3. call'[t].op # "launch"
        BY <4>1, <4>2 DEF CallRecords, Idle
      <4> QED
        BY <4>1, <4>3, CallTypes
    <3> QED
      BY <2>1, <3>1, <3>2, <3>3, <3>4 DEF ContextStep
  <2>2. CASE PrimaryStep(t)
    <3>1. ASSUME NEW d \in Retained, PrimaryRetain(t, d)
          PROVE  (\A u \in Threads : u # t => call'[u] = call[u]) /\ call'[t].op = "retain"
      BY <3>1, CallTypes DEF PrimaryRetain, Idle
    <3>2. ASSUME NEW d \in Retained, PrimaryRelease(t, d)
          PROVE  (\A u \in Threads : u # t => call'[u] = call[u]) /\ call'[t].op = "release"
      BY <3>2, CallTypes DEF PrimaryRelease, Begin, Idle
    <3>3. ASSUME NEW d \in Retained, PrimaryReset(t, d)
          PROVE  (\A u \in Threads : u # t => call'[u] = call[u]) /\ call'[t].op = "reset"
      BY <3>3, CallTypes DEF PrimaryReset, Begin, Idle
    <3>4. ASSUME PrimaryRetainExit(t) \/ PrimaryReleaseDriver(t) \/ PrimaryResetDriver(t)
          PROVE  (\A u \in Threads : u # t => call'[u] = call[u]) /\ call'[t].op = "none"
      BY <3>4, CallTypes DEF PrimaryRetainExit, PrimaryReleaseDriver, PrimaryResetDriver, Idle
    <3> QED
      BY <2>2, <3>1, <3>2, <3>3, <3>4 DEF PrimaryStep
  <2>3. CASE StackStep(t)
    BY <2>3 DEF StackStep, CtxSetCurrent, CtxPushCurrent, CtxPopCurrent, StreamCreate
  <2>4. CASE Exit(t)
    BY <2>4, CallTypes DEF Exit, Begin, Idle
  <2> QED
    BY <2>1, <2>2, <2>3, <2>4
<1>3. \A u \in Threads : events' \union evs'[u] \subseteq events \union evs[u]
  <2>1. ASSUME UNCHANGED <<events, evs>>
        PROVE  \A u \in Threads : events' \union evs'[u] \subseteq events \union evs[u]
    BY <2>1
  <2>2. ASSUME NEW c, Collect(t, c), Ready(t)
        PROVE  \A u \in Threads : events' \union evs'[u] \subseteq events \union evs[u]
    BY <2>2, CallTypes, CollectFacts
  <2>3. CASE Exit(t)
    <3>1. evs' = [evs EXCEPT ![t] = events] /\ events' = {}
          /\ evs \in [Threads -> SUBSET Pairs]
      BY <2>3 DEF Exit, TypeOK
    <3> QED
      BY <3>1
  <2>4. CASE ContextStep(t)
    BY <2>1, <2>2, <2>4 DEF ContextStep, CtxCreate, CtxDestroy, CtxCreateExit, CtxDestroyDriver,
                            CtxDestroyExit, tracer
  <2>5. CASE PrimaryStep(t)
    BY <2>1, <2>2, <2>5 DEF PrimaryStep, PrimaryRetain, PrimaryRelease, PrimaryReset,
                            PrimaryRetainExit, PrimaryReleaseDriver, PrimaryResetDriver, tracer
  <2>6. CASE StackStep(t)
    BY <2>1, <2>6 DEF StackStep, CtxSetCurrent, CtxPushCurrent, CtxPopCurrent, StreamCreate,
                      tracer
  <2> QED
    BY <2>3, <2>4, <2>5, <2>6
<1> QED
  BY <1>1, <1>2, <1>3

\* Commands keep the name of each pair, if the plugin knows them all.
LEMMA CommandNames ==
  ASSUME Names \subseteq Tasks, CallInv, PairsNamed, NEW t \in Threads, CommandStep(t)
  PROVE  PairsNamed'
<1> USE DEF CallInv
<1>a. /\ launched \in [Pairs -> Launches]
      /\ timed \in [Pairs -> Commands] /\ profiled \in [Threads -> Commands]
      /\ \A p \in events : p \in Pairs /\ \A u \in Threads : call[u].pair # p
      /\ \A u \in Threads : evs[u] \subseteq Pairs
  BY DEF TypeOK
<1>b. \A u \in Threads : call[u].at \in {"profile", "register"} => call[u].pair \in Pairs
  BY DEF CallOk
<1>c. \A u \in Threads : \A v \in Threads : call[u].pair \notin evs[v]
  BY DEF PairsApart
<1>1. ASSUME NEW n \in Names, NEW s \in Streams \union Implicit \union {None}, Launch(t, n, s)
      PROVE  PairsNamed'
  <2>1. PICK cmd : cmd = [name |-> n, ts |-> launches + 1]
    OBVIOUS
  <2>2. profiled' = [profiled EXCEPT ![t] = cmd]
    <3>1. TaskEntry(t, cmd, s) /\ cmd.name \in Tasks
      BY <1>1, <2>1 DEF Launch
    <3> QED
      BY <3>1 DEF TaskEntry
  <2>3. call[t].at = "none" /\ UNCHANGED <<events, evs, timed>>
    BY <1>1, CallTypes DEF Launch, tracer
  <2>4. CASE UNCHANGED <<call, launched>>
    BY <1>a, <2>2, <2>3, <2>4 DEF PairsNamed, NamesFaithful, Pending
  <2>5. ASSUME NEW c, NEW e, NEW p \in FreePairs,
               call' = [call EXCEPT ![t] = [op |-> "launch", at |-> "profile", ctx |-> c,
                                            pair |-> p]],
               launched' = [launched EXCEPT ![p] =
                 [cmd |-> cmd, dev |-> e, implicit |-> s \in Implicit]]
        PROVE  PairsNamed'
    <3>1. /\ call'[t].at = "profile" /\ call'[t].pair = p
          /\ \A u \in Threads : u # t => call'[u] = call[u]
      BY <2>5, CallTypes
    <3>2. p \in Pairs /\ p \notin events /\ \A u \in Threads : call[u].pair # p /\ p \notin evs[u]
      BY DEF FreePairs
    <3>3. launched'[p].cmd = cmd /\ \A q \in Pairs : q # p => launched'[q] = launched[q]
      BY <1>a, <2>5, <3>2
    <3>4. profiled'[t] = cmd /\ \A u \in Threads : u # t => profiled'[u] = profiled[u]
      BY <1>a, <2>2
    <3>5. ASSUME NEW u \in Threads
          PROVE  /\ call'[u].at = "profile" => profiled'[u] = launched'[call'[u].pair].cmd
                 /\ call'[u].at = "register" => timed'[call'[u].pair] = launched'[call'[u].pair].cmd
      <4>1. CASE u = t
        BY <3>1, <3>3, <3>4, <4>1
      <4>2. CASE u # t
        BY <1>b, <2>3, <3>1, <3>2, <3>3, <3>4, <4>2 DEF PairsNamed
      <4> QED
        BY <4>1, <4>2
    <3>6. NamesFaithful'
      BY <1>a, <2>3, <3>2, <3>3 DEF PairsNamed, NamesFaithful, Pending
    <3> QED
      BY <3>5, <3>6 DEF PairsNamed
  <2> QED
    BY <1>1, <2>1, <2>4, <2>5 DEF Launch
<1>2. CASE Profile(t)
  <2>k. PICK p \in Pairs : p = call[t].pair
    BY <1>2, <1>b DEF Profile
  <2>1. /\ call[t].at = "profile" /\ call[t] \in CallRecords
        /\ call'[t] = [call[t] EXCEPT !.at = "register"]
        /\ \A u \in Threads : u # t => call'[u] = call[u]
        /\ timed' = [timed EXCEPT ![p] = profiled[t]]
        /\ UNCHANGED <<events, evs, launched, profiled>>
    BY <1>2, <2>k, CallTypes DEF Profile, tracer, tasks
  <2>2. call'[t].at = "register" /\ call'[t].pair = p
    BY <2>1, <2>k DEF CallRecords
  <2>3. /\ timed'[p] = launched[p].cmd /\ \A q \in Pairs : q # p => timed'[q] = timed[q]
    BY <1>a, <2>1, <2>k DEF PairsNamed
  <2>4. p # None
    BY CudaAssumption
  <2>5. \A u \in Threads : u # t => call[u].pair # p
    BY <2>4, <2>k DEF PairsApart
  <2>6. NamesFaithful'
    BY <1>a, <1>c, <2>k, <2>1, <2>3 DEF PairsNamed, NamesFaithful, Pending
  <2>7. ASSUME NEW u \in Threads
        PROVE  /\ call'[u].at = "profile" => profiled'[u] = launched'[call'[u].pair].cmd
               /\ call'[u].at = "register" => timed'[call'[u].pair] = launched'[call'[u].pair].cmd
    <3>1. CASE u = t
      BY <2>1, <2>2, <2>3, <3>1
    <3>2. CASE u # t
      <4>1. call'[u] = call[u] /\ call[u].pair # p /\ profiled'[u] = profiled[u]
        BY <2>1, <2>5, <3>2
      <4>2. call[u].at = "register" => timed'[call[u].pair] = timed[call[u].pair]
        BY <1>b, <2>3, <4>1
      <4> QED
        BY <2>1, <4>1, <4>2 DEF PairsNamed
    <3> QED
      BY <3>1, <3>2
  <2> QED
    BY <2>6, <2>7 DEF PairsNamed
<1>3. CASE Register(t)
  <2>1. /\ events' = events \union {call[t].pair} /\ call[t].at = "register"
        /\ call'[t] = Idle /\ \A u \in Threads : u # t => call'[u] = call[u]
        /\ UNCHANGED <<evs, launched, profiled, timed>>
    BY <1>3, CallTypes DEF Register, tasks
  <2>2. call'[t].at = "none"
    BY <2>1 DEF Idle
  <2> QED
    BY <2>1, <2>2 DEF PairsNamed, NamesFaithful, Pending
<1> QED
  BY <1>1, <1>2, <1>3 DEF CommandStep

\* So does everything else: a pair loses its command when it is reported.
LEMMA OtherNames ==
  ASSUME CallInv, PairsNamed, NEW t \in Threads,
         ContextStep(t) \/ PrimaryStep(t) \/ StackStep(t) \/ Exit(t) \/ Result(t)
  PROVE  PairsNamed'
<1> USE DEF CallInv
<1>1. CASE ContextStep(t) \/ PrimaryStep(t) \/ StackStep(t) \/ Exit(t)
  <2>1. /\ UNCHANGED <<timed, launched, profiled>>
        /\ \A u \in Threads : u # t => call'[u] = call[u]
        /\ call'[t] = call[t] \/ call'[t].op # "launch"
        /\ \A u \in Threads : events' \union evs'[u] \subseteq events \union evs[u]
    BY <1>1, OtherMoves DEF tasks
  <2>2. \A u \in Threads : CallOk(u)'
    BY <1>1, ContextCalls, PrimaryStepCalls, OtherCalls DEF CallsInv
  <2>3. \A u \in Threads : call'[u].at \in {"profile", "register"} => call'[u] = call[u]
    BY <2>1, <2>2 DEF CallOk
  <2> QED
    BY <2>1, <2>3 DEF PairsNamed, NamesFaithful, Pending
<1>2. CASE Result(t)
  <2>1. PICK p \in evs[t] :
          /\ evs' = [evs EXCEPT ![t] = @ \ {p}]
          /\ launched' = [launched EXCEPT ![p] = NoLaunch]
    BY <1>2 DEF Result
  <2>2. p \notin events /\ \A u \in Threads : call[u].pair # p /\ (u # t => p \notin evs[u])
    BY DEF TypeOK, PairsApart
  <2>3. /\ evs \in [Threads -> SUBSET Pairs] /\ events \subseteq Pairs
        /\ launched \in [Pairs -> Launches]
        /\ \A u \in Threads : call[u].at \in {"profile", "register"} => call[u].pair \in Pairs
    BY DEF TypeOK, CallOk
  <2>4. UNCHANGED <<call, timed, profiled, events>>
    BY <1>2 DEF Result, tasks
  <2>5. \A q \in Pairs : q # p => launched'[q] = launched[q]
    BY <2>1, <2>3
  <2>6. \A u \in Threads : evs'[u] \subseteq evs[u] /\ p \notin evs'[u]
    BY <2>1, <2>2, <2>3
  <2> QED
    BY <2>2, <2>3, <2>4, <2>5, <2>6 DEF PairsNamed, NamesFaithful, Pending
<1> QED
  BY <1>1, <1>2

\* If every command that the tracer profiles is a task for the plugin, each pair
\* is reported under the command that it timed, however the threads interleave.
THEOREM NamesStayFaithful == Names \subseteq Tasks => (Spec => []NamesFaithful)
<1> SUFFICES ASSUME Names \subseteq Tasks PROVE Spec => []NamesFaithful
  OBVIOUS
<1>1. Init => PairsNamed
  BY DEF Init, PairsNamed, NamesFaithful, Pending, Idle
<1>2. CallInv /\ PairsNamed /\ [Next]_vars => PairsNamed'
  <2> SUFFICES ASSUME CallInv, PairsNamed, [Next]_vars PROVE PairsNamed'
    OBVIOUS
  <2>1. CASE UNCHANGED vars
    BY <2>1 DEF vars, tracer, tasks, PairsNamed, NamesFaithful, Pending
  <2> QED
    BY <2>1, CommandNames, OtherNames DEF Next
<1>3. PairsNamed => NamesFaithful
  BY DEF PairsNamed
<1> QED
  BY <1>1, <1>2, <1>3, InitCalls, NextCalls, PTL DEF Spec

-----------------------------------------------------------------------------
(* The plugin knows what the driver does. *)

\* A context that is known after a step was known before, or t has made it so.
LEMMA KnownKept ==
  ASSUME NEW t \in Threads, NEW c \in Contexts, Known(c)',
         \A u \in Threads : u # t => call'[u] = call[u],
         call[t].op = "create" => call[t].ctx # c,
         device'[c] # None => device'[c] = device[c],
         \A d \in Devices : IsPrimaryOf(d, c) =>
           IsPrimaryOf(d, c)' /\ (held'[d] > 0 => held[d] > 0)
  PROVE  Known(c) /\ device'[c] = device[c]
<1>1. device'[c] = device[c] /\ device[c] # None
  BY DEF Known
<1>2. \A u \in Threads : call[u].ctx = c => call[u].op # "create"
  BY DEF Known
<1>3. \A d \in Devices : IsPrimaryOf(d, c) => held[d] > 0
  BY DEF Known, IsPrimaryOf
<1> QED
  BY <1>1, <1>2, <1>3 DEF Known

\* What a step that launches nothing must do.
LEMMA ManagerStep ==
  ASSUME CallInv, ManagerInv, NEW t \in Threads, UNCHANGED nameDevice,
         \A u \in Threads : u # t => /\ call'[u] = call[u]
                                     /\ stack'[u] = stack[u] /\ ctxStack'[u] = ctxStack[u],
         call'[t].op = "launch" => call[t].op = "launch" /\ call'[t].pair = call[t].pair,
         \A u \in Threads : call[u].op = "launch" =>
           launched'[call[u].pair] = launched[call[u].pair],
         StackOk(t)',
         \A s \in Streams : streamCtx'[s] # None => streamToCtx'[s] = streamCtx'[s],
         \A c \in Contexts : Known(c)' =>
           \/ Known(c) /\ ctxDevice'[c] = ctxDevice[c] /\ device'[c] = device[c]
           \/ ctxDevice'[c] = device'[c],
         \A u \in Threads : u # t => (call[u].op = "destroy" /\ call[u].at = "exit" =>
           device'[call[u].ctx] = None),
         call'[t].op = "destroy" /\ call'[t].at = "exit" => device'[call'[t].ctx] = None
  PROVE  ManagerInv'
<1>1. \A u \in Threads : StackOk(u)'
  BY DEF ManagerInv, StackOk
<1>2. \A c \in Contexts : Known(c)' => ctxDevice'[c] = device'[c]
  BY DEF ManagerInv
<1>3. \A u \in Threads : call'[u].op = "destroy" /\ call'[u].at = "exit" =>
        device'[call'[u].ctx] = None
  OBVIOUS
<1>4. \A u \in Threads : call'[u].op = "launch" =>
        call[u].op = "launch" /\ call'[u].pair = call[u].pair
        /\ launched'[call[u].pair] = launched[call[u].pair]
  OBVIOUS
<1>5. \A u \in Threads : call'[u].op = "launch" => launched'[call'[u].pair].cmd.name \in Names
  BY <1>4 DEF ManagerInv
<1>6. LaunchedOnDevice'
  BY <1>4 DEF ManagerInv, LaunchedOnDevice
<1> QED
  BY <1>1, <1>2, <1>3, <1>5, <1>6 DEF ManagerInv

\* The plugin finds the device that a command is launched on.
LEMMA LaunchManager ==
  ASSUME Names \subseteq Tasks, CallInv, ManagerInv, NEW t \in Threads,
         NEW n \in Names, NEW s \in Streams \union Implicit \union {None}, Launch(t, n, s)
  PROVE  ManagerInv'
<1> USE DEF CallInv
<1>1. PICK c \in Contexts, d \in Devices : c = Target(t, s) /\ Usable(c) /\ d = device[c]
  BY CallTypes DEF Launch
<1>2. call[t].op = "none" /\ stack[t] = ctxStack[t]
  <2>1. call[t].op = "none"
    BY CallTypes DEF Launch
  <2> QED
    BY <2>1 DEF ManagerInv, StackOk
<1>3. ctxDevice[c] = d
  <2>1. InUse(c)
    BY <1>1, UsableInUse
  <2>2. Known(c)
    BY <1>1, <2>1 DEF Usable, Known, InUse
  <2> QED
    BY <1>1, <2>2 DEF ManagerInv
<1>4. ASSUME s \notin Implicit PROVE GetStreamDevice(t, s) = d
  <2>1. c # None /\ None \notin Streams
    BY CudaAssumption
  <2>2. CASE s = None
    BY <1>1, <1>2, <1>3, <2>1, <2>2 DEF GetStreamDevice, DeviceOf, Target
  <2>3. CASE s \in Streams
    <3>1. streamCtx[s] = c
      BY <1>1, <2>1, <2>3 DEF Target
    <3>2. streamToCtx[s] = c
      BY <2>1, <2>3, <3>1 DEF ManagerInv
    <3> QED
      BY <1>3, <2>1, <2>3, <3>2 DEF GetStreamDevice, DeviceOf
  <2> QED
    BY <1>4, <2>2, <2>3
<1>5. /\ s \notin Implicit => nameDevice'[t][n] = d
      /\ \A u \in Threads : u # t => nameDevice'[u] = nameDevice[u]
  <2>1. nameDevice' = [nameDevice EXCEPT ![t][n] = GetStreamDevice(t, s)]
    <3>1. PICK cmd : cmd = [name |-> n, ts |-> launches + 1]
      OBVIOUS
    <3>2. cmd.name = n /\ cmd.name \in Tasks /\ TaskEntry(t, cmd, s)
      BY <3>1 DEF Launch
    <3>3. nameDevice' = [nameDevice EXCEPT ![t][cmd.name] = GetStreamDevice(t, s)]
      BY <3>2 DEF TaskEntry
    <3> QED
      BY <3>2, <3>3
  <2>2. nameDevice' = [nameDevice EXCEPT ![t] = [@ EXCEPT ![n] = GetStreamDevice(t, s)]]
    BY <2>1
  <2>3. nameDevice \in [Threads -> [Names -> Devices \union {None}]]
    BY DEF TypeOK
  <2> HIDE DEF GetStreamDevice
  <2> QED
    BY <1>4, <2>2, <2>3
<1>6. UNCHANGED <<device, stack, streamCtx, primary, held, ctxStack, ctxDevice, streamToCtx>>
  BY DEF Launch, driver, manager
<1>7. /\ \A u \in Threads : u # t => call'[u] = call[u]
      /\ \/ call'[t].op = "none" /\ UNCHANGED launched
         \/ \E p \in FreePairs, k \in {[name |-> n, ts |-> launches + 1]} :
              /\ call'[t].op = "launch" /\ call'[t].pair = p
              /\ launched' = [launched EXCEPT ![p] =
                   [cmd |-> k, dev |-> d, implicit |-> s \in Implicit]]
  BY <1>1, <1>2, CallTypes DEF Launch
<1>8. \A u \in Threads : StackOk(u)'
  BY <1>2, <1>6, <1>7 DEF ManagerInv, StackOk
<1>9. \A x \in Contexts : Known(x)' => Known(x)
  BY <1>2, <1>6, <1>7 DEF Known, IsPrimaryOf
<1>10. /\ \A x : streamCtx'[x] = streamCtx[x] /\ streamToCtx'[x] = streamToCtx[x]
       /\ \A x : ctxDevice'[x] = ctxDevice[x] /\ device'[x] = device[x]
  BY <1>6
<1>11. \A u \in Threads : call'[u].op = "destroy" /\ call'[u].at = "exit" =>
         device'[call'[u].ctx] = None
  BY <1>7, <1>10 DEF ManagerInv
<1>12. ASSUME NEW u \in Threads, call'[u].op = "launch"
       PROVE  /\ launched'[call'[u].pair].cmd.name \in Names
              /\ ~launched'[call'[u].pair].implicit =>
                   nameDevice'[u][launched'[call'[u].pair].cmd.name]
                     = launched'[call'[u].pair].dev
  <2>1. launched \in [Pairs -> Launches]
    BY DEF TypeOK
  <2>2. CASE u = t
    <3>1. PICK p \in FreePairs, k \in {[name |-> n, ts |-> launches + 1]} :
            /\ call'[t].pair = p
            /\ launched' = [launched EXCEPT ![p] =
                   [cmd |-> k, dev |-> d, implicit |-> s \in Implicit]]
      BY <1>7, <1>12, <2>2
    <3>2. /\ launched'[p].cmd = k /\ launched'[p].dev = d /\ k.name = n
          /\ launched'[p].implicit = (s \in Implicit)
      BY <2>1, <3>1 DEF FreePairs
    <3> QED
      BY <1>5, <2>2, <3>1, <3>2
  <2>3. CASE u # t
    <3>1. call'[u] = call[u] /\ call[u].pair \in Pairs /\ call[u].op = "launch"
      BY <1>7, <1>12, <2>3 DEF CallOk
    <3>2. launched'[call[u].pair] = launched[call[u].pair]
      <4>1. \A p \in FreePairs : p # call[u].pair
        BY DEF FreePairs
      <4> QED
        BY <1>7, <2>1, <3>1, <4>1
    <3> QED
      BY <1>5, <2>3, <3>1, <3>2 DEF ManagerInv, LaunchedOnDevice
  <2> QED
    BY <2>2, <2>3
<1>13. \A x \in Contexts : Known(x)' => ctxDevice'[x] = device'[x]
  BY <1>9, <1>10 DEF ManagerInv
<1>14. \A x \in Streams : streamCtx'[x] # None => streamToCtx'[x] = streamCtx'[x]
  BY <1>10 DEF ManagerInv
<1> QED
  BY <1>8, <1>11, <1>12, <1>13, <1>14 DEF ManagerInv, LaunchedOnDevice

\* The record of a pair, its registration, results and the exit tell the plugin
\* nothing about contexts.
LEMMA PairManager ==
  ASSUME CallInv, ManagerInv, NEW t \in Threads,
         Profile(t) \/ Register(t) \/ Result(t) \/ Exit(t)
  PROVE  ManagerInv'
<1> USE DEF CallInv
<1>1. UNCHANGED <<device, stack, streamCtx, primary, held, ctxStack, ctxDevice, streamToCtx,
                  nameDevice>>
  BY DEF Profile, Register, Result, Exit, driver, program, manager, tasks
<1>2. /\ \A u \in Threads : u # t => call'[u] = call[u]
      /\ \/ call'[t] = call[t]
         \/ /\ call[t].op = "launch" /\ call'[t].op = "launch" /\ call'[t].pair = call[t].pair
         \/ call[t].op \in {"none", "launch"} /\ call'[t].op \in {"none", "exit"}
  <2>1. CASE Profile(t)
    <3>1. /\ call[t].op = "launch" /\ call[t] \in CallRecords
          /\ call'[t] = [call[t] EXCEPT !.at = "register"]
          /\ \A u \in Threads : u # t => call'[u] = call[u]
      BY <2>1, CallTypes DEF Profile, CallOk
    <3>2. call'[t].op = "launch" /\ call'[t].pair = call[t].pair
      BY <3>1 DEF CallRecords
    <3> QED
      BY <3>1, <3>2
  <2>2. CASE Register(t)
    BY <2>2, CallTypes DEF Register, CallOk, Idle
  <2>3. CASE Result(t)
    BY <2>3 DEF Result
  <2>4. CASE Exit(t)
    BY <2>4, CallTypes DEF Exit, Ready, Begin, Idle
  <2> QED
    BY <2>1, <2>2, <2>3, <2>4
<1>3. \A u \in Threads : call[u].op = "launch" => launched'[call[u].pair] = launched[call[u].pair]
  <2>1. CASE Result(t)
    <3>1. PICK p \in evs[t] : launched' = [launched EXCEPT ![p] = NoLaunch]
      BY <2>1 DEF Result
    <3>2. /\ \A u \in Threads : call[u].pair # p
          /\ \A u \in Threads : call[u].op = "launch" => call[u].pair \in Pairs
          /\ launched \in [Pairs -> Launches]
      BY DEF PairsApart, CallOk, TypeOK
    <3> QED
      BY <3>1, <3>2
  <2>2. CASE ~Result(t)
    BY <2>2 DEF Profile, Register, Exit
  <2> QED
    BY <2>1, <2>2
<1>4. StackOk(t)'
  BY <1>1, <1>2 DEF ManagerInv, StackOk
<1>5. \A c \in Contexts : Known(c)' => Known(c) /\ device'[c] = device[c]
  <2>1. \A c \in Contexts : call[t].op = "create" => (call[t].ctx = c => ~Known(c)')
    BY <1>2 DEF Known
  <2> QED
    BY <1>1, <1>2, <2>1, KnownKept DEF IsPrimaryOf
<1>6. \A s \in Streams : streamCtx'[s] # None => streamToCtx'[s] = streamCtx'[s]
  BY <1>1 DEF ManagerInv
<1>7. \A u \in Threads : call[u].op = "destroy" /\ call[u].at = "exit" => device'[call[u].ctx] = None
  BY <1>1 DEF ManagerInv
<1>8. call'[t].op = "destroy" /\ call'[t].at = "exit" => device'[call'[t].ctx] = None
  BY <1>2, <1>7
<1>9. call'[t].op = "launch" => call[t].op = "launch" /\ call'[t].pair = call[t].pair
  BY <1>2
<1> QED
  BY <1>1, <1>2, <1>3, <1>4, <1>5, <1>6, <1>7, <1>8, <1>9, ManagerStep

\* The plugin sees a context begin before it is used, and end before its handle
\* is given out again.
LEMMA ContextManager ==
  ASSUME EarlyReuse = FALSE, CallInv, ManagerInv, NEW t \in Threads, ContextStep(t)
  PROVE  ManagerInv'
<1> USE DEF CallInv
<1>a. /\ UNCHANGED <<primary, held, streamToCtx, nameDevice, launched>>
      /\ \A d, c : IsPrimaryOf(d, c)' <=> IsPrimaryOf(d, c)
  BY DEF ContextStep, CtxCreate, CtxDestroy, CtxCreateExit, CtxDestroyDriver, CtxDestroyExit,
         driver, program, manager, tasks, IsPrimaryOf
<1>b. /\ device \in [Contexts -> Devices \union {None}] /\ stack \in [Threads -> Seq(Contexts)]
      /\ ctxStack \in [Threads -> Seq(Contexts)]
      /\ ctxDevice \in [Contexts -> Devices \union {None}]
      /\ \A u \in Threads : call[u].op \in {"create", "destroy"} => call[u].ctx \in Contexts
  BY CallTypes DEF TypeOK, CallOk, CallRecords
<1>1. ASSUME NEW d \in Created, CtxCreate(t, d) PROVE ManagerInv'
  <2>1. PICK c \in Contexts :
          /\ Fresh(c) /\ device' = [device EXCEPT ![c] = d]
          /\ stack' = [stack EXCEPT ![t] = Append(@, c)]
          /\ call' = [call EXCEPT ![t] = [Idle EXCEPT !.op = "create", !.at = "exit", !.ctx = c]]
    BY <1>1 DEF CtxCreate
  <2>2. /\ call[t].op = "none" /\ call'[t].op = "create" /\ call'[t].ctx = c
        /\ \A u \in Threads : u # t => call'[u] = call[u]
        /\ UNCHANGED <<streamCtx, ctxStack, ctxDevice>>
    BY <1>1, <2>1, CallTypes DEF CtxCreate, Idle, manager
  <2>3. \A u \in Threads : call[u].ctx # c
    BY <2>1 DEF Fresh
  <2>4. stack'[t] = Append(ctxStack[t], c) /\ \A u \in Threads : u # t => stack'[u] = stack[u]
    <3>1. stack[t] = ctxStack[t]
      BY <2>2 DEF ManagerInv, StackOk
    <3> QED
      BY <1>b, <2>1, <3>1
  <2>5. StackOk(t)'
    BY <2>2, <2>4 DEF StackOk
  <2>6. \A x \in Contexts : x # c => device'[x] = device[x]
    BY <1>b, <2>1
  <2>7. \A x \in Contexts : Known(x)' => Known(x) /\ device'[x] = device[x]
    <3>1. \A x \in Contexts : Known(x)' => x # c
      BY <2>2 DEF Known
    <3> QED
      BY <1>a, <2>2, <2>6, <3>1, KnownKept
  <2>8. \A u \in Threads : u # t => (call[u].op = "destroy" /\ call[u].at = "exit" =>
          device'[call[u].ctx] = None)
    BY <1>b, <2>3, <2>6 DEF ManagerInv
  <2>9. \A s \in Streams : streamCtx'[s] # None => streamToCtx'[s] = streamCtx'[s]
    BY <1>a, <2>2 DEF ManagerInv
  <2> QED
    BY <1>a, <2>2, <2>4, <2>5, <2>7, <2>8, <2>9, ManagerStep
<1>2. ASSUME NEW c \in Contexts, CtxDestroy(t, c) PROVE ManagerInv'
  <2>1. /\ call[t].op = "none" /\ call'[t].op = "destroy" /\ call'[t].at = "results"
        /\ \A u \in Threads : u # t => call'[u] = call[u]
        /\ UNCHANGED <<device, stack, streamCtx, ctxStack, ctxDevice>>
    BY <1>2, CallTypes DEF CtxDestroy, Begin, Idle, driver, manager
  <2>2. StackOk(t)'
    BY <2>1 DEF ManagerInv, StackOk
  <2>3. \A x \in Contexts : Known(x)' => Known(x) /\ device'[x] = device[x]
    BY <1>a, <2>1, KnownKept
  <2>4. \A u \in Threads : u # t => (call[u].op = "destroy" /\ call[u].at = "exit" =>
          device'[call[u].ctx] = None)
    BY <2>1 DEF ManagerInv
  <2>5. \A s \in Streams : streamCtx'[s] # None => streamToCtx'[s] = streamCtx'[s]
    BY <1>a, <2>1 DEF ManagerInv
  <2> QED
    BY <1>a, <2>1, <2>2, <2>3, <2>4, <2>5, ManagerStep
<1>3. CASE CtxCreateExit(t)
  <2>k. PICK c \in Contexts : c = call[t].ctx
    BY <1>3, <1>b DEF CtxCreateExit
  <2>1. /\ call[t].op = "create" /\ call'[t].op = "none"
        /\ \A u \in Threads : u # t => call'[u] = call[u]
        /\ UNCHANGED <<device, stack, streamCtx>>
        /\ ctxDevice' = [ctxDevice EXCEPT ![c] = device[c]]
        /\ ctxStack' = [ctxStack EXCEPT ![t] = Append(@, c)]
    BY <1>3, <2>k, CallTypes DEF CtxCreateExit, Idle, driver
  <2>2. ctxStack'[t] = stack[t] /\ \A u \in Threads : u # t => ctxStack'[u] = ctxStack[u]
    BY <1>b, <2>1, <2>k DEF ManagerInv, StackOk
  <2>3. StackOk(t)'
    BY <2>1, <2>2 DEF StackOk
  <2>4. ctxDevice'[c] = device'[c] /\ \A x \in Contexts : x # c => ctxDevice'[x] = ctxDevice[x]
    BY <1>b, <2>1
  <2>5. \A x \in Contexts : x # c => (Known(x)' => Known(x) /\ device'[x] = device[x])
    BY <1>a, <2>1, <2>k, KnownKept
  <2>6. \A u \in Threads : u # t => (call[u].op = "destroy" /\ call[u].at = "exit" =>
          device'[call[u].ctx] = None)
    BY <2>1 DEF ManagerInv
  <2>7. \A s \in Streams : streamCtx'[s] # None => streamToCtx'[s] = streamCtx'[s]
    BY <1>a, <2>1 DEF ManagerInv
  <2>8. \A x \in Contexts : Known(x)' =>
          \/ Known(x) /\ ctxDevice'[x] = ctxDevice[x] /\ device'[x] = device[x]
          \/ ctxDevice'[x] = device'[x]
    BY <2>4, <2>5
  <2> QED
    BY <1>a, <2>1, <2>2, <2>3, <2>6, <2>7, <2>8, ManagerStep
<1>4. CASE CtxDestroyDriver(t)
  <2>k. PICK c \in Contexts : c = call[t].ctx
    BY <1>4, <1>b DEF CtxDestroyDriver, Reported
  <2>1. /\ call[t].op = "destroy" /\ call[t].at = "results" /\ call[t] \in CallRecords
        /\ UNCHANGED <<ctxStack, ctxDevice>>
        /\ \/ /\ call' = [call EXCEPT ![t] = Idle]
              /\ UNCHANGED <<device, streamCtx, stack>>
           \/ /\ Destroyed(c)
              /\ stack' = [stack EXCEPT ![t] = IF Top(@) = c THEN Front(@) ELSE @]
              /\ call' = [call EXCEPT ![t].at = "exit"]
    BY <1>4, <2>k, CallTypes DEF CtxDestroyDriver, Reported, manager
  <2>2. \A u \in Threads : u # t => call'[u] = call[u] /\ stack'[u] = stack[u]
    BY <1>b, <2>1, CallTypes
  <2>3. stack[t] = ctxStack[t]
    BY <2>1 DEF ManagerInv, StackOk
  <2>4. \/ call'[t].op = "none" /\ UNCHANGED stack /\ UNCHANGED device
        \/ /\ call'[t].op = "destroy" /\ call'[t].at = "exit" /\ call'[t].ctx = c
           /\ stack'[t] = (IF Top(stack[t]) = c THEN Front(stack[t]) ELSE stack[t])
           /\ device'[c] = None
    <3>1. ASSUME call' = [call EXCEPT ![t] = Idle] PROVE call'[t].op = "none"
      BY <3>1, CallTypes DEF Idle
    <3>2. ASSUME call' = [call EXCEPT ![t].at = "exit"]
          PROVE  call'[t].op = "destroy" /\ call'[t].at = "exit" /\ call'[t].ctx = c
      <4>1. call'[t] = [call[t] EXCEPT !.at = "exit"]
        BY <3>2, CallTypes
      <4> QED
        BY <2>1, <2>k, <4>1 DEF CallRecords
    <3>3. ASSUME Destroyed(c) PROVE device'[c] = None
      BY <1>b, <3>3 DEF Destroyed
    <3>4. ASSUME stack' = [stack EXCEPT ![t] = IF Top(@) = c THEN Front(@) ELSE @]
          PROVE  stack'[t] = (IF Top(stack[t]) = c THEN Front(stack[t]) ELSE stack[t])
      BY <1>b, <3>4
    <3> QED
      BY <2>1, <3>1, <3>2, <3>3, <3>4
  <2>5. StackOk(t)'
    BY <2>1, <2>3, <2>4 DEF StackOk
  <2>6. \A x \in Contexts : device'[x] = device[x] \/ device'[x] = None
    BY <1>b, <2>1 DEF Destroyed
  <2>7. \A x \in Contexts : Known(x)' => Known(x) /\ device'[x] = device[x]
    BY <1>a, <2>1, <2>2, <2>6, KnownKept
  <2>8. \A u \in Threads : u # t => (call[u].op = "destroy" /\ call[u].at = "exit" =>
          device'[call[u].ctx] = None)
    BY <1>b, <2>6 DEF ManagerInv
  <2>9. \A s \in Streams : streamCtx'[s] # None => streamToCtx'[s] = streamCtx'[s]
    BY <1>a, <2>1 DEF ManagerInv, Destroyed
  <2> QED
    BY <1>a, <2>1, <2>2, <2>4, <2>5, <2>7, <2>8, <2>9, ManagerStep
<1>5. CASE CtxDestroyExit(t)
  <2>k. PICK c \in Contexts : c = call[t].ctx
    BY <1>5, <1>b DEF CtxDestroyExit
  <2>1. /\ call[t].op = "destroy" /\ call[t].at = "exit" /\ call'[t].op = "none"
        /\ \A u \in Threads : u # t => call'[u] = call[u]
        /\ UNCHANGED <<device, stack, streamCtx>>
        /\ ctxDevice' = [ctxDevice EXCEPT ![c] = None]
        /\ ctxStack' = [ctxStack EXCEPT ![t] = IF Top(@) = c THEN Front(@) ELSE @]
    BY <1>5, <2>k, CallTypes DEF CtxDestroyExit, Idle, driver
  <2>2. ctxStack'[t] = stack[t] /\ \A u \in Threads : u # t => ctxStack'[u] = ctxStack[u]
    <3>1. ctxStack'[t] = (IF Top(ctxStack[t]) = c THEN Front(ctxStack[t]) ELSE ctxStack[t])
          /\ \A u \in Threads : u # t => ctxStack'[u] = ctxStack[u]
      BY <1>b, <2>1
    <3> QED
      BY <2>1, <2>k, <3>1 DEF ManagerInv, StackOk
  <2>3. StackOk(t)'
    BY <2>1, <2>2 DEF StackOk
  <2>4. device[c] = None /\ \A x \in Contexts : x # c => ctxDevice'[x] = ctxDevice[x]
    BY <1>b, <2>1, <2>k DEF ManagerInv
  <2>5. \A x \in Contexts : Known(x)' => Known(x) /\ device'[x] = device[x]
    BY <1>a, <2>1, KnownKept
  <2>6. \A u \in Threads : u # t => (call[u].op = "destroy" /\ call[u].at = "exit" =>
          device'[call[u].ctx] = None)
    BY <2>1 DEF ManagerInv
  <2>7. \A s \in Streams : streamCtx'[s] # None => streamToCtx'[s] = streamCtx'[s]
    BY <1>a, <2>1 DEF ManagerInv
  <2>8. \A x \in Contexts : Known(x)' =>
          Known(x) /\ ctxDevice'[x] = ctxDevice[x] /\ device'[x] = device[x]
    BY <2>4, <2>5 DEF Known
  <2> QED
    BY <1>a, <2>1, <2>2, <2>3, <2>6, <2>7, <2>8, ManagerStep
<1> QED
  BY <1>1, <1>2, <1>3, <1>4, <1>5 DEF ContextStep

\* So it does for primary contexts, known from their first retain that returns.
LEMMA PrimaryManager ==
  ASSUME EarlyReuse = FALSE, CallInv, ManagerInv, NEW t \in Threads, PrimaryStep(t)
  PROVE  ManagerInv'
<1> USE DEF CallInv
<1>a. UNCHANGED <<stack, ctxStack, streamToCtx, nameDevice, launched>>
  BY DEF PrimaryStep, PrimaryRetain, PrimaryRelease, PrimaryReset, PrimaryRetainExit,
         PrimaryReleaseDriver, PrimaryResetDriver, driver, manager, tasks
<1>b. /\ device \in [Contexts -> Devices \union {None}] /\ Retained \subseteq Devices
      /\ primary \in [Devices -> Counted] /\ held \in [Devices -> 0 .. MaxRefs]
      /\ ctxDevice \in [Contexts -> Devices \union {None}]
      /\ \A u \in Threads : call[u].op \in {"create", "destroy"} => call[u].ctx \in Contexts
  BY CallTypes, CudaAssumption DEF TypeOK, CallOk, CallRecords
<1>c. ASSUME call[t].op \notin {"create", "destroy"}, call'[t].op \notin {"create", "destroy"}
      PROVE  StackOk(t)'
  BY <1>a, <1>c DEF ManagerInv, StackOk
<1>1. ASSUME NEW d \in Retained, PrimaryRetain(t, d) PROVE ManagerInv'
  <2>1. PICK c \in Contexts :
       /\ \/ /\ primary[d].refs > 0 /\ c = primary[d].ctx
             /\ primary' = [primary EXCEPT ![d].refs = @ + 1]
             /\ UNCHANGED device
          \/ /\ primary[d].refs = 0 /\ Fresh(c)
             /\ primary' = [primary EXCEPT ![d] = [ctx |-> c, refs |-> 1]]
             /\ device' = [device EXCEPT ![c] = d]
       /\ call' = [call EXCEPT ![t] = [Idle EXCEPT !.op = "retain", !.at = "exit", !.ctx = c]]
    BY <1>1 DEF PrimaryRetain
  <2>2. /\ call[t].op = "none" /\ call'[t].op = "retain"
        /\ \A u \in Threads : u # t => call'[u] = call[u]
        /\ UNCHANGED <<streamCtx, ctxDevice, held>>
    BY <1>1, <2>1, CallTypes DEF PrimaryRetain, Idle, manager, program
  <2>3. StackOk(t)'
    BY <1>c, <2>2
  <2>4. \A s \in Streams : streamCtx'[s] # None => streamToCtx'[s] = streamCtx'[s]
    BY <1>a, <2>2 DEF ManagerInv
  <2>5. CASE /\ primary[d].refs > 0 /\ c = primary[d].ctx /\ UNCHANGED device
             /\ primary' = [primary EXCEPT ![d].refs = @ + 1]
    <3>1. /\ primary'[d].ctx = primary[d].ctx /\ primary'[d].refs > 0
          /\ \A e \in Devices : e # d => primary'[e] = primary[e]
      BY <1>b, <2>5 DEF Counted
    <3>2. \A e \in Devices : \A x : IsPrimaryOf(e, x) => IsPrimaryOf(e, x)'
      BY <3>1 DEF IsPrimaryOf
    <3>3. \A x \in Contexts : Known(x)' => Known(x) /\ device'[x] = device[x]
      BY <2>2, <2>5, <3>2, KnownKept
    <3>4. \A u \in Threads : u # t => (call[u].op = "destroy" /\ call[u].at = "exit" =>
            device'[call[u].ctx] = None)
      BY <2>5 DEF ManagerInv
    <3> QED
      BY <1>a, <2>2, <2>3, <2>4, <3>3, <3>4, ManagerStep
  <2>6. CASE /\ primary[d].refs = 0 /\ Fresh(c) /\ device' = [device EXCEPT ![c] = d]
             /\ primary' = [primary EXCEPT ![d] = [ctx |-> c, refs |-> 1]]
    <3>1. /\ primary'[d].ctx = c /\ primary'[d].refs = 1
          /\ \A e \in Devices : e # d => primary'[e] = primary[e]
          /\ \A x \in Contexts : x # c => device'[x] = device[x]
          /\ \A u \in Threads : call[u].ctx # c
      BY <1>b, <2>6 DEF Fresh
    <3>2. \A e \in Devices : \A x : IsPrimaryOf(e, x) => IsPrimaryOf(e, x)'
      BY <2>6, <3>1 DEF IsPrimaryOf
    <3>3. ~Known(c)'
      <4>1. primary[d].refs = held[d] + Cardinality(Working(d)) /\ held[d] \in Nat
            /\ Cardinality(Working(d)) \in Nat
        BY <1>b, WorkingSize
      <4>2. held[d] = 0
        BY <2>6, <4>1
      <4>3. IsPrimaryOf(d, c)' /\ ~(held'[d] > 0) /\ d \in Devices
        BY <1>b, <2>2, <3>1, <4>2 DEF IsPrimaryOf
      <4> QED
        BY <4>3 DEF Known, IsPrimaryOf
    <3>4. \A x \in Contexts : Known(x)' => Known(x) /\ device'[x] = device[x]
      BY <2>2, <3>1, <3>2, <3>3, KnownKept
    <3>5. \A u \in Threads : u # t => (call[u].op = "destroy" /\ call[u].at = "exit" =>
            device'[call[u].ctx] = None)
      BY <1>b, <3>1 DEF ManagerInv
    <3> QED
      BY <1>a, <2>2, <2>3, <2>4, <3>4, <3>5, ManagerStep
  <2> QED
    BY <2>1, <2>5, <2>6
<1>2. ASSUME NEW d \in Retained, PrimaryRelease(t, d) \/ PrimaryReset(t, d) PROVE ManagerInv'
  <2>1. /\ call[t].op = "none" /\ call'[t].op \in {"release", "reset"}
        /\ \A u \in Threads : u # t => call'[u] = call[u]
        /\ UNCHANGED <<device, primary, streamCtx, ctxDevice>>
    <3>1. PICK c : Ready(t) /\ (Begin(t, "release", c) \/ Begin(t, "reset", c))
      BY <1>2, Zenon DEF PrimaryRelease, PrimaryReset
    <3>2. call[t].op = "none" /\ call \in [Threads -> CallRecords]
      BY <3>1, CallTypes
    <3>3. UNCHANGED <<device, primary, streamCtx, ctxDevice>>
      BY <1>2 DEF PrimaryRelease, PrimaryReset, driver, manager
    <3>4. \/ call' = [call EXCEPT ![t] = [Idle EXCEPT !.op = "release", !.at = "results", !.ctx = c]]
          \/ call' = [call EXCEPT ![t] = [Idle EXCEPT !.op = "reset", !.at = "results", !.ctx = c]]
      BY <3>1 DEF Begin
    <3>5. call'[t].op \in {"release", "reset"}
      BY ONLY <3>2, <3>4 DEF Idle
    <3> QED
      BY <3>2, <3>3, <3>4, <3>5
  <2>2. \A e \in Devices : held'[e] > 0 => held[e] > 0
    <3>1. UNCHANGED held \/ (held' = [held EXCEPT ![d] = @ - 1] /\ held[d] > 0)
      BY <1>2 DEF PrimaryRelease, PrimaryReset, program
    <3> QED
      BY <1>b, <3>1, CudaAssumption
  <2>3. \A x \in Contexts : Known(x)' => Known(x) /\ device'[x] = device[x]
    BY <2>1, <2>2, KnownKept DEF IsPrimaryOf
  <2>4. StackOk(t)'
    BY <1>c, <2>1
  <2>5. \A s \in Streams : streamCtx'[s] # None => streamToCtx'[s] = streamCtx'[s]
    BY <1>a, <2>1 DEF ManagerInv
  <2>6. \A u \in Threads : u # t => (call[u].op = "destroy" /\ call[u].at = "exit" =>
          device'[call[u].ctx] = None)
    BY <2>1 DEF ManagerInv
  <2> QED
    BY <1>a, <2>1, <2>3, <2>4, <2>5, <2>6, ManagerStep
<1>3. CASE PrimaryRetainExit(t)
  <2>k. PICK c \in Contexts, d \in Devices : c = call[t].ctx /\ d = device[c] /\ IsPrimaryOf(d, c)
    BY <1>3, WorkingFacts DEF PrimaryRetainExit
  <2>1. /\ call[t].op = "retain" /\ call'[t].op = "none"
        /\ \A u \in Threads : u # t => call'[u] = call[u]
        /\ UNCHANGED <<device, primary, streamCtx>>
        /\ ctxDevice' = [ctxDevice EXCEPT ![c] = d] /\ held' = [held EXCEPT ![d] = @ + 1]
    BY <1>3, <2>k, CallTypes DEF PrimaryRetainExit, Idle, driver
  <2>2. \A x \in Contexts : x # c => (Known(x)' => Known(x) /\ device'[x] = device[x])
    <3>1. \A e \in Devices : \A x : x # c => (IsPrimaryOf(e, x) => held'[e] = held[e])
      BY <1>b, <2>k, <2>1 DEF IsPrimaryOf
    <3>2. \A e \in Devices : \A x : IsPrimaryOf(e, x)' <=> IsPrimaryOf(e, x)
      BY <2>1 DEF IsPrimaryOf
    <3> QED
      BY <2>1, <3>1, <3>2, KnownKept
  <2>3. ctxDevice'[c] = device'[c] /\ \A x \in Contexts : x # c => ctxDevice'[x] = ctxDevice[x]
    BY <1>b, <2>k, <2>1
  <2>4. \A x \in Contexts : Known(x)' =>
          \/ Known(x) /\ ctxDevice'[x] = ctxDevice[x] /\ device'[x] = device[x]
          \/ ctxDevice'[x] = device'[x]
    BY <2>2, <2>3
  <2>5. StackOk(t)'
    BY <1>c, <2>1
  <2>6. \A s \in Streams : streamCtx'[s] # None => streamToCtx'[s] = streamCtx'[s]
    BY <1>a, <2>1 DEF ManagerInv
  <2>7. \A u \in Threads : u # t => (call[u].op = "destroy" /\ call[u].at = "exit" =>
          device'[call[u].ctx] = None)
    BY <2>1 DEF ManagerInv
  <2> QED
    BY <1>a, <2>1, <2>4, <2>5, <2>6, <2>7, ManagerStep
<1>4. CASE PrimaryReleaseDriver(t)
  <2>0. call[t].op = "release"
    BY <1>4 DEF PrimaryReleaseDriver, Reported
  <2>k. PICK c \in Contexts, d \in Devices : /\ c = call[t].ctx /\ d = device[c]
                                             /\ IsPrimaryOf(d, c)
    BY <2>0, WorkingFacts
  <2>1. /\ call'[t].op = "none"
        /\ \A u \in Threads : u # t => call'[u] = call[u]
        /\ UNCHANGED <<held, ctxDevice>>
        /\ IF primary[d].refs = 1
           THEN primary' = [primary EXCEPT ![d] = NoPrimary] /\ Destroyed(c)
           ELSE primary' = [primary EXCEPT ![d].refs = @ - 1] /\ UNCHANGED <<device, streamCtx>>
    BY <1>4, <2>k, CallTypes DEF PrimaryReleaseDriver, Idle, program, manager
  <2>2. \A x \in Contexts : \/ device'[x] = device[x] /\ (x = c => primary[d].refs # 1)
                            \/ device'[x] = None
    BY <1>b, <2>1 DEF Destroyed
  <2>3. \A x \in Contexts : device'[x] # None =>
          \A e \in Devices : IsPrimaryOf(e, x) => IsPrimaryOf(e, x)'
    <3> SUFFICES ASSUME NEW x \in Contexts, device'[x] # None, NEW e \in Devices, IsPrimaryOf(e, x)
                 PROVE  IsPrimaryOf(e, x)'
      OBVIOUS
    <3>1. CASE e # d
      BY <1>b, <2>1, <3>1 DEF IsPrimaryOf
    <3>2. CASE e = d
      <4>1. x = c /\ primary[d].refs # 1
        BY <2>2, <2>k, <3>2 DEF IsPrimaryOf
      <4>2. primary' = [primary EXCEPT ![d].refs = @ - 1]
        BY <2>1, <4>1
      <4>3. primary'[d].refs = primary[d].refs - 1 /\ primary'[d].ctx = primary[d].ctx
            /\ primary[d].refs \in Nat /\ primary[d].refs > 0
        BY <1>b, <2>k, <4>2, CudaAssumption DEF Counted, IsPrimaryOf
      <4>4. primary'[d].refs > 0
        BY <4>1, <4>3
      <4> QED
        BY <2>k, <3>2, <4>1, <4>3, <4>4 DEF IsPrimaryOf
    <3> QED
      BY <3>1, <3>2
  <2>4. \A x \in Contexts : Known(x)' => Known(x) /\ device'[x] = device[x]
    <3>1. \A x \in Contexts : Known(x)' => device'[x] # None
      BY DEF Known
    <3> QED
      BY <2>0, <2>1, <2>2, <2>3, <3>1, KnownKept
  <2>5. StackOk(t)'
    BY <1>c, <2>0, <2>1
  <2>6. \A s \in Streams : streamCtx'[s] # None => streamToCtx'[s] = streamCtx'[s]
    BY <1>a, <2>1 DEF ManagerInv, Destroyed
  <2>7. \A u \in Threads : u # t => (call[u].op = "destroy" /\ call[u].at = "exit" =>
          device'[call[u].ctx] = None)
    BY <1>b, <2>2 DEF ManagerInv
  <2> QED
    BY <1>a, <2>1, <2>4, <2>5, <2>6, <2>7, ManagerStep
<1>5. CASE PrimaryResetDriver(t)
  <2>1. /\ call[t].op = "reset" /\ call'[t].op = "none"
        /\ \A u \in Threads : u # t => call'[u] = call[u]
        /\ UNCHANGED <<device, primary, held, ctxDevice>>
        /\ \A s \in Streams : streamCtx'[s] # None => streamCtx'[s] = streamCtx[s]
    BY <1>5, CallTypes DEF PrimaryResetDriver, Reported, Idle, program, manager
  <2>2. \A x \in Contexts : Known(x)' => Known(x) /\ device'[x] = device[x]
    BY <2>1, KnownKept DEF IsPrimaryOf
  <2>3. StackOk(t)'
    BY <1>c, <2>1
  <2>4. \A s \in Streams : streamCtx'[s] # None => streamToCtx'[s] = streamCtx'[s]
    BY <1>a, <2>1 DEF ManagerInv
  <2>5. \A u \in Threads : u # t => (call[u].op = "destroy" /\ call[u].at = "exit" =>
          device'[call[u].ctx] = None)
    BY <2>1 DEF ManagerInv
  <2> QED
    BY <1>a, <2>1, <2>2, <2>3, <2>4, <2>5, ManagerStep
<1> QED
  BY <1>1, <1>2, <1>3, <1>4, <1>5 DEF PrimaryStep

\* The plugin's stacks follow the driver's, and its streams too.
LEMMA StackManager ==
  ASSUME CallInv, ManagerInv, NEW t \in Threads, StackStep(t)
  PROVE  ManagerInv'
<1> USE DEF CallInv
<1>1. UNCHANGED <<device, primary, held, call, ctxDevice, nameDevice, launched>>
  BY DEF StackStep, CtxSetCurrent, CtxPushCurrent, CtxPopCurrent, StreamCreate, program, tasks
<1>2. call[t].op = "none" /\ stack[t] = ctxStack[t]
  <2>1. call[t].op = "none"
    BY CallTypes DEF StackStep, CtxSetCurrent, CtxPushCurrent, CtxPopCurrent, StreamCreate
  <2> QED
    BY <2>1 DEF ManagerInv, StackOk
<1>b. /\ stack \in [Threads -> Seq(Contexts)] /\ ctxStack \in [Threads -> Seq(Contexts)]
      /\ streamCtx \in [Streams -> Contexts \union {None}]
      /\ streamToCtx \in [Streams \union Implicit -> Contexts \union {None}]
  BY DEF TypeOK
<1>3. /\ stack'[t] = ctxStack'[t]
      /\ \A u \in Threads : u # t => stack'[u] = stack[u] /\ ctxStack'[u] = ctxStack[u]
  <2>1. ASSUME NEW c \in Contexts \union {None}, CtxSetCurrent(t, c)
        PROVE  /\ stack'[t] = ctxStack'[t]
               /\ \A u \in Threads : u # t => stack'[u] = stack[u] /\ ctxStack'[u] = ctxStack[u]
    BY <1>2, <1>b, <2>1 DEF CtxSetCurrent
  <2>2. ASSUME NEW c \in Contexts, CtxPushCurrent(t, c)
        PROVE  /\ stack'[t] = ctxStack'[t]
               /\ \A u \in Threads : u # t => stack'[u] = stack[u] /\ ctxStack'[u] = ctxStack[u]
    BY <1>2, <1>b, <2>2 DEF CtxPushCurrent
  <2>3. ASSUME CtxPopCurrent(t)
        PROVE  /\ stack'[t] = ctxStack'[t]
               /\ \A u \in Threads : u # t => stack'[u] = stack[u] /\ ctxStack'[u] = ctxStack[u]
    BY <1>2, <1>b, <2>3 DEF CtxPopCurrent
  <2>4. ASSUME NEW s \in Streams, StreamCreate(t, s)
        PROVE  UNCHANGED <<stack, ctxStack>>
    BY <2>4 DEF StreamCreate
  <2> QED
    BY <1>2, <2>1, <2>2, <2>3, <2>4 DEF StackStep
<1>4. StackOk(t)'
  BY <1>1, <1>2, <1>3 DEF StackOk
<1>5. \A s \in Streams : streamCtx'[s] # None => streamToCtx'[s] = streamCtx'[s]
  <2>1. ASSUME UNCHANGED <<streamCtx, streamToCtx>>
        PROVE  \A s \in Streams : streamCtx'[s] # None => streamToCtx'[s] = streamCtx'[s]
    BY <2>1 DEF ManagerInv
  <2>2. ASSUME NEW s \in Streams, StreamCreate(t, s)
        PROVE  \A x \in Streams : streamCtx'[x] # None => streamToCtx'[x] = streamCtx'[x]
    <3>1. /\ streamCtx' = [streamCtx EXCEPT ![s] = Top(stack[t])]
          /\ streamToCtx' = [streamToCtx EXCEPT ![s] = Top(ctxStack[t])]
      BY <2>2 DEF StreamCreate
    <3> QED
      BY <1>2, <1>b, <3>1 DEF ManagerInv
  <2> QED
    BY <2>1, <2>2 DEF StackStep, CtxSetCurrent, CtxPushCurrent, CtxPopCurrent
<1>6. \A x \in Contexts : Known(x)' => Known(x) /\ device'[x] = device[x]
  BY <1>1 DEF Known, IsPrimaryOf
<1>7. \A u \in Threads : call[u].op = "destroy" /\ call[u].at = "exit" => device'[call[u].ctx] = None
  BY <1>1 DEF ManagerInv
<1> QED
  BY <1>1, <1>3, <1>4, <1>5, <1>6, <1>7, ManagerStep

\* If every command is a task, and no handle is given out before the exit of
\* cuCtxDestroy is traced, the plugin has the device of each launch on stream 0
\* or a created stream under its name, though the driver's state changes before
\* the exits that the plugin sees.
THEOREM LaunchesFindTheirDevice ==
  Names \subseteq Tasks /\ EarlyReuse = FALSE => (Spec => []LaunchedOnDevice)
<1> SUFFICES ASSUME Names \subseteq Tasks, EarlyReuse = FALSE PROVE Spec => []LaunchedOnDevice
  OBVIOUS
<1>1. Init => ManagerInv
  BY DEF Init, ManagerInv, StackOk, Known, LaunchedOnDevice, Idle
<1>2. CallInv /\ ManagerInv /\ [Next]_vars => ManagerInv'
  <2> SUFFICES ASSUME CallInv, ManagerInv, [Next]_vars PROVE ManagerInv'
    OBVIOUS
  <2>1. CASE UNCHANGED vars
    <3> USE <2>1 DEF vars, driver, program, manager, tasks
    <3>1. \A c \in Contexts : Known(c)' => Known(c)
      BY DEF Known, IsPrimaryOf
    <3>2. \A t \in Threads : StackOk(t)'
      BY DEF ManagerInv, StackOk
    <3> QED
      BY <3>1, <3>2 DEF ManagerInv, LaunchedOnDevice
  <2>2. ASSUME NEW t \in Threads, CommandStep(t) PROVE ManagerInv'
    BY <2>2, LaunchManager, PairManager DEF CommandStep
  <2> QED
    BY <2>1, <2>2, ContextManager, PrimaryManager, StackManager, PairManager DEF Next
<1>3. ManagerInv => LaunchedOnDevice
  BY DEF ManagerInv
<1> QED
  BY <1>1, <1>2, <1>3, InitCalls, NextCalls, PTL DEF Spec
=============================================================================
