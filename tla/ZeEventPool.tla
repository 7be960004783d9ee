----------------------------- MODULE ZeEventPool -----------------------------
(* The events that the Level Zero tracer puts in place of the program's own  *)
(* (tracer_ze_helpers.include.c, ze_model.rb): a command signals an injected *)
(* event, which the tracer reads when the command is drained, and on an      *)
(* out-of-order list a barrier that waits for it signals the program's event.*)
(* Events go back to a free list: at the drain from an immediate list, at    *)
(* the reset of a regular one, whose body holds them across executions.      *)
(*                                                                           *)
(* Dependencies between commands, slabs and indexes are in ZeProfiling; here *)
(* commands have no wait events and every list is out-of-order.  The program *)
(* is legal: each command has a signal event of its own, which is reset      *)
(* before the command runs again.                                            *)
EXTENDS Naturals, Sequences, SequencesExt, FiniteSets

CONSTANTS Threads, Regular, Immediate, Events,
          Cap,         \* _ZE_SLAB_SLOTS: profiled commands of a regular list
          Rules,       \* what the program keeps to
          MaxCommands, \* bound: Appends in all
          None

ASSUME PoolAssumption ==
  /\ IsFiniteSet(Threads)
  /\ Regular \intersect Immediate = {}
  /\ Cap \in Nat /\ MaxCommands \in Nat
  /\ None \notin Events \union Regular \union Immediate
  /\ Rules \subseteq {"within_cap",  \* a list with more than Cap commands is not executed
                      "quiet_fail"}  \* while an Append fails, no other call

VARIABLES freelist, \* events of _ze_event_pool_entry
          fresh,    \* events not created yet
          signaled, \* the command that signaled each event last, 0 if it is reset
          call,     \* the Append each thread is in
          cmds,     \* the commands appended so far and not reset
          appended, \* how many ever were
          state     \* of regular lists: "open", "flight" or "idle"

vars == <<freelist, fresh, signaled, call, cmds, appended, state>>

Lists == Regular \union Immediate
Ids == 1 .. MaxCommands
Idle == [at |-> "none", list |-> None, inj |-> None, id |-> 0, seen |-> <<>>]
Distinct(q) == \A i, j \in 1 .. Len(q) : q[i] = q[j] => i = j

\* kernel: the command; chain: the barrier that signals the program's event,
\* if it passed one; slot: what the tracer knows of it.
Commands == [list : Lists, inj : Events,
             kernel : {"recorded", "queued", "done"},
             chain : {"none", "recorded", "queued", "fired"},
             sig : BOOLEAN,
             slot : {"none", "live", "drained"},
             timing : Ids \union {0}]

TypeOK == /\ freelist \in Seq(Events) /\ Distinct(freelist)
          /\ fresh \subseteq Events
          /\ signaled \in [Events -> Ids \union {0}]
          /\ call \in [Threads -> [at : {"none", "append", "record", "chain", "failed", "write"},
                                   list : Lists \union {None}, inj : Events \union {None},
                                   id : Ids \union {0}, seen : Seq(Events)]]
          /\ DOMAIN cmds \subseteq Ids
          /\ \A c \in DOMAIN cmds : cmds[c] \in Commands
          /\ appended \in 0 .. MaxCommands
          /\ state \in [Regular -> {"open", "flight", "idle"}]

Init == /\ freelist = <<>>
        /\ fresh = Events
        /\ signaled = [e \in Events |-> 0]
        /\ call = [t \in Threads |-> Idle]
        /\ cmds = <<>>
        /\ appended = 0
        /\ state = [l \in Regular |-> "open"]

Of(l) == {c \in DOMAIN cmds : cmds[c].list = l}
Live(l) == {c \in Of(l) : cmds[c].slot = "live"}
Quiet == "quiet_fail" \in Rules => \A t \in Threads : call[t].at # "write"

-----------------------------------------------------------------------------
(* The free list. *)

\* _put_event of the events of D: the last one put is the first one taken.
LastFirst(D) == CHOOSE q \in [1 .. Cardinality(D) -> D] :
                  \A i, j \in 1 .. Cardinality(D) : i < j => q[i] > q[j]
InjsOf(D) == [i \in 1 .. Cardinality(D) |-> cmds[LastFirst(D)[i]].inj]
Put(D) == freelist' = InjsOf(D) \o freelist

\* Mutant: events are put back as they are.
ResetNothing(D) == UNCHANGED signaled

\* zeEventHostReset of the events of D.
Reset(D) == signaled' = [e \in Events |-> IF \E c \in D : cmds[c].inj = e
                                          THEN 0 ELSE signaled[e]]

\* Mutants: the free list keeps the event that it hands out.
TakePeeking(e) == \/ freelist # <<>> /\ e = Head(freelist) /\ UNCHANGED <<freelist, fresh>>
                  \/ /\ freelist = <<>> /\ e \in fresh
                     /\ fresh' = fresh \ {e} /\ UNCHANGED freelist

\* _internal_event_alloc.
Take(e) == \/ /\ freelist # <<>> /\ e = Head(freelist)
              /\ freelist' = Tail(freelist) /\ UNCHANGED fresh
           \/ /\ freelist = <<>> /\ e \in fresh
              /\ fresh' = fresh \ {e} /\ UNCHANGED freelist

-----------------------------------------------------------------------------
(* zeCommandListAppend*. *)

\* The prologue, _get_event.
GetEvent(t, l) ==
  /\ call[t] = Idle
  /\ \A u \in Threads : call[u].list # l
  /\ appended + Cardinality({u \in Threads : call[u].at = "append"}) < MaxCommands
  /\ l \in Regular => state[l] = "open"
  /\ Quiet
  /\ \E e \in Events : /\ Take(e)
                       /\ call' = [call EXCEPT ![t] = [Idle EXCEPT !.at = "append", !.list = l,
                                                                   !.inj = e]]
  /\ UNCHANGED <<signaled, cmds, appended, state>>

\* The driver's Append, with the injected event for the program's.
DriverAppend(t) ==
  LET l == call[t].list
      id == appended + 1
  IN /\ call[t].at = "append"
     /\ \/ /\ call' = [call EXCEPT ![t].at = "failed"]
           /\ UNCHANGED <<cmds, appended>>
        \/ \E sig \in BOOLEAN :
             /\ appended' = id
             /\ call' = [call EXCEPT ![t].at = "record", ![t].id = id]
             /\ cmds' = [c \in DOMAIN cmds \union {id} |->
                  IF c = id
                  THEN [list |-> l, inj |-> call[t].inj, sig |-> sig, slot |-> "none",
                        kernel |-> IF l \in Immediate THEN "queued" ELSE "recorded",
                        chain |-> "none", timing |-> 0]
                  ELSE cmds[c]]
     /\ UNCHANGED <<freelist, fresh, signaled, state>>

\* _chain_user_signal.
Chain(c) == IF ~cmds[c].sig THEN "none"
            ELSE IF cmds[c].list \in Immediate THEN "queued" ELSE "recorded"

HasRoom(l) == \/ l \in Immediate
              \/ Cardinality({c \in Of(l) : cmds[c].slot # "none"}) < Cap

\* _record_append.  Past the cap the event goes back, though the list's body
\* holds it ...
Record(t) ==
  LET c == call[t].id IN
  /\ call[t].at = "record"
  /\ Quiet
  /\ \/ /\ HasRoom(call[t].list)
        /\ cmds' = [cmds EXCEPT ![c].chain = Chain(c), ![c].slot = "live"]
        /\ call' = [call EXCEPT ![t] = Idle]
        /\ UNCHANGED <<freelist, signaled>>
     \/ /\ ~HasRoom(call[t].list)
        /\ Put({c}) /\ Reset({c})
        /\ call' = [call EXCEPT ![t].at = "chain"]
        /\ UNCHANGED cmds
  /\ UNCHANGED <<fresh, appended, state>>

\* ... and without the mutex the barrier is appended all the same.
Compensate(t) ==
  /\ call[t].at = "chain"
  /\ cmds' = [cmds EXCEPT ![call[t].id].chain = Chain(call[t].id)]
  /\ call' = [call EXCEPT ![t] = Idle]
  /\ UNCHANGED <<freelist, fresh, signaled, appended, state>>

\* profiling_epilogue after an error: _put_event without the mutex, which
\* reads the head of the list ...
FailRead(t) ==
  /\ call[t].at = "failed"
  /\ signaled' = [signaled EXCEPT ![call[t].inj] = 0]
  /\ call' = [call EXCEPT ![t].at = "write", ![t].seen = freelist]
  /\ UNCHANGED <<freelist, fresh, cmds, appended, state>>

\* ... and writes it.
FailWrite(t) ==
  /\ call[t].at = "write"
  /\ freelist' = <<call[t].inj>> \o call[t].seen
  /\ call' = [call EXCEPT ![t] = Idle]
  /\ UNCHANGED <<fresh, signaled, cmds, appended, state>>

-----------------------------------------------------------------------------
(* The device, in any order. *)

Kernel(c) ==
  /\ c \in DOMAIN cmds /\ cmds[c].kernel = "queued"
  /\ cmds' = [cmds EXCEPT ![c].kernel = "done"]
  /\ signaled' = [signaled EXCEPT ![cmds[c].inj] = c]
  /\ UNCHANGED <<freelist, fresh, call, appended, state>>

Barrier(c) ==
  /\ c \in DOMAIN cmds /\ cmds[c].chain = "queued"
  /\ signaled[cmds[c].inj] # 0
  /\ cmds' = [cmds EXCEPT ![c].chain = "fired"]
  /\ UNCHANGED <<freelist, fresh, signaled, call, appended, state>>

-----------------------------------------------------------------------------
(* Drains. *)

\* _slot_drain up to the timing, which zeEventHostSynchronize waits for.
Timed(c) == [cmds[c] EXCEPT !.slot = "drained", !.timing = signaled[cmds[c].inj]]
Drainable(D) == \A c \in D : signaled[cmds[c].inj] # 0

\* Mutant: the event of a regular list is put back too.
DrainToFreelist(l, D) ==
  /\ Drainable(D)
  /\ cmds' = [c \in DOMAIN cmds |-> IF c \in D THEN Timed(c) ELSE cmds[c]]
  /\ Reset(D)
  /\ Put(D)

\* Events of immediate lists are put back, those of regular lists reset.
Drain(l, D) == /\ Drainable(D)
               /\ cmds' = [c \in DOMAIN cmds |-> IF c \in D THEN Timed(c) ELSE cmds[c]]
               /\ Reset(D)
               /\ IF l \in Immediate THEN Put(D) ELSE UNCHANGED freelist

Finished(l) == \A c \in Of(l) : cmds[c].kernel # "queued" /\ cmds[c].chain # "queued"

\* A synchronisation of the list or of its queue.
SyncList(l) ==
  /\ Quiet
  /\ Finished(l)
  /\ IF l \in Immediate THEN Live(l) # {} ELSE state[l] = "flight"
  /\ state' = IF l \in Regular THEN [state EXCEPT ![l] = "idle"] ELSE state
  /\ Drain(l, Live(l))
  /\ UNCHANGED <<fresh, call, appended>>

\* Mutant: the command's own completion is enough.
SyncEventEarly(c) ==
  /\ c \in DOMAIN cmds
  /\ Quiet
  /\ cmds[c].chain \in {"queued", "fired"} /\ cmds[c].kernel = "done"
  /\ cmds[c].slot = "live"
  /\ Drain(cmds[c].list, {c})
  /\ UNCHANGED <<fresh, call, appended, state>>

\* A synchronisation of the program's event.
SyncEvent(c) ==
  /\ c \in DOMAIN cmds
  /\ Quiet
  /\ cmds[c].chain = "fired"
  /\ cmds[c].slot = "live"
  /\ Drain(cmds[c].list, {c})
  /\ UNCHANGED <<fresh, call, appended, state>>

-----------------------------------------------------------------------------
(* Executions and resets of regular lists. *)

\* The prologue, which synchronises and drains a list that is in flight, then
\* the submission of the whole body.
Execute(l) ==
  LET late == IF state[l] = "flight" THEN Live(l) ELSE {} IN
  /\ Quiet
  /\ Of(l) # {} /\ \A t \in Threads : call[t].list # l
  /\ "within_cap" \in Rules => Cardinality(Of(l)) <= Cap
  /\ Finished(l)
  /\ Drainable(late)
  /\ Reset(late)
  /\ cmds' = [c \in DOMAIN cmds |->
       IF c \notin Of(l) THEN cmds[c]
       ELSE [cmds[c] EXCEPT !.kernel = "queued",
                            !.chain = IF cmds[c].sig THEN "queued" ELSE "none",
                            !.slot = IF @ = "none" THEN @ ELSE "live"]]
  /\ state' = [state EXCEPT ![l] = "flight"]
  /\ UNCHANGED <<freelist, fresh, call, appended>>

\* zeCommandListReset of a list that was synchronised: its slots and its body
\* go.
ResetList(l) ==
  LET slots == {c \in Of(l) : cmds[c].slot # "none"} IN
  /\ Quiet
  /\ state[l] = "idle"
  /\ Put(slots)
  /\ Reset(slots)
  /\ cmds' = [c \in DOMAIN cmds \ Of(l) |-> cmds[c]]
  /\ state' = [state EXCEPT ![l] = "open"]
  /\ UNCHANGED <<fresh, call, appended>>

-----------------------------------------------------------------------------
Next == \/ \E t \in Threads : \/ \E l \in Lists : GetEvent(t, l)
                              \/ DriverAppend(t) \/ Record(t) \/ Compensate(t)
                           \/ FailRead(t) \/ FailWrite(t)
        \/ \E c \in Ids : Kernel(c) \/ Barrier(c) \/ SyncEvent(c)
        \/ \E l \in Lists : SyncList(l)
        \/ \E l \in Regular : Execute(l) \/ ResetList(l)

Spec == Init /\ [][Next]_vars

-----------------------------------------------------------------------------
(* Properties. *)

\* Past the cap an Append has given its event up when it chains.
Holders(e) == {<<"append", t>> : t \in {t \in Threads : call[t].inj = e /\ call[t].at # "chain"}}
  \union {<<"slot", c>> : c \in {c \in DOMAIN cmds :
             /\ cmds[c].inj = e
             /\ \/ cmds[c].slot = "live"
                \/ cmds[c].slot = "drained" /\ cmds[c].list \in Regular}}

\* An injected event is idle in the free list or times one command, never
\* both and never two, whatever was drained, failed or reset meanwhile.
EventsUnique ==
  \A e \in Events :
    Cardinality(Holders(e)) + (IF e \in ToSet(freelist) \union fresh THEN 1 ELSE 0) <= 1

\* The program sees its event only once its command is done, though another
\* event was signaled in its place: "we need AppendBarrier with wait=inj to
\* force user_signal to fire only after the kernel completed".
SignalFaithful == \A c \in DOMAIN cmds : cmds[c].chain = "fired" => cmds[c].kernel = "done"

\* What is reported of a command is its own timing, and of this execution.
TimingFaithful == \A c \in DOMAIN cmds :
                    cmds[c].slot = "drained" => cmds[c].timing = c /\ cmds[c].kernel = "done"

\* Events in the free list are reset, and nothing on the device will signal
\* them or wait for them.
IdleEventsClean ==
  \A e \in ToSet(freelist) :
    /\ signaled[e] = 0
    /\ \A c \in DOMAIN cmds :
         cmds[c].inj = e => cmds[c].kernel # "queued" /\ cmds[c].chain # "queued"
=============================================================================
