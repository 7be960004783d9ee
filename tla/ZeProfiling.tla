----------------------------- MODULE ZeProfiling -----------------------------
(* The Level Zero profiler (tracer_ze_helpers.include.c): every profiled     *)
(* Append gets a slot, an injected event and edges to the slots it depends   *)
(* on; a synchronisation of the traced program drains what it reaches.       *)
(* Slots live in slabs owned by their command list, and outlive it when      *)
(* another list still points at them.  Every handler runs under one mutex,   *)
(* so a handler is one action; one that waits for the device keeps the mutex *)
(* while it waits.  The device and the program run in between.               *)
EXTENDS Naturals, SequencesExt

CONSTANTS Regular, Immediate, \* command lists, by kind
          InOrder,            \* those created in order
          Events, Queues, Fences,
          Slabs,              \* bound: slab addresses
          SlabSlots,          \* _ZE_SLAB_SLOTS
          MaxWaits,           \* bound: wait events of one Append
          Timed,              \* bound: events whose stashed timestamp is followed
          None,
          Rules               \* the discipline of the program, see below

Cls == Regular \union Immediate

ASSUME ZeAssumption ==
  /\ Regular \intersect Immediate = {}
  /\ InOrder \subseteq Cls
  /\ IsFiniteSet(Slabs)
  /\ SlabSlots \in Nat \ {0}
  /\ MaxWaits \in Nat
  /\ Timed \subseteq Events
  /\ Cls \intersect {"free", "detached"} = {}
  /\ None \notin Cls \union Events \union Queues \union Fences \union Slabs

\* What the traced program abstains from:
\*   "one_signal"  an event has one signaler, a command or the host, between
\*                 two synchronisations; it is reset before a command that
\*                 signals it is submitted, and no command waits for its own
\*   "run_first"   a command list is executed before it is reset
\*   "sync_first"  a list, an event or the context is destroyed only after a
\*                 synchronisation has drained the commands that use it
\*   "quiet_sync"  while a synchronisation returns, no other thread adds to the
\*                 list, queue or fence it is on
\*   "consume"     a list is executed again only when no live command of
\*                 another list depends on its previous execution
\*   "signal_first" a command that waits for an event is submitted only when the
\*                 event is signaled or a submitted command will signal it, and
\*                 the event is not reset while the command waits
ASSUME RulesAssumption ==
  Rules \subseteq {"one_signal", "run_first", "sync_first", "quiet_sync", "consume",
                    "signal_first"}

Addrs == {<<b, i>> : b \in Slabs, i \in 1 .. SlabSlots}

VARIABLES tr,      \* the tracer's state: a record of the fields below
          closed,  \* regular command lists the program has closed
          fired,   \* events in the signaled state
          hook,    \* a synchronisation that returned, its epilogue yet to run
          holder,  \* the handler that waits for the device, holding the mutex
          used     \* history: Timed events a command was to signal since their creation

vars == <<tr, closed, fired, hook, holder, used>>

(* Fields of tr:                                                             *)
(*   cl      _ze_cls: the record of each command list, None if unknown       *)
(*   slab    owner and counters of each slab                                 *)
(*   slot    the slots, with what the device makes of their command          *)
(*   latest  per event, the slot that signals it last                        *)
(*   kts     the Timed events with a stashed kernel timestamp                *)

WaitLists == UNION {[1 .. n -> Events] : n \in 0 .. MaxWaits}

\* A command list's slabs are those it owns; tail is the newest of them.
CommandLists == [tail : Slabs \union {None}, in_flight_q : Queues \union {None},
                 in_flight_fence : Fences \union {None}, n_live : Nat,
                 live_slots : Seq(Addrs)]
SlabRecords == [owner : Cls \union {"free", "detached"}, n_used : 0 .. SlabSlots,
                n_held : 0 .. SlabSlots, n_pinned : 0 .. SlabSlots]

\* preds: the edges of a slot, each with the wait event it stems from, 0 for
\* the one to the in-order predecessor.
Slots == [live : BOOLEAN, inj : BOOLEAN, attr : Events \union {None},
          waits : WaitLists, preds : SUBSET ((0 .. MaxWaits) \X Addrs),
          refs : Nat, device : {"recorded", "running", "done"}]

ASSUME NoneAssumption == None \notin CommandLists \union Addrs

NewCl == [tail |-> None, in_flight_q |-> None, in_flight_fence |-> None,
          n_live |-> 0, live_slots |-> <<>>]
NoSlab == [owner |-> "free", n_used |-> 0, n_held |-> 0, n_pinned |-> 0]
NoSlot == [live |-> FALSE, inj |-> FALSE, attr |-> None, waits |-> <<>>,
           preds |-> {}, refs |-> 0, device |-> "recorded"]

Init == /\ tr = [cl |-> [c \in Cls |-> None],
                 slab |-> [b \in Slabs |-> NoSlab],
                 slot |-> [a \in Addrs |-> NoSlot],
                 latest |-> [e \in Events |-> None],
                 kts |-> {}]
        /\ closed = {}
        /\ fired = {}
        /\ hook = None
        /\ holder = None
        /\ used = {}

Registered == {c \in Cls : tr.cl[c] # None}
Live(t) == {a \in Addrs : t.slot[a].live}
Owner(t, a) == t.slab[a[1]].owner
SlotsOf(t, c) == {a \in Addrs : Owner(t, a) = c /\ a[2] <= t.slab[a[1]].n_used}
IsTail(t, b) == b = t.cl[t.slab[b].owner].tail

\* The handlers that may wait for the device.
Handlers == ({"execute"} \X Regular \X Queues \X (Fences \union {None}))
              \union ({"reset"} \X Regular) \union {<<"sync">>}

Tracers == [cl : [Cls -> CommandLists \union {None}],
            slab : [Slabs -> SlabRecords],
            slot : [Addrs -> Slots],
            latest : [Events -> Addrs \union {None}],
            kts : SUBSET Timed]

TypeOK ==
  /\ tr \in Tracers
  /\ closed \subseteq Regular
  /\ fired \subseteq Events
  /\ holder \in Handlers \union {None}
  /\ used \subseteq Timed

-----------------------------------------------------------------------------
(* The dependency graph. *)

PredsOf(t, s) == {x[2] : x \in t.slot[s].preds}
LivePreds(t, S) == {p \in Live(t) : \E s \in S : p \in PredsOf(t, s)}

\* What _slot_drain reaches from the slots S; drained slots cut the walk.
Reached(t, S) ==
  {a \in Live(t) : \A X \in SUBSET Live(t) :
     S \intersect Live(t) \subseteq X /\ LivePreds(t, X) \subseteq X => a \in X}

\* How many edges the slots S have to p.
Edges(t, S, p) ==
  Cardinality({e \in S \X (0 .. MaxWaits) : <<e[2], p>> \in t.slot[e[1]].preds})

\* The new edges of a: each wait event to its last signaler, if that is live,
\* and on an in-order list the newest live slot.
NewPreds(t, c, a) ==
  LET waits == t.slot[a].waits
      chain == t.cl[c].live_slots
  IN {<<i, t.latest[waits[i]]>> :
        i \in {i \in DOMAIN waits : t.latest[waits[i]] \in Live(t)}}
       \union (IF c \in InOrder /\ chain # <<>> THEN {<<0, Last(chain)>>} ELSE {})

\* The references that the edges preds take on p.
Taken(preds, p) == Cardinality({i \in 0 .. MaxWaits : <<i, p>> \in preds})

\* Mutants: the new slot never becomes its event's last signaler; its edges
\* take no reference.
InstantiateUnpublished(t, c, a) ==
  LET preds == NewPreds(t, c, a)
      made == [t.slot EXCEPT ![a].live = TRUE, ![a].preds = preds]
  IN [t EXCEPT !.slot = [x \in Addrs |->
                  [made[x] EXCEPT !.refs = @ + Taken(preds, x)]],
               !.cl[c].n_live = @ + 1,
               !.cl[c].live_slots = IF c \in InOrder THEN Append(@, a) ELSE @]

InstantiateUncounted(t, c, a) ==
  LET preds == NewPreds(t, c, a)
  IN [t EXCEPT !.slot[a].live = TRUE,
               !.slot[a].preds = preds,
               !.cl[c].n_live = @ + 1,
               !.cl[c].live_slots = IF c \in InOrder THEN Append(@, a) ELSE @,
               !.latest = IF t.slot[a].attr = None THEN @
                          ELSE [@ EXCEPT ![t.slot[a].attr] = a]]

\* _slot_instantiate: resolve the edges against what is live now, take a
\* reference on each, signal attr last.
Instantiate(t, c, a) ==
  LET preds == NewPreds(t, c, a)
      made == [t.slot EXCEPT ![a].live = TRUE, ![a].preds = preds]
  IN [t EXCEPT
        !.slot = [x \in Addrs |->
                    [made[x] EXCEPT !.refs = @ + Taken(preds, x)]],
        !.cl[c].n_live = @ + 1,
        !.cl[c].live_slots = IF c \in InOrder THEN Append(@, a) ELSE @,
        !.latest = IF t.slot[a].attr = None THEN @
                   ELSE [@ EXCEPT ![t.slot[a].attr] = a]]

\* Mutant: the drained slot stays its event's last signaler.
ForgetNothing(t, D) == t.latest

\* _event_latest_clear_if for the slots D.
Forget(t, D) == [e \in Events |-> IF t.latest[e] \in D THEN None ELSE t.latest[e]]

\* Mutant: a drained slot is released though other slots point at it.
UnreferencedOrNot(t, D) == D

\* The slots a drain of D releases: drained, and without a dependent.
Unreferenced(t, D) ==
  {a \in Addrs : /\ t.slot[a].refs = Edges(t, D, a)
                 /\ a \in D \/ (Edges(t, D, a) > 0 /\ ~t.slot[a].live)}

\* Mutant: regular lists give up the hold on their slots as well.
SlabDrainedAnyList(t, gone, b) ==
  LET s == t.slab[b]
      n == Cardinality({a \in gone : a[1] = b})
  IN IF s.owner \in Cls
     THEN IF s.n_held = n /\ ~IsTail(t, b) THEN NoSlab
          ELSE [s EXCEPT !.n_held = @ - n]
     ELSE IF s.owner = "detached"
     THEN IF s.n_pinned = n THEN NoSlab ELSE [s EXCEPT !.n_pinned = @ - n]
     ELSE s

\* _slot_release of the slots gone: it disposes those of immediate lists,
\* unpins those of detached slabs, and leaves those of regular lists for the
\* next Execute.  A slab goes with its last slot, the tail of its list never.
SlabDrained(t, gone, b) ==
  LET s == t.slab[b]
      n == Cardinality({a \in gone : a[1] = b})
  IN CASE s.owner \in Immediate ->
            IF s.n_held = n /\ ~IsTail(t, b) THEN NoSlab
            ELSE [s EXCEPT !.n_held = @ - n]
       [] s.owner = "detached" ->
            IF s.n_pinned = n THEN NoSlab ELSE [s EXCEPT !.n_pinned = @ - n]
       [] OTHER -> s

SlotDrained(t, D, gone, a) ==
  LET s == [t.slot[a] EXCEPT !.refs = @ - Edges(t, D, a),
                             !.live = @ /\ a \notin D,
                             !.preds = IF a \in D THEN {} ELSE @,
                             !.device = IF a \in D THEN "recorded" ELSE @]
  IN IF a \in gone /\ Owner(t, a) \in Immediate
     THEN [s EXCEPT !.inj = FALSE, !.attr = None, !.waits = <<>>] ELSE s

\* The sequence s without the elements of D.
InOrderOf(K) == CHOOSE f \in [1 .. Cardinality(K) -> K] :
                  \A i, j \in 1 .. Cardinality(K) : i < j => f[i] < f[j]
Without(s, D) ==
  LET kept == {i \in DOMAIN s : s[i] \notin D}
  IN [j \in 1 .. Cardinality(kept) |-> s[InOrderOf(kept)[j]]]

\* _slot_drain of all of D: read the timings and stash them for the program's
\* own queries, then drop the edges.
DrainAll(t, D) ==
  LET gone == Unreferenced(t, D)
      slab == [b \in Slabs |-> SlabDrained(t, gone, b)]
  IN [cl |-> [c \in Cls |->
        IF t.cl[c] = None THEN None
        ELSE [t.cl[c] EXCEPT
                !.n_live = @ - Cardinality({a \in D : Owner(t, a) = c}),
                !.live_slots = Without(@, D)]],
      slab |-> slab,
      slot |-> [a \in Addrs |->
        IF slab[a[1]] = NoSlab THEN NoSlot ELSE SlotDrained(t, D, gone, a)],
      latest |-> Forget(t, D),
      kts |-> t.kts \union
        ({t.slot[a].attr : a \in {d \in D : t.slot[d].inj}} \intersect Timed)]

\* zeEventHostSynchronize on the injected events of D has nothing to wait for.
Returns(t, D) == \A a \in D : t.slot[a].inj => t.slot[a].device = "done"

\* The lists L leave the queue and fence indexes.
Land(t, L) ==
  [t EXCEPT !.cl = [c \in Cls |->
     IF c \in L THEN [t.cl[c] EXCEPT !.in_flight_q = None, !.in_flight_fence = None]
     ELSE t.cl[c]]]

\* _cl_drain of the lists L.
DrainCls(t, L) ==
  Land(DrainAll(t, Reached(t, UNION {SlotsOf(t, c) : c \in L})), L)

\* _slot_dispose_resources for the slots S.  A live slot stays live, and the
\* references its edges hold are not given back.
Dispose(t, S) ==
  [t EXCEPT
     !.slot = [a \in Addrs |->
        IF a \in S THEN [t.slot[a] EXCEPT !.inj = FALSE, !.attr = None,
                                          !.waits = <<>>, !.preds = {}]
        ELSE t.slot[a]],
     !.latest = Forget(t, S)]

\* _cl_slab_reclaim of every slab of c: free it, or detach it when some slot
\* still has references.
PinnedNever(t, b) == {} \* Mutant: the slab is freed under its referrers.

Pinned(t, b) == {a \in Addrs : a[1] = b /\ t.slot[a].refs > 0}

Reclaim(t, c) ==
  LET d == Dispose(t, SlotsOf(t, c))
      mine == {b \in Slabs : t.slab[b].owner = c}
      freed == {b \in mine : Pinned(d, b) = {}}
  IN [d EXCEPT
        !.slab = [b \in Slabs |->
           IF b \in freed THEN NoSlab
           ELSE IF b \in mine
                THEN [t.slab[b] EXCEPT !.owner = "detached",
                                       !.n_pinned = Cardinality(Pinned(d, b))]
                ELSE t.slab[b]],
        !.slot = [a \in Addrs |-> IF a[1] \in freed THEN NoSlot ELSE d.slot[a]],
        !.cl[c] = NewCl]

-----------------------------------------------------------------------------
(* Handlers. *)

\* _ze_state_mutex: a handler h that has to wait for the device's work on W
\* keeps the mutex meanwhile, and no other handler starts.
Waits(h, W) == /\ holder = None
               /\ ~Returns(tr, W)
               /\ holder' = h
               /\ UNCHANGED <<tr, closed, hook>>

Proceeds(h, W) == /\ holder \in {None, h}
                  /\ Returns(tr, W)
                  /\ holder' = None

\* zeCommandListCreate, zeCommandListCreateImmediate.
CreateCommandList(c) ==
  /\ holder = None
  /\ tr.cl[c] = None
  /\ tr' = [tr EXCEPT !.cl[c] = NewCl]
  /\ UNCHANGED <<closed, fired, hook, holder, used>>

FreeSlabs(t) == {b \in Slabs : t.slab[b] = NoSlab}

\* _cl_slot_append: the next slot of the tail slab, or of a new slab; the old
\* tail goes when it holds nothing.  Regular lists have one slab.
HasRoom(t, c) == LET b == t.cl[c].tail
                 IN b # None /\ t.slab[b].n_used < SlabSlots

\* Mutant: an old tail that is empty already stays.
WithRoomLeaky(t, c) ==
  LET b == CHOOSE x \in FreeSlabs(t) : TRUE
  IN IF HasRoom(t, c) THEN t
     ELSE [t EXCEPT !.cl[c].tail = b, !.slab[b] = [NoSlab EXCEPT !.owner = c]]

WithRoom(t, c) ==
  LET old == t.cl[c].tail
      b == CHOOSE x \in FreeSlabs(t) : TRUE
      gone == IF old # None /\ t.slab[old].n_held = 0 THEN {old} ELSE {}
  IN IF HasRoom(t, c) THEN t
     ELSE [t EXCEPT
             !.cl[c].tail = b,
             !.slab = [x \in Slabs |->
                IF x = b THEN [NoSlab EXCEPT !.owner = c]
                ELSE IF x \in gone THEN NoSlab ELSE t.slab[x]],
             !.slot = [a \in Addrs |-> IF a[1] \in gone THEN NoSlot ELSE t.slot[a]]]

NextSlot(t, c) == <<t.cl[c].tail, t.slab[t.cl[c].tail].n_used + 1>>

Filled(t, c, a, attr, waits) ==
  [t EXCEPT !.slab[a[1]].n_used = @ + 1,
            !.slab[a[1]].n_held = @ + 1,
            !.slot[a] = [NoSlot EXCEPT
               !.inj = TRUE, !.attr = attr, !.waits = waits,
               !.device = IF c \in Immediate THEN "running" ELSE "recorded"]]

\* A command that waits for waits may be submitted: each is signaled, or a
\* submitted command will do that.
Running == {a \in Addrs : tr.slot[a].device = "running"}
Ready(waits) == ToSet(waits) \subseteq fired \union {tr.slot[a].attr : a \in Running}

\* A profiled zeCommandListAppend*: _get_event, the call, _record_append.  An
\* immediate list submits the command at once.
AppendCommand(c, attr, waits) ==
  LET t == WithRoom(tr, c)
      a == NextSlot(t, c)
  IN /\ holder = None
     /\ c \in Registered \ closed
     /\ HasRoom(tr, c) \/ (FreeSlabs(tr) # {} /\ (c \in Immediate \/ tr.cl[c].tail = None))
     /\ "one_signal" \in Rules /\ attr # None =>
          /\ attr \notin ToSet(waits) \union fired
          /\ tr.latest[attr] = None
          /\ hook # <<"event", attr>>
     /\ "quiet_sync" \in Rules => hook # <<"cl", c>>
     /\ "signal_first" \in Rules /\ c \in Immediate => Ready(waits)
     /\ tr' = Instantiate(Filled(t, c, a, attr, waits), c, a)
     /\ used' = used \union ({attr} \intersect Timed)
     /\ UNCHANGED <<closed, fired, hook, holder>>

\* Mutant: live slots get edges again.
ReinstantiateLive(t, c, a) == IF t.slot[a].inj THEN Instantiate(t, c, a) ELSE t

\* A slot that is not live gets its edges anew.
Reinstantiate(t, c, a) ==
  IF t.slot[a].inj /\ ~t.slot[a].live THEN Instantiate(t, c, a) ELSE t

\* _on_execute_one_cl, then the submission.  A list still in flight is waited
\* for and drained; then the slots of its slab in order.
Resubmitted(t, c) ==
  LET b == t.cl[c].tail
      n == IF b = None THEN 0 ELSE t.slab[b].n_used
      upto[i \in 0 .. n] ==
        IF i = 0 THEN t ELSE Reinstantiate(upto[i - 1], c, <<b, i>>)
  IN upto[n]

Submitted(t, c, q, f) ==
  [t EXCEPT !.cl[c].in_flight_q = q,
            !.cl[c].in_flight_fence = f,
            !.slot = [a \in Addrs |->
               IF a \in SlotsOf(t, c) /\ t.slot[a].inj
               THEN [t.slot[a] EXCEPT !.device = "running"] ELSE t.slot[a]]]

Replayable(c) ==
  \A a \in SlotsOf(tr, c) : \A s \in Live(tr) \ SlotsOf(tr, c) :
    a \notin PredsOf(tr, s)

\* Each wait event of c's commands is signaled by then, or by a command before.
ReadyList(c) ==
  \A a \in SlotsOf(tr, c) : \A e \in ToSet(tr.slot[a].waits) :
    \/ Ready(<<e>>)
    \/ \E x \in SlotsOf(tr, c) : x[2] < a[2] /\ tr.slot[x].attr = e

\* What the program sees to when it executes c, up to the submission.
MayExecute(c, q, f) ==
  /\ "consume" \in Rules /\ c \in closed => Replayable(c)
  /\ "quiet_sync" \in Rules => hook \notin {<<"queue", q>>, <<"fence", f>>}
  /\ "signal_first" \in Rules => ReadyList(c)
  /\ "one_signal" \in Rules =>
       \A a \in SlotsOf(tr, c) : LET attr == tr.slot[a].attr IN
         attr # None => /\ attr \notin fired
                        /\ tr.latest[attr] \in SlotsOf(tr, c) \union {None}
                        /\ hook # <<"event", attr>>

InFlightAnywhere(q) == Registered \* Mutant: a queue drains every list.
InFlightOn(q) == {c \in Registered : tr.cl[c].in_flight_q = q}
InFlightUnder(f) == {c \in Registered : tr.cl[c].in_flight_fence = f}

\* What the prologue waits for: zeCommandQueueSynchronize, then the drain.
OnQueue(q) == {a \in Running : Owner(tr, a) \in InFlightOn(q)}
Outstanding(c) == IF tr.cl[c].in_flight_q = None THEN {}
                  ELSE OnQueue(tr.cl[c].in_flight_q) \union Reached(tr, SlotsOf(tr, c))

Execute(c, q, f) ==
  LET h == <<"execute", c, q, f>>
      t == IF tr.cl[c].in_flight_q = None THEN tr ELSE DrainCls(tr, {c})
  IN /\ c \in Registered
     /\ MayExecute(c, q, f)
     /\ \/ Waits(h, Outstanding(c))
        \/ /\ Proceeds(h, Outstanding(c))
           /\ tr' = Submitted(Resubmitted(t, c), c, q, f)
           /\ closed' = closed \union {c}
           /\ UNCHANGED hook
     /\ UNCHANGED <<fired, used>>

\* zeCommandListReset: drain defensively, then reclaim.
ResetCommandList(c) ==
  LET h == <<"reset", c>>
      D == Reached(tr, SlotsOf(tr, c))
  IN /\ c \in Registered
     /\ \A a \in SlotsOf(tr, c) : tr.slot[a].device # "running"
     /\ "run_first" \in Rules => c \in closed
     /\ \/ Waits(h, D)
        \/ /\ Proceeds(h, D)
           /\ tr' = Reclaim(DrainCls(tr, {c}), c)
           /\ closed' = closed \ {c}
           /\ UNCHANGED hook
     /\ UNCHANGED <<fired, used>>

\* zeCommandListDestroy: no drain, the device no longer uses the list.
DestroyCommandList(c) ==
  /\ holder = None
  /\ c \in Registered
  /\ \A a \in SlotsOf(tr, c) : tr.slot[a].device # "running"
  /\ "sync_first" \in Rules => tr.cl[c].n_live = 0
  /\ tr' = [Reclaim(tr, c) EXCEPT !.cl[c] = None]
  /\ closed' = closed \ {c}
  /\ UNCHANGED <<fired, hook, holder, used>>

\* zeContextDestroy: every list of the context goes, slabs are just freed.
DestroyContext ==
  LET mine == {a \in Addrs : Owner(tr, a) \in Cls}
      t == Dispose(tr, mine)
  IN /\ holder = None
     /\ Registered # {}
     /\ \A a \in mine : tr.slot[a].device # "running"
     /\ "sync_first" \in Rules => Live(tr) = {}
     /\ tr' = [t EXCEPT
                 !.cl = [c \in Cls |-> None],
                 !.slab = [b \in Slabs |->
                    IF t.slab[b].owner \in Cls THEN NoSlab ELSE t.slab[b]],
                 !.slot = [a \in Addrs |-> IF a \in mine THEN NoSlot ELSE t.slot[a]]]
     /\ closed' = {}
     /\ UNCHANGED <<fired, hook, holder, used>>

\* zeEventDestroy; the address may name another event from then on.  No
\* command the device may still run refers to the event.
Mentions(a, e) == tr.slot[a].attr = e \/ e \in ToSet(tr.slot[a].waits)

\* _event_state_del.
EvictedLatest(t, e) == [t EXCEPT !.latest[e] = None] \* Mutant: the timing stays.
Evicted(t, e) == [t EXCEPT !.latest[e] = None, !.kts = @ \ {e}]

DestroyEvent(e) ==
  /\ holder = None
  /\ \A a \in Addrs : Mentions(a, e) =>
       Owner(tr, a) \notin Regular /\ tr.slot[a].device # "running"
  /\ "sync_first" \in Rules => tr.latest[e] = None
  /\ tr' = Evicted(tr, e)
  /\ fired' = fired \ {e}
  /\ used' = used \ {e}
  /\ UNCHANGED <<closed, hook, holder>>

-----------------------------------------------------------------------------
(* A synchronisation: the call returns, then its epilogue runs _on_sync.     *)

Quiet(L) == \A c \in L : \A a \in SlotsOf(tr, c) : tr.slot[a].device # "running"

\* Synchronisations that find nothing to drain are left out.
SyncReturns(kind, h) ==
  /\ hook = None
  /\ \/ kind = "event" /\ h \in fired /\ tr.latest[h] # None
     \/ kind = "cl" /\ h \in Immediate \intersect Registered
          /\ tr.cl[h].n_live > 0 /\ Quiet({h})
     \/ kind = "queue" /\ h \in Queues
          /\ InFlightOn(h) # {} /\ Quiet(InFlightOn(h))
     \/ kind = "fence" /\ h \in Fences
          /\ InFlightUnder(h) # {} /\ Quiet(InFlightUnder(h))
  /\ hook' = <<kind, h>>
  /\ UNCHANGED <<tr, closed, fired, holder, used>>

\* _ZE_SYNC_EVENT: the slot that signals e last, when its list still exists;
\* the list has landed once nothing of it is live.
OnSyncEvent(e) ==
  LET s == tr.latest[e]
      D == Reached(tr, {s})
      t == DrainAll(tr, D)
      c == Owner(tr, s)
  IN IF s # None /\ c \in Cls
     THEN \/ Waits(<<"sync">>, D)
          \/ /\ Proceeds(<<"sync">>, D)
             /\ tr' = IF t.cl[c].n_live = 0 THEN Land(t, {c}) ELSE t
             /\ hook' = None
     ELSE holder = None /\ hook' = None /\ UNCHANGED <<tr, holder>>

\* _ZE_SYNC_CL, _ZE_SYNC_QUEUE, _ZE_SYNC_FENCE: the lists L, one by one.
OnSyncCls(L) ==
  LET D == Reached(tr, UNION {SlotsOf(tr, c) : c \in L})
  IN \/ Waits(<<"sync">>, D)
     \/ Proceeds(<<"sync">>, D) /\ tr' = DrainCls(tr, L) /\ hook' = None

OnSync == /\ hook # None
          /\ \/ hook[1] = "event" /\ OnSyncEvent(hook[2])
             \/ hook[1] = "cl" /\ OnSyncCls({hook[2]} \intersect Registered)
             \/ hook[1] = "queue" /\ OnSyncCls(InFlightOn(hook[2]))
             \/ hook[1] = "fence" /\ OnSyncCls(InFlightUnder(hook[2]))
          /\ UNCHANGED <<closed, fired, used>>

-----------------------------------------------------------------------------
(* The device and the program. *)

\* A command ends when its wait events are signaled and, on an in-order list,
\* everything before it has ended; it signals its event.
Complete(a) ==
  /\ tr.slot[a].device = "running"
  /\ ToSet(tr.slot[a].waits) \subseteq fired
  /\ Owner(tr, a) \in InOrder =>
       \A x \in PredsOf(tr, a) :
         Owner(tr, x) = Owner(tr, a) => tr.slot[x].device # "running"
  /\ tr' = [tr EXCEPT !.slot[a].device = "done"]
  /\ fired' = fired \union ({tr.slot[a].attr} \ {None})
  /\ UNCHANGED <<closed, hook, holder, used>>

\* zeEventHostSignal, zeEventHostReset: not hooked.
HostSignal(e) == /\ e \notin fired
                 /\ "one_signal" \in Rules => tr.latest[e] = None
                 /\ fired' = fired \union {e}
                 /\ UNCHANGED <<tr, closed, hook, holder, used>>

HostReset(e) == /\ e \in fired
                /\ "signal_first" \in Rules =>
                     \A a \in Running : e \notin ToSet(tr.slot[a].waits)
                /\ fired' = fired \ {e}
                /\ UNCHANGED <<tr, closed, hook, holder, used>>

-----------------------------------------------------------------------------
Next == \/ \E c \in Cls : \/ CreateCommandList(c)
                          \/ DestroyCommandList(c)
                          \/ \E e \in Events \union {None}, w \in WaitLists :
                               AppendCommand(c, e, w)
        \/ \E c \in Regular : \/ ResetCommandList(c)
                              \/ \E q \in Queues, f \in Fences \union {None} :
                                   Execute(c, q, f)
        \/ DestroyContext
        \/ \E e \in Events : DestroyEvent(e) \/ HostSignal(e) \/ HostReset(e)
        \/ \E k \in {"event", "cl", "queue", "fence"},
              h \in Events \union Cls \union Queues \union Fences : SyncReturns(k, h)
        \/ OnSync
        \/ \E a \in Addrs : Complete(a)

Spec == Init /\ [][Next]_vars

-----------------------------------------------------------------------------
(* What the holder of the mutex waits for. *)

\* The slots an epilogue drains from.
SyncSlots ==
  LET Of(L) == UNION {SlotsOf(tr, c) : c \in L}
  IN CASE hook[1] = "event" -> {tr.latest[hook[2]]}
       [] hook[1] = "cl" -> Of({hook[2]} \intersect Registered)
       [] hook[1] = "queue" -> Of(InFlightOn(hook[2]))
       [] hook[1] = "fence" -> Of(InFlightUnder(hook[2]))

AwaitedBy(h) == CASE h[1] = "execute" -> Outstanding(h[2])
                  [] h[1] = "reset" -> Reached(tr, SlotsOf(tr, h[2]))
                  [] h[1] = "sync" -> Reached(tr, SyncSlots)
Unfinished == {a \in AwaitedBy(holder) : tr.slot[a].inj /\ tr.slot[a].device # "done"}

\* Whatever can end when the commands X have ended is in X.
EndsOnItsOwn(X) ==
  \A a \in Running :
    /\ ToSet(tr.slot[a].waits) \subseteq fired \union {tr.slot[x].attr : x \in X}
    /\ Owner(tr, a) \in InOrder =>
         \A p \in PredsOf(tr, a) \intersect Running : Owner(tr, p) = Owner(tr, a) => p \in X
    => a \in X

-----------------------------------------------------------------------------
(* Properties. *)

\* _slot_drain has no cycle guard: "the edges form a DAG".
PredsAcyclic == \A a \in Live(tr) : a \notin Reached(tr, LivePreds(tr, {a}))

\* A live slot's edges lead to slots whose memory is still there, so that no
\* drain follows a pointer into a freed slab.
NoDanglingPred == \A s \in Live(tr) : \A p \in PredsOf(tr, s) :
                    Owner(tr, p) # "free" /\ p[2] <= tr.slab[p[1]].n_used

\* The counts the code keeps instead of lists are what they stand for: refs
\* the edges of live slots, n_live and live_slots the live slots of a list.
CountsExact ==
  /\ \A a \in Addrs : tr.slot[a].refs = Edges(tr, Live(tr), a)
  /\ \A c \in Registered :
       LET live == {a \in Live(tr) : Owner(tr, a) = c}
       IN /\ tr.cl[c].n_live = Cardinality(live)
          /\ c \in InOrder => /\ ToSet(tr.cl[c].live_slots) = live
                              /\ Len(tr.cl[c].live_slots) = Cardinality(live)

\* A slab is there exactly as long as somebody needs it: an immediate list
\* keeps no empty slab but its tail, a detached slab is one that a live slot
\* of another list still points into.
SlabsNeeded ==
  \A b \in Slabs :
    /\ tr.slab[b].owner \in Immediate /\ ~IsTail(tr, b) => tr.slab[b].n_held > 0
    /\ tr.slab[b].owner = "detached" =>
         \E s \in Live(tr) : \E p \in PredsOf(tr, s) :
           p[1] = b /\ s[1] # b

\* An event's last signaler is a live slot that signals it.
LatestIsLive == \A e \in Events : tr.latest[e] # None =>
                  tr.latest[e] \in Live(tr) /\ tr.slot[tr.latest[e]].attr = e

\* A stashed timing is served for an event only when some command was to
\* signal that event, never for a new event at the address of a destroyed one.
TimestampsFresh == tr.kts \subseteq used

\* "Drain runs after a sync that already completed the work, so the query returns
\* immediately": an epilogue and a reset never wait under the mutex.
OnlyReplaysWait == holder # None => holder[1] = "execute"

\* The commands the device will end without another call of the program: the
\* least set closed under Complete.
Ending ==
  {a \in Running : \A X \in SUBSET Running : EndsOnItsOwn(X) => a \in X}

\* "Syncing a QUEUE (never a user event) only observes already-submitted work":
\* what a handler waits for under the mutex ends without another call of the
\* program, which may be behind that mutex or in the thread that waits.
NeverStuck ==
  holder # None => Unfinished \subseteq Ending
=============================================================================
