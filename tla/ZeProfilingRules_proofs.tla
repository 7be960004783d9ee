------------------------ MODULE ZeProfilingRules_proofs ------------------------
(* What the discipline of the traced program gives beyond exact counters:    *)
(* the edges form a DAG, a timing goes only to the event it belongs to, and  *)
(* no drain waits for a command that is not submitted.                       *)
EXTENDS ZeProfiling_proofs

-----------------------------------------------------------------------------
(* The invariant, of a tracer t, closed lists K, fired events F and a        *)
(* pending epilogue h.                                                       *)

\* A regular list has one slab.
OneSlab(t) == \A b \in Slabs : t.slab[b].owner \in Regular => IsTail(t, b)

\* What is not closed has not been executed.
Unrun(t, K) == \A c \in Regular \ K : \A a \in SlotsOf(t, c) :
                 t.slot[a].live /\ t.slot[a].inj /\ t.slot[a].device = "recorded"

\* A list that is not in flight has no live slot, unless it is still open.
Flight(t, K) ==
  \A c \in Cls : t.cl[c] # None =>
    /\ c \notin K \/ t.cl[c].in_flight_q = None =>
         t.cl[c].in_flight_q = None /\ t.cl[c].in_flight_fence = None
    /\ c \in K /\ t.cl[c].in_flight_q = None => LiveOf(t, c) = {}

\* The device has the live slots of closed and immediate lists, and no others.
OnDevice(t, K) ==
  /\ \A a \in Live(t) : t.slot[a].inj
  /\ \A a \in Live(t) : Owner(t, a) \in K \union Immediate => t.slot[a].device # "recorded"
  /\ \A a \in Addrs : t.slot[a].device # "recorded" => t.slot[a].live

Base(t, K) == OneSlab(t) /\ Unrun(t, K) /\ Flight(t, K) /\ OnDevice(t, K)

\* An event has one live signaler, and one in each regular list.
Signals(t) ==
  /\ \A a \in Live(t) : t.slot[a].attr # None => t.latest[t.slot[a].attr] = a
  /\ \A c \in Regular : \A a, b \in SlotsOf(t, c) :
       t.slot[a].attr = t.slot[b].attr /\ t.slot[a].attr # None => a = b

\* X is closed under edges and holds the predecessors of a, but not a.
Below(t, a, X) == /\ X \subseteq Live(t)
                  /\ a \notin X
                  /\ LivePreds(t, {a}) \subseteq X
                  /\ LivePreds(t, X) \subseteq X
Acyclic(t) == \A a \in Live(t) : \E X : Below(t, a, X)

\* What an edge to a live slot stands for.
EdgeMeans(t, a, x) ==
  IF x[1] = 0 THEN Owner(t, a) = Owner(t, x[2]) /\ Owner(t, a) \in InOrder
  ELSE x[1] \in DOMAIN t.slot[a].waits /\ t.slot[x[2]].attr = t.slot[a].waits[x[1]]

Edged(t) ==
  \A a \in Live(t) : \A x \in t.slot[a].preds : x[2] \in Live(t) => EdgeMeans(t, a, x)

\* A command that has ended left nothing behind it unfinished.
Ended(t, F) ==
  /\ Edged(t)
  /\ \A a \in Live(t) : t.slot[a].attr \in F => t.slot[a].device = "done"
  /\ \A a \in Live(t) : t.slot[a].device = "done" =>
       \A p \in PredsOf(t, a) \intersect Live(t) : t.slot[p].device = "done"

\* The lists that a pending epilogue drains.
Awaited(t, h, c) ==
  \/ h = <<"cl", c>> /\ c \in Immediate
  \/ h = <<"queue", t.cl[c].in_flight_q>>
  \/ h = <<"fence", t.cl[c].in_flight_fence>>

\* What a pending epilogue drains has ended.
Over(t, h) ==
  h # None =>
    /\ h[1] = "event" => h[2] \in Events
    /\ h[1] = "queue" => h[2] \in Queues
    /\ h[1] = "fence" => h[2] \in Fences
    /\ h[1] = "event" /\ t.latest[h[2]] # None => t.slot[t.latest[h[2]]].device = "done"
    /\ \A a \in Live(t) : Awaited(t, h, Owner(t, a)) => t.slot[a].device # "running"

-----------------------------------------------------------------------------
(* Steps that only take commands away. *)

SameCommand(t, u, a) ==
  /\ u.slot[a].inj = t.slot[a].inj
  /\ u.slot[a].attr = t.slot[a].attr
  /\ u.slot[a].waits = t.slot[a].waits
  /\ u.slot[a].preds = t.slot[a].preds
  /\ u.slot[a].device = t.slot[a].device
  /\ Owner(u, a) = Owner(t, a)

SameFlight(t, u, c) ==
  /\ u.cl[c].in_flight_q = t.cl[c].in_flight_q
  /\ u.cl[c].in_flight_fence = t.cl[c].in_flight_fence

Grounded(u, c) == /\ u.cl[c].in_flight_q = None
                  /\ u.cl[c].in_flight_fence = None
                  /\ LiveOf(u, c) = {}

\* u has no command that t has not, and none is lost before it has ended.
Lesser(t, u) ==
  /\ \A a \in Live(u) : a \in Live(t) /\ SameCommand(t, u, a)
  /\ \A a \in Addrs : u.slot[a].device \in {t.slot[a].device, "recorded"}
  /\ \A a \in Live(t) \ Live(u) : /\ u.slot[a].device = "recorded"
                                  /\ t.slot[a].inj => t.slot[a].device = "done"
  /\ \A c \in Regular : \A a \in SlotsOf(u, c) :
       a \in SlotsOf(t, c) /\ u.slot[a].attr = t.slot[a].attr /\ u.slot[a].inj = t.slot[a].inj
  /\ \A b \in Slabs : u.slab[b].owner \in Regular =>
       \/ IsTail(u, b)
       \/ /\ t.slab[b].owner = u.slab[b].owner
          /\ u.cl[u.slab[b].owner].tail = t.cl[u.slab[b].owner].tail
  /\ \A c \in Cls : u.cl[c] # None =>
       (t.cl[c] # None /\ SameFlight(t, u, c)) \/ Grounded(u, c)
  /\ \A e \in Events : /\ u.latest[e] \in {t.latest[e], None}
                       /\ t.latest[e] \in Live(u) => u.latest[e] = t.latest[e]

LEMMA LesserSame ==
  ASSUME NEW t
  PROVE  Lesser(t, t)
BY DEF Lesser, SameCommand, SameFlight

LEMMA LesserTransitive ==
  ASSUME NEW t, NEW u, NEW w, Lesser(t, u), Lesser(u, w)
  PROVE  Lesser(t, w)
<1>1. \A a \in Live(w) : a \in Live(u) /\ a \in Live(t) /\ SameCommand(t, w, a)
  BY DEF Lesser, SameCommand
<1>2. \A a \in Addrs : w.slot[a].device \in {t.slot[a].device, "recorded"}
  BY DEF Lesser
<1>3. \A a \in Live(t) \ Live(w) : /\ w.slot[a].device = "recorded"
                                   /\ t.slot[a].inj => t.slot[a].device = "done"
  <2> TAKE a \in Live(t) \ Live(w)
  <2>1. CASE a \in Live(u)
    BY <2>1 DEF Lesser, SameCommand
  <2>2. CASE a \notin Live(u)
    <3>1. u.slot[a].device = "recorded" /\ (t.slot[a].inj => t.slot[a].device = "done")
      BY <2>2 DEF Lesser
    <3>2. a \in Addrs
      BY DEF Live
    <3>3. w.slot[a].device \in {u.slot[a].device, "recorded"}
      BY <3>2 DEF Lesser
    <3> QED
      BY <3>1, <3>3
  <2> QED
    BY <2>1, <2>2
<1>4. \A c \in Regular : \A a \in SlotsOf(w, c) :
        a \in SlotsOf(t, c) /\ w.slot[a].attr = t.slot[a].attr /\ w.slot[a].inj = t.slot[a].inj
  <2> TAKE c \in Regular
  <2> TAKE a \in SlotsOf(w, c)
  <2>1. a \in SlotsOf(u, c) /\ w.slot[a].attr = u.slot[a].attr /\ w.slot[a].inj = u.slot[a].inj
    BY DEF Lesser
  <2>2. a \in SlotsOf(t, c) /\ u.slot[a].attr = t.slot[a].attr /\ u.slot[a].inj = t.slot[a].inj
    BY <2>1 DEF Lesser
  <2> QED
    BY <2>1, <2>2
<1>5. \A b \in Slabs : w.slab[b].owner \in Regular =>
        \/ IsTail(w, b)
        \/ /\ t.slab[b].owner = w.slab[b].owner
           /\ w.cl[w.slab[b].owner].tail = t.cl[w.slab[b].owner].tail
  <2> SUFFICES ASSUME NEW b \in Slabs, w.slab[b].owner \in Regular, ~IsTail(w, b)
               PROVE  /\ t.slab[b].owner = w.slab[b].owner
                      /\ w.cl[w.slab[b].owner].tail = t.cl[w.slab[b].owner].tail
    OBVIOUS
  <2>1. /\ u.slab[b].owner = w.slab[b].owner
        /\ w.cl[w.slab[b].owner].tail = u.cl[w.slab[b].owner].tail
    BY DEF Lesser
  <2>2. ~IsTail(u, b)
    BY <2>1 DEF IsTail
  <2>3. /\ t.slab[b].owner = u.slab[b].owner
        /\ u.cl[u.slab[b].owner].tail = t.cl[u.slab[b].owner].tail
    BY <2>1, <2>2 DEF Lesser
  <2> QED
    BY <2>1, <2>3
<1>6. \A c \in Cls : w.cl[c] # None =>
        (t.cl[c] # None /\ SameFlight(t, w, c)) \/ Grounded(w, c)
  <2> SUFFICES ASSUME NEW c \in Cls, w.cl[c] # None, ~Grounded(w, c)
               PROVE  t.cl[c] # None /\ SameFlight(t, w, c)
    OBVIOUS
  <2>1. u.cl[c] # None /\ SameFlight(u, w, c)
    BY DEF Lesser
  <2>2. LiveOf(w, c) \subseteq LiveOf(u, c)
    BY DEF Lesser, LiveOf, SameCommand
  <2>3. ~Grounded(u, c)
    BY <2>1, <2>2 DEF Grounded, SameFlight
  <2>4. t.cl[c] # None /\ SameFlight(t, u, c)
    BY <2>1, <2>3 DEF Lesser
  <2> QED
    BY <2>1, <2>4 DEF SameFlight
<1>7. \A e \in Events : /\ w.latest[e] \in {t.latest[e], None}
                        /\ t.latest[e] \in Live(w) => w.latest[e] = t.latest[e]
  <2> TAKE e \in Events
  <2>1. /\ u.latest[e] \in {t.latest[e], None} /\ w.latest[e] \in {u.latest[e], None}
        /\ t.latest[e] \in Live(u) => u.latest[e] = t.latest[e]
        /\ u.latest[e] \in Live(w) => w.latest[e] = u.latest[e]
    BY DEF Lesser
  <2> QED
    BY <1>1, <2>1
<1> QED
  BY <1>1, <1>2, <1>3, <1>4, <1>5, <1>6, <1>7 DEF Lesser

LEMMA LesserBase ==
  ASSUME NEW t, NEW u, Lesser(t, u), NEW K, Base(t, K), NEW J, J \subseteq K,
         \A c \in K \ J : SlotsOf(u, c) = {} /\ (u.cl[c] # None => Grounded(u, c))
  PROVE  Base(u, J)
<1>1. OneSlab(u)
  <2> SUFFICES ASSUME NEW b \in Slabs, u.slab[b].owner \in Regular PROVE IsTail(u, b)
    BY DEF OneSlab
  <2>1. CASE /\ t.slab[b].owner = u.slab[b].owner
             /\ u.cl[u.slab[b].owner].tail = t.cl[u.slab[b].owner].tail
    <3>1. IsTail(t, b)
      BY <2>1 DEF Base, OneSlab
    <3> QED
      BY <2>1, <3>1 DEF IsTail
  <2> QED
    BY <2>1 DEF Lesser
<1>2. Unrun(u, J)
  <2> SUFFICES ASSUME NEW c \in Regular \ J, NEW a \in SlotsOf(u, c)
               PROVE  u.slot[a].live /\ u.slot[a].inj /\ u.slot[a].device = "recorded"
    BY DEF Unrun
  <2>1. c \in Regular \ K
    OBVIOUS
  <2>2. a \in SlotsOf(t, c) /\ a \in Addrs
    BY DEF Lesser, SlotsOf
  <2>3. t.slot[a].live /\ t.slot[a].inj /\ t.slot[a].device = "recorded"
    BY <2>1, <2>2 DEF Base, Unrun
  <2>4. a \in Live(u)
    BY <2>2, <2>3 DEF Lesser, Live
  <2>5. SameCommand(t, u, a) /\ u.slot[a].live
    BY <2>4 DEF Lesser, Live
  <2> QED
    BY <2>3, <2>5 DEF SameCommand
<1>3. Flight(u, J)
  <2> SUFFICES ASSUME NEW c \in Cls, u.cl[c] # None
               PROVE  /\ c \notin J \/ u.cl[c].in_flight_q = None =>
                           u.cl[c].in_flight_q = None /\ u.cl[c].in_flight_fence = None
                      /\ c \in J /\ u.cl[c].in_flight_q = None => LiveOf(u, c) = {}
    BY DEF Flight
  <2>1. CASE Grounded(u, c)
    BY <2>1 DEF Grounded
  <2>2. CASE ~Grounded(u, c)
    <3>1. t.cl[c] # None /\ SameFlight(t, u, c)
      BY <2>2 DEF Lesser
    <3>2. c \in J <=> c \in K
      BY <2>2
    <3>3. /\ c \notin K \/ t.cl[c].in_flight_q = None =>
               t.cl[c].in_flight_q = None /\ t.cl[c].in_flight_fence = None
          /\ c \in K /\ t.cl[c].in_flight_q = None => LiveOf(t, c) = {}
      BY <3>1 DEF Base, Flight
    <3>4. LiveOf(u, c) \subseteq LiveOf(t, c)
      BY DEF Lesser, LiveOf, SameCommand
    <3> QED
      BY <3>1, <3>2, <3>3, <3>4 DEF SameFlight
  <2> QED
    BY <2>1, <2>2
<1>4. OnDevice(u, J)
  <2>1. \A a \in Live(u) : u.slot[a].inj
    BY DEF Base, OnDevice, Lesser, SameCommand
  <2>2. \A a \in Live(u) : Owner(u, a) \in J \union Immediate => u.slot[a].device # "recorded"
    BY DEF Base, OnDevice, Lesser, SameCommand
  <2>3. ASSUME NEW a \in Addrs, u.slot[a].device # "recorded" PROVE u.slot[a].live
    <3>1. t.slot[a].device # "recorded"
      BY <2>3 DEF Lesser
    <3>2. a \in Live(t)
      BY <3>1 DEF Base, OnDevice, Live
    <3>3. a \in Live(u)
      BY <2>3, <3>2 DEF Lesser
    <3> QED
      BY <3>3 DEF Live
  <2> QED
    BY <2>1, <2>2, <2>3 DEF OnDevice
<1> QED
  BY <1>1, <1>2, <1>3, <1>4 DEF Base

LEMMA LesserSignals ==
  ASSUME NEW t \in Tracers, NEW u, Lesser(t, u), Signals(t)
  PROVE  Signals(u)
<1>1. ASSUME NEW a \in Live(u), u.slot[a].attr # None
      PROVE  u.latest[u.slot[a].attr] = a
  <2>1. a \in Live(t) /\ u.slot[a].attr = t.slot[a].attr /\ a \in Addrs
    BY DEF Lesser, SameCommand, Live
  <2>2. t.slot[a].attr \in Events
    BY <1>1, <2>1, SlotTypes
  <2>3. t.latest[t.slot[a].attr] = a
    BY <1>1, <2>1 DEF Signals
  <2> QED
    BY <2>1, <2>2, <2>3 DEF Lesser
<1>2. ASSUME NEW c \in Regular, NEW a \in SlotsOf(u, c), NEW b \in SlotsOf(u, c),
             u.slot[a].attr = u.slot[b].attr, u.slot[a].attr # None
      PROVE  a = b
  BY <1>2 DEF Lesser, Signals
<1> QED
  BY <1>1, <1>2 DEF Signals

LEMMA LesserAcyclic ==
  ASSUME NEW t, NEW u, Lesser(t, u), Acyclic(t)
  PROVE  Acyclic(u)
<1> SUFFICES ASSUME NEW a \in Live(u) PROVE \E X : Below(u, a, X)
  BY DEF Acyclic
<1>1. a \in Live(t)
  BY DEF Lesser
<1>2. PICK X : Below(t, a, X)
  BY <1>1 DEF Acyclic
<1>3. \A s \in Live(u) : PredsOf(u, s) = PredsOf(t, s)
  BY DEF Lesser, SameCommand, PredsOf
<1>4. Live(u) \subseteq Live(t)
  BY DEF Lesser
<1>5. Below(u, a, X \intersect Live(u))
  <2> DEFINE Y == X \intersect Live(u)
  <2>1. LivePreds(u, {a}) \subseteq Y
    BY <1>2, <1>3, <1>4 DEF Below, LivePreds
  <2>2. LivePreds(u, Y) \subseteq Y
    BY <1>2, <1>3, <1>4 DEF Below, LivePreds
  <2> QED
    BY <1>2, <2>1, <2>2 DEF Below
<1> QED
  BY <1>5

LEMMA LesserEnded ==
  ASSUME NEW t, NEW u, Lesser(t, u), NEW F, Ended(t, F), NEW G, G \subseteq F
  PROVE  Ended(u, G)
<1>1. \A a \in Live(u) : a \in Live(t) /\ SameCommand(t, u, a)
  BY DEF Lesser
<1>2. ASSUME NEW a \in Live(u), NEW x \in u.slot[a].preds, x[2] \in Live(u)
      PROVE  EdgeMeans(u, a, x)
  <2>1. EdgeMeans(t, a, x)
    BY <1>1, <1>2 DEF Ended, Edged, SameCommand
  <2> QED
    BY <1>1, <1>2, <2>1 DEF EdgeMeans, SameCommand
<1>3. \A a \in Live(u) : u.slot[a].attr \in G => u.slot[a].device = "done"
  BY <1>1 DEF Ended, SameCommand
<1>4. ASSUME NEW a \in Live(u), u.slot[a].device = "done",
             NEW p \in PredsOf(u, a) \intersect Live(u)
      PROVE  u.slot[p].device = "done"
  <2>1. p \in PredsOf(t, a) \intersect Live(t)
    BY <1>1 DEF SameCommand, PredsOf
  <2> QED
    BY <1>1, <1>4, <2>1 DEF Ended, SameCommand
<1> QED
  BY <1>2, <1>3, <1>4 DEF Ended, Edged

LEMMA LesserOver ==
  ASSUME NEW t, NEW u, Lesser(t, u), Sound(u, {}), NEW h, Over(t, h)
  PROVE  Over(u, h)
<1> SUFFICES ASSUME h # None PROVE Over(u, h)
  BY DEF Over
<1>1. ASSUME h[1] = "event", u.latest[h[2]] # None
      PROVE  u.slot[u.latest[h[2]]].device = "done"
  <2>1. h[2] \in Events
    BY <1>1 DEF Over
  <2>2. u.latest[h[2]] = t.latest[h[2]] /\ u.latest[h[2]] \in Live(u)
    BY <1>1, <2>1, SoundFacts DEF Lesser, LatestLive
  <2>3. t.slot[t.latest[h[2]]].device = "done"
    BY <1>1, <2>2 DEF Over
  <2> QED
    BY <2>2, <2>3 DEF Lesser, SameCommand
<1>2. ASSUME NEW a \in Live(u), Awaited(u, h, Owner(u, a))
      PROVE  u.slot[a].device # "running"
  <2> DEFINE c == Owner(u, a)
  <2>1. a \in Live(t) /\ SameCommand(t, u, a)
    BY DEF Lesser
  <2>2. c \in Cls /\ u.cl[c] # None
    <3>1. a \in Addrs /\ a[1] \in Slabs
      BY AddrFacts DEF Live
    <3>2. c \in Cls
      BY <3>1, SoundFacts DEF SlotKnown, Live
    <3> QED
      BY <3>1, <3>2, SoundFacts DEF SlabKnown, Owner
  <2>3. ~Grounded(u, c)
    BY DEF Grounded, LiveOf
  <2>4. SameFlight(t, u, c)
    BY <2>2, <2>3 DEF Lesser
  <2>5. Owner(t, a) = c
    BY <2>1 DEF SameCommand
  <2> HIDE DEF c
  <2>6. Awaited(t, h, c)
    BY <1>2, <2>4 DEF Awaited, SameFlight, c
  <2>7. t.slot[a].device # "running"
    BY <2>1, <2>5, <2>6 DEF Over
  <2> QED
    BY <2>1, <2>7 DEF SameCommand
<1> QED
  BY <1>1, <1>2 DEF Over

LEMMA DrainLesser ==
  ASSUME NEW t, Sound(t, {}), NEW D, D \subseteq Live(t), Returns(t, D)
  PROVE  Lesser(t, DrainAll(t, D))
<1> DEFINE u == DrainAll(t, D)
           gone == Unreferenced(t, D)
<1>1. /\ t \in Tracers /\ Live(u) = Live(t) \ D
      /\ \A b \in Slabs : SlabKnown(t, b)
  BY SoundFacts, DrainSound
<1>2. /\ u = [cl |-> u.cl, slab |-> u.slab, slot |-> u.slot, latest |-> u.latest,
              kts |-> u.kts]
      /\ u.slab = [b \in Slabs |-> SlabDrained(t, gone, b)]
      /\ u.slot = [a \in Addrs |-> IF u.slab[a[1]] = NoSlab THEN NoSlot
                                   ELSE SlotDrained(t, D, gone, a)]
      /\ u.cl = [c \in Cls |->
           IF t.cl[c] = None THEN None
           ELSE [t.cl[c] EXCEPT
                   !.n_live = @ - Cardinality({a \in D : Owner(t, a) = c}),
                   !.live_slots = Without(@, D)]]
      /\ u.latest = Forget(t, D)
      /\ u.kts = t.kts \union
           ({t.slot[a].attr : a \in {d \in D : t.slot[d].inj}} \intersect Timed)
  BY DrainShape
<1>3. \A a \in Addrs : u.slot[a].live => u.slab[a[1]].owner = t.slab[a[1]].owner
  BY DrainedSlot
<1> HIDE DEF u
<1>4. \A b \in Slabs :
         \/ u.slab[b] = NoSlab
         \/ u.slab[b].owner = t.slab[b].owner /\ u.slab[b].n_used = t.slab[b].n_used
  <2> TAKE b \in Slabs
  <2>1. u.slab[b] = SlabDrained(t, gone, b)
    BY <1>2
  <2> QED
    BY <2>1, DrainedSlab
<1>5. /\ NoSlot.live = FALSE /\ NoSlot.device = "recorded"
      /\ NoSlab.owner = "free" /\ "free" \notin Cls /\ Regular \intersect Immediate = {}
  BY ZeAssumption DEF NoSlot, NoSlab
<1>6. ASSUME NEW a \in Addrs, u.slab[a[1]] # NoSlab
      PROVE  /\ u.slot[a].device = IF a \in D THEN "recorded" ELSE t.slot[a].device
             /\ a \notin gone \/ Owner(t, a) \notin Immediate =>
                  /\ u.slot[a].inj = t.slot[a].inj
                  /\ u.slot[a].attr = t.slot[a].attr
                  /\ u.slot[a].waits = t.slot[a].waits
                  /\ a \notin D => u.slot[a].preds = t.slot[a].preds
  <2> DEFINE s == t.slot[a]
             r == [s EXCEPT !.refs = s.refs - Edges(t, D, a),
                            !.live = s.live /\ a \notin D,
                            !.preds = IF a \in D THEN {} ELSE s.preds,
                            !.device = IF a \in D THEN "recorded" ELSE s.device]
  <2>1. s \in Slots
    BY <1>1, SlotTypes
  <2>2. u.slot[a] = IF a \in gone /\ Owner(t, a) \in Immediate
                    THEN [r EXCEPT !.inj = FALSE, !.attr = None, !.waits = <<>>] ELSE r
    BY <1>2, <1>6 DEF SlotDrained
  <2> HIDE DEF s
  <2>3. /\ r.device = IF a \in D THEN "recorded" ELSE s.device
        /\ r.inj = s.inj /\ r.attr = s.attr /\ r.waits = s.waits
        /\ r.preds = IF a \in D THEN {} ELSE s.preds
        /\ [r EXCEPT !.inj = FALSE, !.attr = None, !.waits = <<>>].device = r.device
    BY <2>1 DEF Slots
  <2> HIDE DEF r
  <2> QED
    BY <2>2, <2>3 DEF s
<1>7. ASSUME NEW a \in Live(u)
      PROVE  a \in Live(t) /\ SameCommand(t, u, a)
  <2>1. a \in Addrs /\ a \in Live(t) /\ a \notin D /\ u.slot[a].live
    BY <1>1 DEF Live
  <2>2. u.slab[a[1]] # NoSlab
    BY <1>2, <1>5, <2>1
  <2>3. a \notin gone
    BY <2>1 DEF Unreferenced, Live
  <2>4. Owner(u, a) = Owner(t, a)
    BY <1>3, <2>1 DEF Owner
  <2> QED
    BY <1>6, <2>1, <2>2, <2>3, <2>4 DEF SameCommand
<1>8. \A a \in Addrs : /\ u.slot[a].device \in {t.slot[a].device, "recorded"}
                       /\ a \in D => u.slot[a].device = "recorded"
  <2> TAKE a \in Addrs
  <2>1. CASE u.slab[a[1]] = NoSlab
    <3>1. u.slot[a] = NoSlot
      BY <1>2, <2>1
    <3> QED
      BY <1>5, <3>1
  <2>2. CASE u.slab[a[1]] # NoSlab
    BY <1>6, <2>2
  <2> QED
    BY <2>1, <2>2
<1>9. \A a \in Live(t) \ Live(u) : /\ u.slot[a].device = "recorded"
                                   /\ t.slot[a].inj => t.slot[a].device = "done"
  <2> TAKE a \in Live(t) \ Live(u)
  <2>1. a \in D /\ a \in Addrs
    BY <1>1 DEF Live
  <2> QED
    BY <1>8, <2>1 DEF Returns
<1>10. ASSUME NEW c \in Regular, NEW a \in SlotsOf(u, c)
       PROVE  a \in SlotsOf(t, c) /\ u.slot[a].attr = t.slot[a].attr /\ u.slot[a].inj = t.slot[a].inj
  <2>1. a \in Addrs /\ a[1] \in Slabs /\ u.slab[a[1]].owner = c /\ a[2] <= u.slab[a[1]].n_used
    BY AddrFacts DEF SlotsOf, Owner
  <2>2. u.slab[a[1]] # NoSlab
    BY <1>5, <2>1 DEF Cls
  <2>3. Owner(t, a) = c /\ a \in SlotsOf(t, c)
    BY <1>4, <2>1, <2>2 DEF SlotsOf, Owner
  <2> QED
    BY <1>5, <1>6, <2>1, <2>2, <2>3
<1>11. \A c \in Cls : u.cl[c] # None =>
         t.cl[c] # None /\ SameFlight(t, u, c) /\ u.cl[c].tail = t.cl[c].tail
  <2> SUFFICES ASSUME NEW c \in Cls, u.cl[c] # None
               PROVE  t.cl[c] # None /\ SameFlight(t, u, c) /\ u.cl[c].tail = t.cl[c].tail
    OBVIOUS
  <2> DEFINE l == t.cl[c]
             n == l.n_live - Cardinality({a \in D : Owner(t, a) = c})
             q == Without(l.live_slots, D)
  <2>1. t.cl[c] # None /\ u.cl[c] = [l EXCEPT !.n_live = n, !.live_slots = q]
    BY <1>2
  <2>2. l \in CommandLists
    BY <1>1, <2>1, ListTypes
  <2> HIDE DEF l, n, q
  <2>3. /\ u.cl[c].in_flight_q = l.in_flight_q /\ u.cl[c].in_flight_fence = l.in_flight_fence
        /\ u.cl[c].tail = l.tail
    BY <2>1, <2>2 DEF CommandLists
  <2> QED
    BY <2>1, <2>3 DEF l, SameFlight
<1>12. ASSUME NEW b \in Slabs, u.slab[b].owner \in Regular
       PROVE  /\ t.slab[b].owner = u.slab[b].owner
              /\ u.cl[u.slab[b].owner].tail = t.cl[u.slab[b].owner].tail
  <2> DEFINE c == u.slab[b].owner
  <2>1. c \in Cls /\ t.slab[b].owner = c
    BY <1>4, <1>5, <1>12 DEF Cls
  <2>2. t.cl[c] # None
    BY <1>1, <2>1 DEF SlabKnown
  <2>3. u.cl[c] # None
    <3>1. u.cl[c] = None <=> t.cl[c] = None
      BY <2>1, DrainSound DEF u
    <3> QED
      BY <2>2, <3>1
  <2> QED
    BY <1>11, <2>1, <2>3
<1>13. \A e \in Events : /\ u.latest[e] \in {t.latest[e], None}
                         /\ t.latest[e] \in Live(u) => u.latest[e] = t.latest[e]
  <2> TAKE e \in Events
  <2>1. u.latest[e] = IF t.latest[e] \in D THEN None ELSE t.latest[e]
    BY <1>2 DEF Forget
  <2> QED
    BY <1>1, <2>1
<1>14. Lesser(t, u)
  BY <1>7, <1>8, <1>9, <1>10, <1>11, <1>12, <1>13 DEF Lesser
<1> QED
  BY <1>14 DEF u

LEMMA LandLesser ==
  ASSUME NEW t, Sound(t, {}), NEW L, L \subseteq Cls,
         \A c \in L : t.cl[c] # None /\ LiveOf(t, c) = {}
  PROVE  Lesser(t, Land(t, L))
<1> DEFINE u == Land(t, L)
<1>1. /\ Live(u) = Live(t) /\ u.slab = t.slab /\ u.slot = t.slot /\ u.latest = t.latest
      /\ \A c \in Cls : u.cl[c] = None <=> t.cl[c] = None
      /\ \A c \in Cls : t.cl[c] # None => u.cl[c].tail = t.cl[c].tail
      /\ \A c \in L : u.cl[c].in_flight_q = None /\ u.cl[c].in_flight_fence = None
      /\ \A c \in Cls \ L : u.cl[c] = t.cl[c]
      /\ \A b \in Slabs : SlabKnown(t, b)
  BY LandSound, SoundFacts
<1> HIDE DEF u
<1>2. \A a \in Addrs : SameCommand(t, u, a)
  BY <1>1 DEF SameCommand, Owner
<1>3. \A c \in Cls : LiveOf(u, c) = LiveOf(t, c) /\ SlotsOf(u, c) = SlotsOf(t, c)
  BY <1>1 DEF LiveOf, SlotsOf, Owner
<1>4. \A c \in Cls : u.cl[c] # None =>
        (t.cl[c] # None /\ SameFlight(t, u, c)) \/ Grounded(u, c)
  BY <1>1, <1>3 DEF SameFlight, Grounded
<1>5. ASSUME NEW b \in Slabs, u.slab[b].owner \in Regular
      PROVE  /\ t.slab[b].owner = u.slab[b].owner
             /\ u.cl[u.slab[b].owner].tail = t.cl[u.slab[b].owner].tail
  BY <1>1, <1>5 DEF SlabKnown, Cls
<1>6. /\ \A a \in Live(u) : a \in Live(t) /\ a \in Addrs
      /\ Live(t) \ Live(u) = {}
  BY <1>1 DEF Live
<1>7. \A c \in Regular : \A a \in SlotsOf(u, c) :
        a \in SlotsOf(t, c) /\ u.slot[a].attr = t.slot[a].attr /\ u.slot[a].inj = t.slot[a].inj
  BY <1>1, <1>3 DEF Cls
<1>8. \A e \in Events : u.latest[e] = t.latest[e]
  BY <1>1
<1>9. \A a \in Addrs : u.slot[a].device = t.slot[a].device
  BY <1>1
<1>10. Lesser(t, u)
  BY <1>2, <1>4, <1>5, <1>6, <1>7, <1>8, <1>9 DEF Lesser
<1> QED
  BY <1>10 DEF u

LEMMA DrainClsLesser ==
  ASSUME NEW t, Sound(t, {}), NEW L, L \subseteq Cls, \A c \in L : t.cl[c] # None,
         Returns(t, Reached(t, UNION {SlotsOf(t, c) : c \in L}))
  PROVE  /\ Lesser(t, DrainCls(t, L))
         /\ \A c \in L : Grounded(DrainCls(t, L), c)
<1> DEFINE D == Reached(t, UNION {SlotsOf(t, c) : c \in L})
           v == DrainAll(t, D)
           u == DrainCls(t, L)
<1>1. D \subseteq Live(t)
  BY ReachedFacts
<1>2. u = Land(v, L)
  BY DEF DrainCls
<1>3. Returns(t, D)
  OBVIOUS
<1>4. \A c \in L : LiveOf(u, c) = {}
  BY DrainClsSound
<1> HIDE DEF D, u
<1>5. /\ Sound(v, {}) /\ Lesser(t, v)
      /\ \A c \in Cls : (v.cl[c] = None) <=> (t.cl[c] = None)
  BY <1>1, <1>3, DrainSound, DrainLesser
<1> HIDE DEF v
<1>6. /\ Live(u) = Live(v) /\ u.slab = v.slab
      /\ \A c \in L : u.cl[c].in_flight_q = None /\ u.cl[c].in_flight_fence = None
  BY <1>2, <1>5, LandSound
<1>7. \A c \in L : LiveOf(v, c) = {}
  BY <1>4, <1>6 DEF LiveOf, Owner
<1>8. Lesser(v, u)
  BY <1>2, <1>5, <1>7, LandLesser
<1>9. Lesser(t, u)
  BY <1>5, <1>8, LesserTransitive
<1>10. \A c \in L : Grounded(u, c)
  BY <1>4, <1>6 DEF Grounded
<1> QED
  BY <1>9, <1>10 DEF u

LEMMA OwnersKnown ==
  ASSUME NEW t, NEW X, Sound(t, X)
  PROVE  /\ \A a \in Live(t) : /\ a \in Addrs /\ Owner(t, a) \in Cls
                               /\ t.cl[Owner(t, a)] # None
                               /\ a \in SlotsOf(t, Owner(t, a))
                               /\ a \in LiveOf(t, Owner(t, a))
         /\ \A b \in Slabs : t.slab[b].owner \in Cls => t.cl[t.slab[b].owner] # None
         /\ Regular \subseteq Cls /\ Immediate \subseteq Cls
         /\ "free" \notin Cls /\ "detached" \notin Cls
         /\ NoSlab.owner = "free" /\ NoSlab.n_used = 0
         /\ NoSlot.live = FALSE /\ NoSlot.device = "recorded"
<1>1. \A b \in Slabs : t.slab[b].owner \in Cls => t.cl[t.slab[b].owner] # None
  BY SoundFacts DEF SlabKnown
<1>2. \A a \in Live(t) : a \in Addrs /\ a[1] \in Slabs /\ Owner(t, a) \in Cls
  BY SoundFacts, AddrFacts DEF Live, SlotKnown
<1>3. \A a \in Live(t) : a \in LiveOf(t, Owner(t, a)) /\ a \in SlotsOf(t, Owner(t, a))
  BY LiveUsed DEF LiveOf
<1> QED
  BY <1>1, <1>2, <1>3, ZeAssumption DEF Cls, NoSlab, NoSlot, Owner

LEMMA CreateLesser ==
  ASSUME NEW t, Sound(t, {}), NEW c \in Cls, t.cl[c] = None
  PROVE  Lesser(t, [t EXCEPT !.cl[c] = NewCl])
<1> DEFINE cls == [t.cl EXCEPT ![c] = NewCl]
           u == [t EXCEPT !.cl = cls]
<1>1. /\ t = [cl |-> t.cl, slab |-> t.slab, slot |-> t.slot, latest |-> t.latest, kts |-> t.kts]
      /\ t.cl \in [Cls -> CommandLists \union {None}]
  BY SoundFacts, TracerTypes
<1>2. cls[c] = NewCl /\ \A x \in Cls : x # c => cls[x] = t.cl[x]
  BY <1>1
<1>3. u.slab = t.slab /\ u.slot = t.slot /\ u.latest = t.latest /\ u.cl = cls
  <2> HIDE DEF cls
  <2> QED
    BY <1>1
<1>4. [t EXCEPT !.cl[c] = NewCl] = u
  OBVIOUS
<1> HIDE DEF u, cls
<1>5. LiveOf(t, c) = {} /\ \A b \in Slabs : t.slab[b].owner # c
  BY UnknownList
<1>6. \A a : Owner(u, a) = Owner(t, a)
  BY <1>3 DEF Owner
<1>7. Live(u) = Live(t) /\ \A x : SlotsOf(u, x) = SlotsOf(t, x)
  BY <1>3 DEF Live, SlotsOf, Owner
<1>8. Grounded(u, c)
  BY <1>2, <1>3, <1>5, <1>6, <1>7 DEF Grounded, LiveOf, NewCl
<1>9. \A x \in Cls : u.cl[x] # None => (t.cl[x] # None /\ SameFlight(t, u, x)) \/ Grounded(u, x)
  BY <1>2, <1>3, <1>8 DEF SameFlight
<1>10. \A b \in Slabs : u.slab[b].owner \in Regular =>
         /\ t.slab[b].owner = u.slab[b].owner
         /\ u.cl[u.slab[b].owner].tail = t.cl[u.slab[b].owner].tail
  BY <1>2, <1>3, <1>5 DEF Cls
<1>11. Lesser(t, u)
  BY <1>3, <1>6, <1>7, <1>9, <1>10 DEF Lesser, SameCommand
<1> QED
  BY <1>4, <1>11

LEMMA ReclaimLesser ==
  ASSUME NEW t, Sound(t, {}), NEW c \in Cls, t.cl[c] # None, LiveOf(t, c) = {},
         NEW v \in {NewCl, None}
  PROVE  LET u == Reclaimed(t, c, v) IN
         /\ Lesser(t, u)
         /\ SlotsOf(u, c) = {}
         /\ u.cl[c] # None => Grounded(u, c)
<1> DEFINE u == Reclaimed(t, c, v)
<1>1. /\ Sound(u, {})
      /\ u.cl[c] = v /\ \A x \in Cls : x # c => u.cl[x] = t.cl[x]
      /\ u.latest = Forget(t, SlotsOf(t, c)) /\ u.kts = t.kts
      /\ \A b \in Slabs : /\ t.slab[b].owner # c => u.slab[b] = t.slab[b]
                          /\ t.slab[b].owner = c => u.slab[b].owner \in {"free", "detached"}
      /\ Live(u) = Live(t)
      /\ \A a \in Addrs : /\ Owner(t, a) # c => u.slot[a] = t.slot[a]
                          /\ u.slot[a].device \in {t.slot[a].device, "recorded"}
  BY ReclaimSound
<1> HIDE DEF u
<1>2. /\ \A a \in Live(t) : a \in Addrs /\ Owner(t, a) \in Cls
      /\ Regular \subseteq Cls /\ "free" \notin Cls /\ "detached" \notin Cls
  BY OwnersKnown
<1>3. \A a \in Addrs : a[1] \in Slabs
  BY AddrFacts
<1>4. \A a \in Live(t) : Owner(t, a) # c
  BY DEF LiveOf
<1>5. \A a \in Live(u) : a \in Live(t) /\ SameCommand(t, u, a)
  BY <1>1, <1>2, <1>3, <1>4 DEF SameCommand, Owner
<1>6. \A x \in Cls : \A a \in SlotsOf(u, x) :
        /\ a \in Addrs /\ Owner(t, a) # c /\ a \in SlotsOf(t, x) /\ x # c
        /\ u.slot[a] = t.slot[a]
  <2> TAKE x \in Cls
  <2> TAKE a \in SlotsOf(u, x)
  <2>1. a \in Addrs /\ a[1] \in Slabs /\ u.slab[a[1]].owner = x /\ a[2] <= u.slab[a[1]].n_used
    BY <1>3 DEF SlotsOf, Owner
  <2>2. t.slab[a[1]].owner # c
    BY <1>1, <1>2, <2>1
  <2>3. u.slab[a[1]] = t.slab[a[1]]
    BY <1>1, <2>1, <2>2
  <2> QED
    BY <1>1, <2>1, <2>2, <2>3 DEF SlotsOf, Owner
<1>7. SlotsOf(u, c) = {}
  BY <1>6
<1>8. u.cl[c] # None => Grounded(u, c)
  <2>1. LiveOf(u, c) = {}
    BY <1>4, <1>5 DEF LiveOf, SameCommand
  <2> QED
    BY <1>1, <2>1 DEF Grounded, NewCl
<1>9. \A x \in Cls : u.cl[x] # None => (t.cl[x] # None /\ SameFlight(t, u, x)) \/ Grounded(u, x)
  BY <1>1, <1>8 DEF SameFlight
<1>10. \A b \in Slabs : u.slab[b].owner \in Regular =>
         /\ t.slab[b].owner = u.slab[b].owner
         /\ u.cl[u.slab[b].owner].tail = t.cl[u.slab[b].owner].tail
  <2> SUFFICES ASSUME NEW b \in Slabs, u.slab[b].owner \in Regular
               PROVE  /\ t.slab[b].owner = u.slab[b].owner
                      /\ u.cl[u.slab[b].owner].tail = t.cl[u.slab[b].owner].tail
    OBVIOUS
  <2>1. t.slab[b].owner # c
    BY <1>1, <1>2
  <2> QED
    BY <1>1, <1>2, <2>1
<1>11. \A e \in Events : /\ u.latest[e] \in {t.latest[e], None}
                         /\ t.latest[e] \in Live(u) => u.latest[e] = t.latest[e]
  <2> TAKE e \in Events
  <2>1. u.latest[e] = IF t.latest[e] \in SlotsOf(t, c) THEN None ELSE t.latest[e]
    BY <1>1 DEF Forget
  <2>2. t.latest[e] \in Live(u) => t.latest[e] \notin SlotsOf(t, c)
    BY <1>1, <1>4 DEF SlotsOf
  <2> QED
    BY <2>1, <2>2
<1>12. Live(t) \ Live(u) = {}
  BY <1>1
<1>13. \A x \in Regular : \A a \in SlotsOf(u, x) :
         a \in SlotsOf(t, x) /\ u.slot[a].attr = t.slot[a].attr /\ u.slot[a].inj = t.slot[a].inj
  BY <1>2, <1>6
<1>14. \A a \in Addrs : u.slot[a].device \in {t.slot[a].device, "recorded"}
  BY <1>1
<1>15. Lesser(t, u)
  BY <1>5, <1>9, <1>10, <1>11, <1>12, <1>13, <1>14 DEF Lesser
<1> QED
  BY <1>7, <1>8, <1>15 DEF u

LEMMA ClearedLesser ==
  ASSUME NEW t, Sound(t, {}), Live(t) = {}, NEW mine,
         mine = {a \in Addrs : Owner(t, a) \in Cls}
  PROVE  LET u == Cleared(t, mine) IN
         /\ Lesser(t, u)
         /\ \A c \in Cls : SlotsOf(u, c) = {} /\ u.cl[c] = None
<1> DEFINE u == Cleared(t, mine)
<1>1. /\ Sound(u, {})
      /\ \A c \in Cls : u.cl[c] = None
      /\ \A b \in Slabs : u.slab[b] = NoSlab
      /\ \A a \in Addrs : u.slot[a] = NoSlot
      /\ \A e \in Events : u.latest[e] \in {t.latest[e], None}
      /\ u.kts = t.kts
  BY DestroyContextSound
<1> HIDE DEF u
<1>2. /\ Regular \subseteq Cls /\ "free" \notin Cls
      /\ NoSlab.owner = "free" /\ NoSlot.live = FALSE /\ NoSlot.device = "recorded"
  BY OwnersKnown
<1>3. Live(u) = {} /\ \A a \in Addrs : u.slot[a].device = "recorded"
  BY <1>1, <1>2 DEF Live
<1>4. \A c \in Cls : SlotsOf(u, c) = {}
  BY <1>1, <1>2, AddrFacts DEF SlotsOf, Owner
<1>5. \A b \in Slabs : u.slab[b].owner \notin Regular
  BY <1>1, <1>2
<1>6. Lesser(t, u)
  BY <1>1, <1>2, <1>3, <1>4, <1>5 DEF Lesser
<1> QED
  BY <1>1, <1>4, <1>6 DEF u

LEMMA WithRoomLesser ==
  ASSUME NEW t, Sound(t, {}), NEW c \in Cls, t.cl[c] # None, OneSlab(t),
         HasRoom(t, c) \/ (FreeSlabs(t) # {} /\ (c \in Immediate \/ t.cl[c].tail = None))
  PROVE  Lesser(t, WithRoom(t, c))
<1> DEFINE u == WithRoom(t, c)
<1>1. /\ Sound(u, {})
      /\ u.cl[c] # None
      /\ u.cl[c].tail \in Slabs
      /\ u.slab[u.cl[c].tail].owner = c
      /\ u.slab[u.cl[c].tail].n_used < SlabSlots
      /\ u.latest = t.latest /\ u.kts = t.kts
      /\ \A x \in Cls : x # c => u.cl[x] = t.cl[x]
      /\ u.cl[c].in_flight_q = t.cl[c].in_flight_q
      /\ u.cl[c].in_flight_fence = t.cl[c].in_flight_fence
      /\ c \in Regular => t.cl[c].tail \in {None, u.cl[c].tail}
      /\ \A x \in Slabs : \/ u.slab[x] = t.slab[x]
                          \/ u.slab[x] = NoSlab
                          \/ x = u.cl[c].tail /\ u.slab[x].n_used = 0
      /\ \A a \in Addrs : \/ /\ u.slot[a] = t.slot[a]
                             /\ t.slot[a].live => Owner(u, a) = Owner(t, a)
                          \/ /\ u.slot[a] = NoSlot /\ u.slab[a[1]] = NoSlab
                             /\ a \notin Live(t)
  BY WithRoomSound
<1> HIDE DEF u
<1>2. /\ Regular \subseteq Cls /\ "free" \notin Cls
      /\ NoSlab.owner = "free" /\ NoSlab.n_used = 0
      /\ NoSlot.live = FALSE /\ NoSlot.device = "recorded"
  BY OwnersKnown
<1>3. \A a \in Addrs : a[1] \in Slabs /\ a[2] \in 1 .. SlabSlots
  BY AddrFacts
<1>4. \A a \in Live(u) : a \in Live(t) /\ SameCommand(t, u, a)
  BY <1>1, <1>2 DEF Live, SameCommand
<1>5. Live(t) \ Live(u) = {}
  BY <1>1 DEF Live
<1>6. \A a \in Addrs : u.slot[a].device \in {t.slot[a].device, "recorded"}
  BY <1>1, <1>2
<1>7. ASSUME NEW x \in Regular, NEW a \in SlotsOf(u, x)
      PROVE  a \in SlotsOf(t, x) /\ u.slot[a].attr = t.slot[a].attr /\ u.slot[a].inj = t.slot[a].inj
  <2>1. a \in Addrs /\ a[1] \in Slabs /\ u.slab[a[1]].owner = x /\ a[2] <= u.slab[a[1]].n_used
        /\ a[2] >= 1
    BY <1>3 DEF SlotsOf, Owner
  <2>2. u.slab[a[1]] # NoSlab
    BY <1>2, <2>1
  <2>3. u.slab[a[1]].n_used # 0
    BY <1>3, <2>1
  <2>4. u.slab[a[1]] = t.slab[a[1]]
    BY <1>1, <2>1, <2>2, <2>3
  <2> QED
    BY <1>1, <2>1, <2>2, <2>4 DEF SlotsOf, Owner
<1>8. ASSUME NEW b \in Slabs, u.slab[b].owner \in Regular
      PROVE  \/ IsTail(u, b)
             \/ /\ t.slab[b].owner = u.slab[b].owner
                /\ u.cl[u.slab[b].owner].tail = t.cl[u.slab[b].owner].tail
  <2>1. u.slab[b] # NoSlab
    BY <1>2, <1>8
  <2>2. CASE b = u.cl[c].tail
    BY <1>1, <2>2 DEF IsTail
  <2>3. CASE b # u.cl[c].tail
    <3>1. u.slab[b] = t.slab[b]
      BY <1>1, <2>1, <2>3
    <3>2. CASE u.slab[b].owner # c
      BY <1>1, <1>2, <1>8, <3>1, <3>2
    <3>3. CASE u.slab[b].owner = c
      <4>1. t.cl[c].tail = b
        BY <1>8, <3>1, <3>3 DEF OneSlab, IsTail
      <4>2. b # None
        BY ZeAssumption
      <4> QED
        BY <1>1, <1>8, <2>3, <3>3, <4>1, <4>2
    <3> QED
      BY <3>2, <3>3
  <2> QED
    BY <2>2, <2>3
<1>9. \A x \in Cls : u.cl[x] # None => (t.cl[x] # None /\ SameFlight(t, u, x)) \/ Grounded(u, x)
  BY <1>1 DEF SameFlight
<1>10. Lesser(t, u)
  BY <1>1, <1>4, <1>5, <1>6, <1>7, <1>8, <1>9 DEF Lesser
<1> QED
  BY <1>10 DEF u

-----------------------------------------------------------------------------
(* Steps that add a command a to the list c. *)

Grown(t, u, c, a) ==
  /\ a \in Addrs /\ a \notin Live(t) /\ Live(u) = Live(t) \union {a}
  /\ Owner(u, a) = c
  /\ \A x \in Addrs : Owner(u, x) = Owner(t, x)
  /\ a \in SlotsOf(u, c)
  /\ \A d : SlotsOf(t, d) \subseteq SlotsOf(u, d) /\ SlotsOf(u, d) \subseteq SlotsOf(t, d) \union {a}
  /\ \A x \in Addrs : x # a => SameCommand(t, u, x)
  /\ u.slot[a].inj
  /\ u.slot[a].attr \in Events \union {None}
  /\ PredsOf(u, a) \subseteq Live(t)
  /\ \A x \in u.slot[a].preds : EdgeMeans(u, a, x)
  /\ \A e \in Events : u.latest[e] = IF e = u.slot[a].attr THEN a ELSE t.latest[e]
  /\ \A d \in Cls : d # c => u.cl[d] = t.cl[d]
  /\ u.cl[c] # None /\ u.cl[c].tail = t.cl[c].tail /\ SameFlight(t, u, c)
  /\ u.kts = t.kts

LEMMA InstantiateGrown ==
  ASSUME NEW t, NEW X, Sound(t, X), NEW c \in Cls, t.cl[c] # None, NEW a \in SlotsOf(t, c),
         a \notin Live(t), t.slot[a].inj
  PROVE  LET u == Instantiate(t, c, a) IN
         /\ Grown(t, u, c, a)
         /\ u.slab = t.slab
         /\ u.slot[a].attr = t.slot[a].attr /\ u.slot[a].waits = t.slot[a].waits
         /\ u.slot[a].device = t.slot[a].device
<1> DEFINE u == Instantiate(t, c, a)
           preds == NewPreds(t, c, a)
           s == t.slot[a]
           l == t.cl[c]
<1>1. /\ t \in Tracers /\ ListExact(t, c) /\ LatestLive(t)
      /\ a \in Addrs /\ Owner(t, a) = c
      /\ l \in CommandLists
  BY SoundFacts, ListTypes DEF SlotsOf
<1>2. /\ t.cl \in [Cls -> CommandLists \union {None}]
      /\ t.latest \in [Events -> Addrs \union {None}]
  BY <1>1, TracerTypes
<1>3. /\ u = [cl |-> u.cl, slab |-> t.slab, slot |-> u.slot, latest |-> u.latest,
              kts |-> t.kts]
      /\ u.slab = t.slab /\ u.kts = t.kts
      /\ u.slot \in [Addrs -> {u.slot[x] : x \in Addrs}]
      /\ u.slot[a] = MadeLive(t, c, a)
      /\ \A x \in Addrs : x # a => u.slot[x] = Referred(t, c, a, x)
      /\ u.cl = [t.cl EXCEPT ![c] = Lengthened(t, c, a)]
      /\ u.latest = Published(t, a)
  <2>1. Instantiated(t, u, c, a)
    BY <1>1, InstantiateShape
  <2> HIDE DEF u
  <2> QED
    BY <2>1 DEF Instantiated
<1> HIDE DEF u
<1>4. preds \subseteq (0 .. MaxWaits) \X Live(t)
  BY <1>1, NewPredsLive
<1>5. s \in Slots /\ s.attr \in Events \union {None} /\ s.waits \in WaitLists
  BY <1>1, SlotTypes
<1>6. /\ u.slot[a].live = TRUE /\ u.slot[a].preds = preds /\ u.slot[a].inj = s.inj
      /\ u.slot[a].attr = s.attr /\ u.slot[a].waits = s.waits /\ u.slot[a].device = s.device
  <2> DEFINE r == s.refs + Taken(preds, a)
  <2>1. u.slot[a] = [s EXCEPT !.live = TRUE, !.preds = preds, !.refs = r]
    BY <1>3 DEF MadeLive
  <2> HIDE DEF r, s, preds
  <2> QED
    BY <1>5, <2>1 DEF Slots
<1> HIDE DEF preds
<1>7. \A x \in Addrs : x # a => /\ u.slot[x].live = t.slot[x].live
                                /\ SameCommand(t, u, x)
  <2> SUFFICES ASSUME NEW x \in Addrs, x # a
               PROVE  /\ u.slot[x].live = t.slot[x].live
                      /\ SameCommand(t, u, x)
    OBVIOUS
  <2> DEFINE r == t.slot[x].refs + Taken(NewPreds(t, c, a), x)
             y == t.slot[x]
  <2>1. u.slot[x] = [y EXCEPT !.refs = r]
    BY <1>3 DEF Referred
  <2>2. y \in Slots
    BY <1>1, SlotTypes
  <2> HIDE DEF r, y
  <2>3. /\ u.slot[x].live = y.live /\ u.slot[x].inj = y.inj /\ u.slot[x].attr = y.attr
        /\ u.slot[x].waits = y.waits /\ u.slot[x].preds = y.preds
        /\ u.slot[x].device = y.device
    BY <2>1, <2>2 DEF Slots
  <2> QED
    BY <1>3, <2>3 DEF SameCommand, Owner, y
<1>8. Live(u) = Live(t) \union {a}
  BY <1>1, <1>6, <1>7 DEF Live
<1>9. \A x : Owner(u, x) = Owner(t, x)
  BY <1>3 DEF Owner
<1>10. \A d : SlotsOf(u, d) = SlotsOf(t, d)
  BY <1>3, <1>9 DEF SlotsOf
<1>11. PredsOf(u, a) \subseteq Live(t)
  BY <1>4, <1>6 DEF PredsOf
<1>12. ASSUME NEW x \in u.slot[a].preds
       PROVE  EdgeMeans(u, a, x)
  <2> DEFINE waits == s.waits
             chain == l.live_slots
  <2>1. PICK n \in 0 .. MaxWaits : waits \in [1 .. n -> Events]
    BY <1>5 DEF WaitLists
  <2>2. x[2] \in Live(t) /\ x[2] # a /\ x[2] \in Addrs
    BY <1>4, <1>6 DEF Live
  <2>3. CASE \E i \in DOMAIN waits : t.latest[waits[i]] \in Live(t) /\ x = <<i, t.latest[waits[i]]>>
    <3>1. PICK i \in DOMAIN waits : t.latest[waits[i]] \in Live(t)
                                   /\ x = <<i, t.latest[waits[i]]>>
      BY <2>3
    <3>2. i \in 1 .. n /\ waits[i] \in Events /\ i # 0
      BY <2>1, <3>1
    <3>3. t.latest[waits[i]] # None
      <4>1. t.latest[waits[i]] \in Addrs
        BY <3>1 DEF Live
      <4> QED
        BY <4>1, NoneAssumption
    <3>4. t.slot[x[2]].attr = waits[i]
      BY <1>1, <3>1, <3>2, <3>3 DEF LatestLive
    <3> HIDE DEF waits
    <3>5. x[1] = i /\ u.slot[a].waits = waits
      BY <1>6, <3>1 DEF waits
    <3> QED
      BY <1>7, <2>2, <3>1, <3>2, <3>4, <3>5 DEF EdgeMeans, SameCommand
  <2>4. CASE c \in InOrder /\ chain # <<>> /\ x = <<0, Last(chain)>>
    <3>1. chain \in Seq(Addrs) /\ ToSet(chain) = LiveOf(t, c)
      BY <1>1, <2>4, ListTypes DEF ListExact
    <3>2. Last(chain) \in ToSet(chain)
      <4>1. Len(chain) \in Nat /\ Len(chain) # 0
        BY <2>4, <3>1
      <4>2. Len(chain) \in DOMAIN chain
        BY <3>1, <4>1
      <4> QED
        BY <4>2 DEF Last, ToSet
    <3> HIDE DEF chain
    <3>3. Owner(t, x[2]) = c /\ x[1] = 0
      BY <2>4, <3>1, <3>2 DEF LiveOf
    <3> QED
      BY <1>1, <1>9, <2>4, <3>3 DEF EdgeMeans
  <2> QED
    <3>1. x \in NewPreds(t, c, a)
      BY <1>6 DEF preds
    <3>2. x \in {<<i, t.latest[waits[i]]>> :
                   i \in {i \in DOMAIN waits : t.latest[waits[i]] \in Live(t)}}
            \union (IF c \in InOrder /\ chain # <<>> THEN {<<0, Last(chain)>>} ELSE {})
      BY <3>1 DEF NewPreds
    <3> HIDE DEF waits, chain
    <3> QED
      BY <2>3, <2>4, <3>2
<1>13. \A e \in Events : u.latest[e] = IF e = s.attr THEN a ELSE t.latest[e]
  <2> TAKE e \in Events
  <2>1. None \notin Events
    BY ZeAssumption
  <2>2. u.latest = IF s.attr = None THEN t.latest ELSE [t.latest EXCEPT ![s.attr] = a]
    BY <1>3 DEF Published
  <2> HIDE DEF s
  <2> QED
    BY <1>2, <2>1, <2>2
<1>14. /\ \A d \in Cls : d # c => u.cl[d] = t.cl[d]
       /\ u.cl[c] # None /\ u.cl[c].tail = t.cl[c].tail /\ SameFlight(t, u, c)
  <2> DEFINE n == l.n_live + 1
             q == IF c \in InOrder THEN Append(l.live_slots, a) ELSE l.live_slots
             m == [l EXCEPT !.n_live = n, !.live_slots = q]
  <2>1. u.cl = [t.cl EXCEPT ![c] = m]
    BY <1>3 DEF Lengthened
  <2>2. m \in CommandLists
    <3>1. l.n_live \in Nat /\ l.live_slots \in Seq(Addrs)
      BY <1>1, ListTypes
    <3>2. n \in Nat /\ q \in Seq(Addrs)
      BY <1>1, <3>1
    <3> HIDE DEF n, q, l
    <3> QED
      BY <1>1, <3>2 DEF CommandLists
  <2>3. m # None
    BY <2>2, NewTypes
  <2> HIDE DEF n, q
  <2>4. m.tail = l.tail /\ m.in_flight_q = l.in_flight_q /\ m.in_flight_fence = l.in_flight_fence
    <3> HIDE DEF l
    <3> QED
      BY <1>1 DEF CommandLists
  <2> HIDE DEF m
  <2>5. u.cl[c] = m /\ \A d \in Cls : d # c => u.cl[d] = t.cl[d]
    BY <1>2, <2>1
  <2> QED
    BY <2>3, <2>4, <2>5 DEF SameFlight
<1>15. Grown(t, u, c, a)
  BY <1>1, <1>3, <1>5, <1>6, <1>7, <1>8, <1>9, <1>10, <1>11, <1>12, <1>13, <1>14 DEF Grown
<1> QED
  BY <1>3, <1>6, <1>15 DEF u

LEMMA GrownAcyclic ==
  ASSUME NEW t, NEW u, NEW c, NEW a, Grown(t, u, c, a), Acyclic(t),
         \A s \in Live(t) : a \notin PredsOf(t, s)
  PROVE  Acyclic(u)
<1>1. Live(u) = Live(t) \union {a} /\ a \notin Live(t) /\ PredsOf(u, a) \subseteq Live(t)
  BY DEF Grown
<1>2. \A s \in Live(t) : PredsOf(u, s) = PredsOf(t, s)
  BY DEF Grown, SameCommand, PredsOf, Live
<1>3. \A X : X \subseteq Live(t) => LivePreds(u, X) = LivePreds(t, X)
  BY <1>1, <1>2 DEF LivePreds
<1>4. ASSUME NEW s \in Live(t) PROVE \E X : Below(u, s, X)
  <2>1. PICK X : Below(t, s, X)
    BY DEF Acyclic
  <2>2. X \subseteq Live(t) /\ {s} \subseteq Live(t)
    BY <2>1 DEF Below
  <2>3. LivePreds(u, X) = LivePreds(t, X) /\ LivePreds(u, {s}) = LivePreds(t, {s})
    BY <1>3, <2>2
  <2>4. Below(u, s, X)
    BY <1>1, <2>1, <2>3 DEF Below
  <2> QED
    BY <2>4
<1>5. Below(u, a, Live(t))
  <2>1. LivePreds(u, {a}) \subseteq Live(t)
    BY <1>1 DEF LivePreds
  <2>2. LivePreds(u, Live(t)) \subseteq Live(t)
    BY <1>1, <1>2 DEF LivePreds
  <2> QED
    BY <1>1, <2>1, <2>2 DEF Below
<1> QED
  BY <1>1, <1>4, <1>5 DEF Acyclic

LEMMA GrownEdged ==
  ASSUME NEW t, NEW u, NEW c, NEW a, Grown(t, u, c, a), Edged(t),
         \A s \in Live(t) : a \notin PredsOf(t, s)
  PROVE  Edged(u)
<1>1. /\ Live(u) = Live(t) \union {a} /\ a \notin Live(t) /\ Live(t) \subseteq Addrs
      /\ \A x \in Live(t) : SameCommand(t, u, x)
  BY DEF Grown, Live
<1>2. ASSUME NEW s \in Live(t), NEW x \in u.slot[s].preds, x[2] \in Live(u)
      PROVE  EdgeMeans(u, s, x)
  <2>1. x \in t.slot[s].preds
    BY <1>1 DEF SameCommand
  <2>2. x[2] \in Live(t)
    BY <1>1, <1>2, <2>1 DEF PredsOf
  <2>3. EdgeMeans(t, s, x)
    BY <2>1, <2>2 DEF Edged
  <2> QED
    BY <1>1, <2>2, <2>3 DEF EdgeMeans, SameCommand
<1>3. \A x \in u.slot[a].preds : EdgeMeans(u, a, x)
  BY DEF Grown
<1> QED
  BY <1>1, <1>2, <1>3 DEF Edged

\* What the new command signals has no live signaler.
LEMMA GrownSignals ==
  ASSUME NEW t \in Tracers, NEW u, NEW c, NEW a, Grown(t, u, c, a), Signals(t),
         \A x \in Live(t) : t.slot[x].attr = u.slot[a].attr => t.slot[x].attr = None,
         c \in Regular => \A x \in SlotsOf(u, c) :
           u.slot[x].attr = u.slot[a].attr /\ u.slot[x].attr # None => x = a
  PROVE  Signals(u)
<1>1. /\ Live(u) = Live(t) \union {a} /\ a \notin Live(t) /\ Live(t) \subseteq Addrs
      /\ \A x \in Addrs : x # a => u.slot[x].attr = t.slot[x].attr
      /\ \A e \in Events : u.latest[e] = IF e = u.slot[a].attr THEN a ELSE t.latest[e]
      /\ \A d : SlotsOf(u, d) \subseteq SlotsOf(t, d) \union {a}
      /\ a \in Addrs /\ Owner(u, a) = c /\ u.slot[a].attr \in Events \union {None}
  BY DEF Grown, Live, SameCommand
<1>2. \A x \in Addrs : t.slot[x].attr \in Events \union {None}
  BY SlotTypes
<1>3. ASSUME NEW x \in Live(u), u.slot[x].attr # None
      PROVE  u.latest[u.slot[x].attr] = x
  <2>1. CASE x = a
    BY <1>1, <1>3, <2>1
  <2>2. CASE x # a
    <3>1. x \in Live(t) /\ x \in Addrs /\ u.slot[x].attr = t.slot[x].attr
      BY <1>1, <2>2
    <3>2. t.slot[x].attr \in Events /\ t.slot[x].attr # u.slot[a].attr
      BY <1>2, <1>3, <3>1
    <3>3. t.latest[t.slot[x].attr] = x
      BY <1>3, <3>1 DEF Signals
    <3> QED
      BY <1>1, <3>1, <3>2, <3>3
  <2> QED
    BY <2>1, <2>2
<1>4. ASSUME NEW d \in Regular, NEW x \in SlotsOf(u, d), NEW y \in SlotsOf(u, d),
             u.slot[x].attr = u.slot[y].attr, u.slot[x].attr # None
      PROVE  x = y
  <2>1. x \in Addrs /\ y \in Addrs /\ Owner(u, x) = d /\ Owner(u, y) = d
    BY DEF SlotsOf
  <2>2. CASE x = a \/ y = a
    <3>1. d = c
      BY <1>1, <2>1, <2>2
    <3> QED
      BY <1>4, <2>2, <3>1
  <2>3. CASE x # a /\ y # a
    <3>1. x \in SlotsOf(t, d) /\ y \in SlotsOf(t, d)
      BY <1>1, <2>3
    <3>2. u.slot[x].attr = t.slot[x].attr /\ u.slot[y].attr = t.slot[y].attr
      BY <1>1, <2>1, <2>3
    <3> QED
      BY <1>4, <3>1, <3>2 DEF Signals
  <2> QED
    BY <2>2, <2>3
<1> QED
  BY <1>3, <1>4 DEF Signals

-----------------------------------------------------------------------------
(* A command is appended. *)

Appended(t, c, attr, waits) ==
  LET r == WithRoom(t, c)
      a == NextSlot(r, c)
  IN Instantiate(Filled(r, c, a, attr, waits), c, a)

LEMMA AppendGrown ==
  ASSUME NEW t, Sound(t, {}), NEW c \in Cls, t.cl[c] # None,
         HasRoom(t, c) \/ (FreeSlabs(t) # {} /\ (c \in Immediate \/ t.cl[c].tail = None)),
         NEW attr \in Events \union {None}, NEW waits \in WaitLists
  PROVE  LET r == WithRoom(t, c)
             a == NextSlot(r, c)
             u == Appended(t, c, attr, waits)
         IN
         /\ Sound(r, {}) /\ Sound(u, {})
         /\ r.cl[c] # None /\ r.kts = t.kts /\ r.latest = t.latest
         /\ Grown(r, u, c, a)
         /\ u.slot[a].attr = attr /\ u.slot[a].waits = waits
         /\ u.slot[a].device = IF c \in Immediate THEN "running" ELSE "recorded"
         /\ \A s \in Live(r) : a \notin PredsOf(r, s)
<1> DEFINE r == WithRoom(t, c)
           a == NextSlot(r, c)
           w == Filled(r, c, a, attr, waits)
           u == Appended(t, c, attr, waits)
           b == r.cl[c].tail
<1>1. /\ Sound(r, {}) /\ r.cl[c] # None
      /\ b \in Slabs /\ r.slab[b].owner = c /\ r.slab[b].n_used < SlabSlots
      /\ r.kts = t.kts /\ r.latest = t.latest
  BY WithRoomSound
<1>2. u = Instantiate(w, c, a)
  BY DEF Appended
<1>3. a = NextSlot(r, c)
  OBVIOUS
<1> HIDE DEF u, r, b
<1>4. a = <<b, r.slab[b].n_used + 1>> /\ a[1] = b /\ a[2] = r.slab[b].n_used + 1
  BY DEF NextSlot, b
<1> HIDE DEF a
<1>5. /\ Sound(w, {a})
      /\ w.cl[c] # None
      /\ a \in SlotsOf(w, c)
      /\ r.slot[a] = NoSlot
      /\ w.slot[a] = NewSlot(c, attr, waits)
      /\ \A x \in Addrs : x # a => w.slot[x] = r.slot[x]
      /\ w.cl = r.cl /\ w.latest = r.latest /\ w.kts = r.kts
      /\ \A x \in Slabs : w.slab[x].owner = r.slab[x].owner
      /\ w.slab[a[1]].n_used = a[2]
      /\ \A x \in Slabs : x # a[1] => w.slab[x].n_used = r.slab[x].n_used
  <2>1. /\ r.cl[c].tail \in Slabs /\ r.slab[r.cl[c].tail].owner = c
        /\ r.slab[r.cl[c].tail].n_used < SlabSlots
    BY <1>1 DEF b
  <2> HIDE DEF w
  <2>2. Filled(r, c, a, attr, waits) = w
    BY DEF w
  <2>3. FillFacts(r, Filled(r, c, a, attr, waits), c, a, attr, waits)
    BY <1>1, <1>3, <2>1, FilledShape
  <2> QED
    BY <2>2, <2>3 DEF FillFacts
<1> HIDE DEF w
<1>6. /\ w.slot[a].inj = TRUE /\ w.slot[a].live = FALSE /\ w.slot[a].attr = attr
      /\ w.slot[a].waits = waits
      /\ w.slot[a].device = IF c \in Immediate THEN "running" ELSE "recorded"
  BY <1>5 DEF NewSlot, NoSlot
<1>7. a \in Addrs /\ \A x \in Addrs : x[1] \in Slabs /\ x[2] \in 1 .. SlabSlots /\ x = <<x[1], x[2]>>
  BY <1>5, AddrFacts DEF SlotsOf
<1>8. a \notin Live(w) /\ Live(w) = Live(r)
  <2>1. NoSlot.live = FALSE
    BY DEF NoSlot
  <2> QED
    BY <1>5, <1>6, <2>1 DEF Live
<1>9. \A x \in Addrs : Owner(w, x) = Owner(r, x)
  BY <1>5, <1>7 DEF Owner
<1>10. \A d : SlotsOf(r, d) \subseteq SlotsOf(w, d) /\ SlotsOf(w, d) \subseteq SlotsOf(r, d) \union {a}
  <2>1. r.slab[b].n_used \in Nat
    BY <1>1, SoundFacts, SlabTypes, ZeAssumption
  <2>2. ASSUME NEW x \in Addrs, x[1] = b
        PROVE  /\ x[2] <= r.slab[b].n_used => x[2] <= w.slab[b].n_used
               /\ x[2] <= w.slab[b].n_used => x[2] <= r.slab[b].n_used \/ x = a
    <3>1. w.slab[b].n_used = r.slab[b].n_used + 1 /\ x[2] \in Nat
      BY <1>4, <1>5, <1>7, ZeAssumption
    <3>2. x[2] = r.slab[b].n_used + 1 => x = a
      BY <1>4, <1>7, <2>2
    <3> QED
      BY <2>1, <3>1, <3>2
  <2>3. \A x \in Addrs : x[1] # b => w.slab[x[1]].n_used = r.slab[x[1]].n_used
    BY <1>4, <1>5, <1>7
  <2> QED
    BY <1>9, <2>2, <2>3 DEF SlotsOf
<1>11. /\ Grown(w, u, c, a)
       /\ u.slot[a].attr = w.slot[a].attr /\ u.slot[a].waits = w.slot[a].waits
       /\ u.slot[a].device = w.slot[a].device
  <2> DEFINE X == {a}
  <2>1. Sound(w, X)
    BY <1>5
  <2> HIDE DEF X
  <2> QED
    BY <1>2, <1>5, <1>6, <1>8, <2>1, InstantiateGrown
<1>12. Sound(u, {})
  <2> DEFINE X == {a}
  <2>1. Sound(w, X) /\ X \subseteq {a} /\ (c \in Immediate => X = {a})
    BY <1>5
  <2> HIDE DEF X
  <2> QED
    BY <1>2, <1>5, <1>6, <2>1, InstantiateSound
<1>13. \A x \in Addrs : x # a => SameCommand(r, u, x)
  BY <1>5, <1>9, <1>11 DEF Grown, SameCommand
<1>14. Grown(r, u, c, a)
  <2>1. \A x \in Addrs : Owner(u, x) = Owner(r, x)
    BY <1>9, <1>11 DEF Grown
  <2>2. \A d : SlotsOf(r, d) \subseteq SlotsOf(u, d) /\ SlotsOf(u, d) \subseteq SlotsOf(r, d) \union {a}
    BY <1>10, <1>11 DEF Grown
  <2>3. \A d \in Cls : d # c => u.cl[d] = r.cl[d]
    BY <1>5, <1>11 DEF Grown
  <2>4. u.cl[c] # None /\ u.cl[c].tail = r.cl[c].tail /\ SameFlight(r, u, c)
    BY <1>5, <1>11 DEF Grown, SameFlight
  <2>5. /\ a \in Addrs /\ a \notin Live(r) /\ Live(u) = Live(r) \union {a}
        /\ Owner(u, a) = c /\ a \in SlotsOf(u, c) /\ u.slot[a].inj
        /\ u.slot[a].attr \in Events \union {None}
        /\ PredsOf(u, a) \subseteq Live(r)
        /\ \A x \in u.slot[a].preds : EdgeMeans(u, a, x)
        /\ \A e \in Events : u.latest[e] = IF e = u.slot[a].attr THEN a ELSE r.latest[e]
        /\ u.kts = r.kts
    BY <1>5, <1>8, <1>11 DEF Grown
  <2> QED
    BY <1>13, <2>1, <2>2, <2>3, <2>4, <2>5 DEF Grown
<1>15. \A s \in Live(r) : a \notin PredsOf(r, s)
  <2>1. Edges(r, Live(r), a) = 0
    <3>1. r.slot[a].refs = 0
      BY <1>5 DEF NoSlot
    <3> QED
      BY <1>1, <1>7, <3>1, SoundFacts
  <2> QED
    BY <1>1, <2>1, SoundFacts, LiveFacts, NoEdges
<1>16. /\ u.slot[a].attr = attr /\ u.slot[a].waits = waits
       /\ u.slot[a].device = IF c \in Immediate THEN "running" ELSE "recorded"
  BY <1>6, <1>11
<1> QED
  BY <1>1, <1>12, <1>14, <1>15, <1>16 DEF u, r, a

\* The list is open; an immediate list submits the command.
LEMMA GrownBase ==
  ASSUME NEW t, Sound(t, {}), NEW K, K \subseteq Regular, Base(t, K), NEW u, NEW c \in Cls, NEW a,
         Grown(t, u, c, a), t.cl[c] # None, c \notin K,
         u.slot[a].device = IF c \in Immediate THEN "running" ELSE "recorded"
  PROVE  Base(u, K)
<1>1. /\ a \in Addrs /\ a \notin Live(t) /\ Live(u) = Live(t) \union {a}
      /\ Owner(u, a) = c /\ Owner(t, a) = c
      /\ \A x \in Addrs : Owner(u, x) = Owner(t, x)
      /\ \A d : SlotsOf(u, d) \subseteq SlotsOf(t, d) \union {a}
      /\ \A x \in Addrs : x # a => SameCommand(t, u, x)
      /\ u.slot[a].inj
      /\ \A d \in Cls : d # c => u.cl[d] = t.cl[d]
      /\ u.cl[c] # None /\ u.cl[c].tail = t.cl[c].tail /\ SameFlight(t, u, c)
  BY DEF Grown
<1>2. Regular \subseteq Cls /\ Regular \intersect Immediate = {}
  BY ZeAssumption DEF Cls
<1>3. OneSlab(u)
  <2>1. 1 \in 1 .. SlabSlots
    BY ZeAssumption
  <2>2. \A b \in Slabs : u.slab[b].owner = t.slab[b].owner
    <3> TAKE b \in Slabs
    <3>1. <<b, 1>> \in Addrs
      BY <2>1, AddrFacts
    <3>2. Owner(u, <<b, 1>>) = Owner(t, <<b, 1>>)
      BY <1>1, <3>1
    <3> QED
      BY <3>2 DEF Owner
  <2>3. \A d \in Cls : u.cl[d].tail = t.cl[d].tail
    BY <1>1
  <2> QED
    BY <1>2, <2>2, <2>3 DEF Base, OneSlab, IsTail
<1>4. Unrun(u, K)
  <2> SUFFICES ASSUME NEW d \in Regular \ K, NEW x \in SlotsOf(u, d)
               PROVE  u.slot[x].live /\ u.slot[x].inj /\ u.slot[x].device = "recorded"
    BY DEF Unrun
  <2>1. x \in Addrs /\ Owner(u, x) = d
    BY DEF SlotsOf
  <2>2. CASE x = a
    BY <1>1, <1>2, <2>1, <2>2 DEF Live
  <2>3. CASE x # a
    <3>1. x \in SlotsOf(t, d)
      BY <1>1, <2>3
    <3>2. t.slot[x].live /\ t.slot[x].inj /\ t.slot[x].device = "recorded"
      BY <3>1 DEF Base, Unrun
    <3>3. x \in Live(u)
      BY <1>1, <2>1, <3>2 DEF Live
    <3> QED
      BY <1>1, <2>1, <2>3, <3>2, <3>3 DEF SameCommand, Live
  <2> QED
    BY <2>2, <2>3
<1>5. Flight(u, K)
  <2> SUFFICES ASSUME NEW d \in Cls, u.cl[d] # None
               PROVE  /\ d \notin K \/ u.cl[d].in_flight_q = None =>
                           u.cl[d].in_flight_q = None /\ u.cl[d].in_flight_fence = None
                      /\ d \in K /\ u.cl[d].in_flight_q = None => LiveOf(u, d) = {}
    BY DEF Flight
  <2>1. t.cl[d] # None /\ SameFlight(t, u, d)
    BY <1>1 DEF SameFlight
  <2>2. /\ d \notin K \/ t.cl[d].in_flight_q = None =>
             t.cl[d].in_flight_q = None /\ t.cl[d].in_flight_fence = None
        /\ d \in K /\ t.cl[d].in_flight_q = None => LiveOf(t, d) = {}
    BY <2>1 DEF Base, Flight
  <2>3. d \in K => LiveOf(u, d) = LiveOf(t, d)
    BY <1>1 DEF LiveOf, Live
  <2> QED
    BY <2>1, <2>2, <2>3 DEF SameFlight
<1>6. OnDevice(u, K)
  <2>1. \A x \in Live(u) : u.slot[x].inj
    BY <1>1 DEF Base, OnDevice, SameCommand, Live
  <2>2. ASSUME NEW x \in Live(u), Owner(u, x) \in K \union Immediate
        PROVE  u.slot[x].device # "recorded"
    <3>1. CASE x = a
      BY <1>1, <2>2, <3>1
    <3>2. CASE x # a
      BY <1>1, <2>2, <3>2 DEF Base, OnDevice, SameCommand, Live
    <3> QED
      BY <3>1, <3>2
  <2>3. ASSUME NEW x \in Addrs, u.slot[x].device # "recorded"
        PROVE  u.slot[x].live
    <3>1. CASE x = a
      BY <1>1, <3>1 DEF Live
    <3>2. CASE x # a
      <4>1. t.slot[x].live
        BY <1>1, <2>3, <3>2 DEF Base, OnDevice, SameCommand
      <4>2. x \in Live(u)
        BY <1>1, <4>1 DEF Live
      <4> QED
        BY <4>2 DEF Live
    <3> QED
      BY <3>1, <3>2
  <2> QED
    BY <2>1, <2>2, <2>3 DEF OnDevice
<1> QED
  BY <1>3, <1>4, <1>5, <1>6 DEF Base

LEMMA GrownEnded ==
  ASSUME NEW t, NEW F, Ended(t, F), NEW u, NEW c, NEW a, Grown(t, u, c, a),
         \A s \in Live(t) : a \notin PredsOf(t, s),
         u.slot[a].device # "done", u.slot[a].attr \notin F
  PROVE  Ended(u, F)
<1>1. /\ Live(u) = Live(t) \union {a} /\ a \notin Live(t) /\ Live(t) \subseteq Addrs
      /\ \A x \in Live(t) : SameCommand(t, u, x)
  BY DEF Grown, Live
<1>2. Edged(u)
  BY GrownEdged DEF Ended
<1>3. \A x \in Live(u) : u.slot[x].attr \in F => u.slot[x].device = "done"
  BY <1>1 DEF Ended, SameCommand
<1>4. ASSUME NEW x \in Live(u), u.slot[x].device = "done", NEW p \in PredsOf(u, x) \intersect Live(u)
      PROVE  u.slot[p].device = "done"
  <2>1. x \in Live(t) /\ PredsOf(u, x) = PredsOf(t, x) /\ t.slot[x].device = "done"
    BY <1>1, <1>4 DEF SameCommand, PredsOf
  <2>2. p \in Live(t)
    BY <1>1, <2>1
  <2>3. t.slot[p].device = "done"
    BY <2>1, <2>2 DEF Ended
  <2> QED
    BY <1>1, <2>2, <2>3 DEF SameCommand
<1> QED
  BY <1>2, <1>3, <1>4 DEF Ended

\* The pending epilogue is not about the command's list or event.
LEMMA GrownOver ==
  ASSUME NEW t, Sound(t, {}), NEW h, Over(t, h), NEW u, Sound(u, {}), NEW c \in Cls, NEW a,
         Grown(t, u, c, a), ~Awaited(u, h, c),
         u.slot[a].attr # None => h # <<"event", u.slot[a].attr>>,
         h # None /\ h[1] = "event" => h = <<"event", h[2]>>
  PROVE  Over(u, h)
<1> SUFFICES ASSUME h # None PROVE Over(u, h)
  BY DEF Over
<1>1. /\ Live(u) = Live(t) \union {a} /\ a \notin Live(t) /\ Live(t) \subseteq Addrs
      /\ Owner(u, a) = c
      /\ \A x \in Live(t) : SameCommand(t, u, x)
      /\ \A e \in Events : u.latest[e] = IF e = u.slot[a].attr THEN a ELSE t.latest[e]
      /\ \A d \in Cls : SameFlight(t, u, d)
  BY DEF Grown, Live, SameFlight
<1>2. None \notin Events
  BY ZeAssumption
<1>3. ASSUME h[1] = "event", u.latest[h[2]] # None
      PROVE  u.slot[u.latest[h[2]]].device = "done"
  <2>1. h[2] \in Events /\ h[2] # u.slot[a].attr
    BY <1>2, <1>3 DEF Over
  <2>2. u.latest[h[2]] = t.latest[h[2]] /\ t.latest[h[2]] # None
    BY <1>1, <1>3, <2>1
  <2>3. t.latest[h[2]] \in Live(t)
    BY <2>1, <2>2, SoundFacts DEF LatestLive
  <2>4. t.slot[t.latest[h[2]]].device = "done"
    BY <1>3, <2>2 DEF Over
  <2> QED
    BY <1>1, <2>2, <2>3, <2>4 DEF SameCommand
<1>4. ASSUME NEW x \in Live(u), Awaited(u, h, Owner(u, x))
      PROVE  u.slot[x].device # "running"
  <2>1. x # a
    BY <1>1, <1>4
  <2>2. x \in Live(t) /\ SameCommand(t, u, x)
    BY <1>1, <2>1
  <2> DEFINE d == Owner(u, x)
  <2>3. d \in Cls /\ d = Owner(t, x)
    BY <1>1, <2>2, OwnersKnown DEF SameCommand
  <2> HIDE DEF d
  <2>4. Awaited(t, h, d)
    BY <1>1, <1>4, <2>3 DEF Awaited, SameFlight, d
  <2> QED
    BY <2>2, <2>3, <2>4 DEF Over, SameCommand
<1> QED
  BY <1>3, <1>4 DEF Over

-----------------------------------------------------------------------------
(* A list is executed: its slots are replayed, then it is submitted. *)

Replays(t, v, c) ==
  /\ v.slab = t.slab /\ v.kts = t.kts
  /\ \A d \in Cls : d # c => v.cl[d] = t.cl[d]
  /\ v.cl[c] # None /\ v.cl[c].tail = t.cl[c].tail /\ SameFlight(t, v, c)
  /\ \A a \in Addrs : /\ v.slot[a].inj = t.slot[a].inj
                      /\ v.slot[a].attr = t.slot[a].attr
                      /\ v.slot[a].waits = t.slot[a].waits
                      /\ v.slot[a].device = t.slot[a].device
  /\ \A a \in Live(t) : a \in Live(v) /\ v.slot[a].preds = t.slot[a].preds
  /\ \A a \in Live(v) : a \in Live(t) \/ (a \in SlotsOf(t, c) /\ t.slot[a].inj)
  /\ \A e \in Events : v.latest[e] = t.latest[e] \/ v.latest[e] \in SlotsOf(t, c)

\* Nothing depends on the slots of c that are to be replayed.
NoBack(t, c) == \A a \in SlotsOf(t, c) : a \notin Live(t) =>
                  \A s \in Live(t) : a \notin PredsOf(t, s)

\* The events that c signals have no signaler elsewhere.
Mine(t, c) == \A a \in SlotsOf(t, c) : t.slot[a].attr # None =>
                t.latest[t.slot[a].attr] \in SlotsOf(t, c) \union {None}

Kept(v, w, c) ==
  /\ NoBack(v, c) => /\ NoBack(w, c)
                     /\ Acyclic(v) => Acyclic(w)
                     /\ Edged(v) => Edged(w)
  /\ Signals(v) /\ Mine(v, c) => Signals(w) /\ Mine(w, c)

LEMMA GrownKept ==
  ASSUME NEW v, Sound(v, {}), NEW w, NEW c \in Regular, NEW a,
         Grown(v, w, c, a), w.slab = v.slab, w.slot[a].attr = v.slot[a].attr
  PROVE  Kept(v, w, c)
<1>1. /\ a \in Addrs /\ a \notin Live(v) /\ Live(w) = Live(v) \union {a}
      /\ \A x \in Addrs : Owner(w, x) = Owner(v, x)
      /\ a \in SlotsOf(w, c)
      /\ \A x \in Addrs : x # a => SameCommand(v, w, x)
      /\ PredsOf(w, a) \subseteq Live(v)
      /\ \A e \in Events : w.latest[e] = IF e = w.slot[a].attr THEN a ELSE v.latest[e]
  BY DEF Grown
<1>2. \A d : SlotsOf(w, d) = SlotsOf(v, d)
  BY DEF SlotsOf, Owner
<1>3. v \in Tracers /\ None \notin Addrs
  BY SoundFacts, NoneAssumption
<1>4. \A x \in Addrs : w.slot[x].attr = v.slot[x].attr /\ v.slot[x].attr \in Events \union {None}
  BY <1>1, <1>3, SlotTypes DEF SameCommand
<1>5. ASSUME NoBack(v, c)
      PROVE  NoBack(w, c) /\ (Acyclic(v) => Acyclic(w)) /\ (Edged(v) => Edged(w))
  <2>1. \A s \in Live(v) : a \notin PredsOf(v, s)
    BY <1>1, <1>2, <1>5 DEF NoBack
  <2>2. \A s \in Live(v) : PredsOf(w, s) = PredsOf(v, s)
    BY <1>1 DEF SameCommand, PredsOf, Live
  <2>3. NoBack(w, c)
    BY <1>1, <1>2, <1>5, <2>2 DEF NoBack
  <2> QED
    BY <2>1, <2>3, GrownAcyclic, GrownEdged
<1>6. ASSUME Signals(v), Mine(v, c)
      PROVE  Signals(w) /\ Mine(w, c)
  <2> DEFINE e == v.slot[a].attr
  <2>1. ASSUME NEW x \in Live(v), v.slot[x].attr = e, e # None
        PROVE  FALSE
    <3>1. v.latest[e] = x /\ x \in Addrs
      BY <1>6, <2>1 DEF Signals, Live
    <3>2. x \in SlotsOf(v, c)
      BY <1>2, <1>1, <1>3, <1>6, <2>1, <3>1 DEF Mine
    <3>3. x = a
      BY <1>1, <1>2, <1>6, <2>1, <3>2 DEF Signals
    <3> QED
      BY <1>1, <3>3
  <2>2. \A x \in Live(v) : v.slot[x].attr = w.slot[a].attr => v.slot[x].attr = None
    BY <2>1
  <2>3. \A x \in SlotsOf(w, c) : w.slot[x].attr = w.slot[a].attr /\ w.slot[x].attr # None => x = a
    <3> TAKE x \in SlotsOf(w, c)
    <3>1. x \in SlotsOf(v, c) /\ x \in Addrs /\ a \in SlotsOf(v, c)
      BY <1>1, <1>2 DEF SlotsOf
    <3> QED
      BY <1>1, <1>4, <1>6, <3>1 DEF Signals
  <2>4. Signals(w)
    BY <1>3, <1>6, <2>2, <2>3, GrownSignals
  <2>5. Mine(w, c)
    <3> SUFFICES ASSUME NEW x \in SlotsOf(w, c), w.slot[x].attr # None
                 PROVE  w.latest[w.slot[x].attr] \in SlotsOf(w, c) \union {None}
      BY DEF Mine
    <3>1. x \in SlotsOf(v, c) /\ x \in Addrs
      BY <1>2 DEF SlotsOf
    <3>2. w.slot[x].attr = v.slot[x].attr /\ v.slot[x].attr \in Events
      BY <1>4, <3>1
    <3>3. v.latest[v.slot[x].attr] \in SlotsOf(v, c) \union {None}
      BY <1>6, <3>1, <3>2 DEF Mine
    <3> QED
      BY <1>1, <1>2, <3>2, <3>3
  <2> QED
    BY <2>4, <2>5
<1> QED
  BY <1>5, <1>6 DEF Kept

LEMMA ReplayStep ==
  ASSUME NEW t, NEW v, Sound(v, {}), NEW c \in Regular, Replays(t, v, c), NEW a \in SlotsOf(v, c)
  PROVE  LET w == Reinstantiate(v, c, a) IN
         /\ Sound(w, {}) /\ Replays(t, w, c) /\ Kept(v, w, c)
         /\ t.slot[a].inj => a \in Live(w)
         /\ Live(v) \subseteq Live(w)
<1> DEFINE w == Reinstantiate(v, c, a)
<1>1. Sound(w, {})
  BY ReinstantiateSound DEF Replays
<1>2. a \in Addrs /\ v.slot[a].inj = t.slot[a].inj /\ a \in SlotsOf(t, c)
  BY DEF SlotsOf, Replays, Owner
<1>3. CASE v.slot[a].inj /\ a \notin Live(v)
  <2>1. w = Instantiate(v, c, a)
    BY <1>2, <1>3 DEF Reinstantiate, Live
  <2>2. c \in Cls /\ v.cl[c] # None
    BY DEF Cls, Replays
  <2> HIDE DEF w
  <2>3. /\ Grown(v, w, c, a)
        /\ w.slab = v.slab
        /\ w.slot[a].attr = v.slot[a].attr /\ w.slot[a].waits = v.slot[a].waits
        /\ w.slot[a].device = v.slot[a].device
    <3> DEFINE X == {}
    <3>1. Sound(v, X)
      OBVIOUS
    <3> HIDE DEF X
    <3> QED
      BY <1>3, <2>1, <2>2, <3>1, InstantiateGrown
  <2>4. Kept(v, w, c)
    BY <2>3, GrownKept
  <2>5. /\ a \notin Live(v) /\ Live(w) = Live(v) \union {a}
        /\ w.slot[a].inj
        /\ \A x \in Addrs : x # a => SameCommand(v, w, x)
        /\ \A e \in Events : w.latest[e] = IF e = w.slot[a].attr THEN a ELSE v.latest[e]
        /\ \A d \in Cls : d # c => w.cl[d] = v.cl[d]
        /\ w.cl[c] # None /\ w.cl[c].tail = v.cl[c].tail /\ SameFlight(v, w, c)
        /\ w.kts = v.kts
    BY <2>3 DEF Grown
  <2>6. w.slot[a].inj = v.slot[a].inj
    <3>1. v.slot[a].inj \in BOOLEAN /\ w.slot[a].inj \in BOOLEAN
      BY <1>1, <1>2, SoundFacts, SlotTypes
    <3> QED
      BY <1>3, <2>5, <3>1
  <2>7. Replays(t, w, c)
    <3>1. \A x \in Addrs : /\ w.slot[x].inj = t.slot[x].inj
                           /\ w.slot[x].attr = t.slot[x].attr
                           /\ w.slot[x].waits = t.slot[x].waits
                           /\ w.slot[x].device = t.slot[x].device
      BY <2>3, <2>5, <2>6 DEF Replays, SameCommand
    <3>2. \A x \in Live(t) : x \in Live(w) /\ w.slot[x].preds = t.slot[x].preds
      <4> TAKE x \in Live(t)
      <4>1. x \in Live(v) /\ v.slot[x].preds = t.slot[x].preds /\ x \in Addrs
        BY DEF Replays, Live
      <4> QED
        BY <2>5, <4>1 DEF SameCommand
    <3>3. \A x \in Live(w) : x \in Live(t) \/ (x \in SlotsOf(t, c) /\ t.slot[x].inj)
      BY <1>2, <1>3, <2>5 DEF Replays
    <3>4. \A e \in Events : w.latest[e] = t.latest[e] \/ w.latest[e] \in SlotsOf(t, c)
      BY <1>2, <2>5 DEF Replays
    <3>5. /\ \A d \in Cls : d # c => w.cl[d] = t.cl[d]
          /\ w.cl[c] # None /\ w.cl[c].tail = t.cl[c].tail /\ SameFlight(t, w, c)
          /\ w.slab = t.slab /\ w.kts = t.kts
      BY <2>3, <2>5 DEF Replays, SameFlight
    <3> QED
      BY <3>1, <3>2, <3>3, <3>4, <3>5 DEF Replays
  <2> QED
    BY <1>1, <2>4, <2>5, <2>7 DEF w
<1>4. CASE ~(v.slot[a].inj /\ a \notin Live(v))
  <2>1. w = v
    BY <1>2, <1>4 DEF Reinstantiate, Live
  <2>2. t.slot[a].inj => a \in Live(v)
    BY <1>2, <1>4
  <2>3. Kept(v, v, c)
    BY DEF Kept
  <2> HIDE DEF w
  <2> QED
    BY <1>1, <2>1, <2>2, <2>3 DEF w
<1> QED
  BY <1>3, <1>4

LEMMA KeptTransitive ==
  ASSUME NEW t, NEW v, NEW w, NEW c, Kept(t, v, c), Kept(v, w, c)
  PROVE  Kept(t, w, c)
BY DEF Kept

LEMMA Replay ==
  ASSUME NEW t, Sound(t, {}), NEW c \in Regular, t.cl[c] # None, OneSlab(t)
  PROVE  LET v == Resubmitted(t, c) IN
         /\ Sound(v, {}) /\ Replays(t, v, c) /\ Kept(t, v, c)
         /\ \A a \in SlotsOf(t, c) : t.slot[a].inj => a \in Live(v)
<1> DEFINE b == t.cl[c].tail
           n == IF b = None THEN 0 ELSE t.slab[b].n_used
           f == CHOOSE f : Upto(t, c, b, n, f)
           Done(x, i) == \A a \in SlotsOf(t, c) : a[2] <= i /\ t.slot[a].inj => a \in Live(x)
           Good(x, i) == /\ Sound(x, {}) /\ Replays(t, x, c) /\ Kept(t, x, c)
                         /\ Done(x, i)
           S == {i \in 0 .. n : Good(f[i], i)}
<1>1. t \in Tracers /\ c \in Cls /\ ListExact(t, c)
  BY SoundFacts DEF Cls
<1>2. b \in Slabs \union {None} /\ SlabSlots \in Nat /\ None \notin Slabs
  BY <1>1, ListTypes, ZeAssumption
<1>3. b # None => t.slab[b].owner = c /\ t.slab[b].n_used \in 0 .. SlabSlots
  BY <1>1, <1>2, SlabTypes DEF ListExact
<1>4. n \in Nat /\ (n > 0 => b \in Slabs /\ n = t.slab[b].n_used /\ n <= SlabSlots)
  BY <1>2, <1>3
<1>5. Resubmitted(t, c) = f[n]
  BY DEF Resubmitted, Upto
<1>a. \A a \in SlotsOf(t, c) : a \in Addrs /\ a = <<b, a[2]>> /\ a[2] \in 1 .. n
  <2> TAKE a \in SlotsOf(t, c)
  <2>1. a \in Addrs /\ t.slab[a[1]].owner = c /\ a[2] <= t.slab[a[1]].n_used
    BY DEF SlotsOf, Owner
  <2>2. a[1] \in Slabs /\ a[2] \in 1 .. SlabSlots /\ a = <<a[1], a[2]>>
    BY <2>1, AddrFacts
  <2>3. a[1] = b
    BY <2>1, <2>2 DEF OneSlab, IsTail
  <2>4. b # None
    BY <1>2, <2>2, <2>3
  <2>5. n = t.slab[a[1]].n_used
    BY <2>3, <2>4
  <2> HIDE DEF n, b
  <2> QED
    BY <1>2, <1>4, <2>1, <2>2, <2>3, <2>5
<1> HIDE DEF b, n
<1>6. Upto(t, c, b, n, f)
  BY <1>4, UptoExists
<1> HIDE DEF f
<1>7. \A i \in 0 .. n : f[i] = IF i = 0 THEN t ELSE Reinstantiate(f[i - 1], c, <<b, i>>)
  <2>1. f = [i \in 0 .. n |-> IF i = 0 THEN t ELSE Reinstantiate(f[i - 1], c, <<b, i>>)]
    BY <1>6 DEF Upto
  <2> QED
    BY <2>1
<1>8. 0 \in S
  <2>1. 0 \in 0 .. n
    BY <1>4
  <2>2. f[0] = t
    BY <1>7, <2>1, Zenon
  <2>3. Replays(t, t, c)
    BY DEF Replays, SameFlight
  <2>4. Kept(t, t, c)
    BY DEF Kept
  <2>5. Done(t, 0)
    BY <1>a
  <2> QED
    BY <2>1, <2>2, <2>3, <2>4, <2>5
<1>9. ASSUME NEW i \in 0 .. n, i \in S, i < n PROVE i + 1 \in S
  <2> DEFINE x == f[i]
             a == <<b, i + 1>>
  <2>1. Good(x, i)
    BY <1>9
  <2>2. i + 1 \in 0 .. n /\ (i + 1) - 1 = i /\ i + 1 # 0 /\ i + 1 \in 1 .. n
    BY <1>4, <1>9
  <2>3. f[i + 1] = Reinstantiate(x, c, a)
    <3>1. f[i + 1] = Reinstantiate(f[(i + 1) - 1], c, <<b, i + 1>>)
      BY <1>7, <2>2
    <3> QED
      BY <2>2, <3>1
  <2>a. x.slab = t.slab
    BY <2>1 DEF Replays
  <2>4. a \in SlotsOf(x, c)
    <3>1. n > 0 /\ i + 1 \in 1 .. SlabSlots /\ i + 1 <= t.slab[b].n_used /\ b \in Slabs
      BY <1>2, <1>4, <2>2
    <3>2. a \in Addrs /\ a[1] = b /\ a[2] = i + 1
      BY <3>1, AddrFacts
    <3>3. t.slab[b].owner = c
      BY <1>2, <1>3, <3>1
    <3> HIDE DEF a, x
    <3> QED
      BY <2>a, <3>1, <3>2, <3>3 DEF SlotsOf, Owner
  <2>5. \A y \in SlotsOf(t, c) : y[2] <= i + 1 => y[2] <= i \/ y = a
    <3> TAKE y \in SlotsOf(t, c)
    <3>1. y = <<b, y[2]>> /\ y[2] \in 1 .. n
      BY <1>a
    <3> DEFINE k == y[2]
    <3> HIDE DEF k
    <3>2. y = <<b, k>> /\ k \in 1 .. n
      BY <3>1 DEF k
    <3>3. k <= i + 1 => k <= i \/ k = i + 1
      BY <1>4, <3>2
    <3> QED
      BY <3>2, <3>3 DEF k
  <2> DEFINE w == Reinstantiate(x, c, a)
  <2> HIDE DEF x, a, Done
  <2>6. /\ Sound(w, {}) /\ Replays(t, w, c) /\ Kept(x, w, c)
        /\ t.slot[a].inj => a \in Live(w)
        /\ Live(x) \subseteq Live(w)
    BY <2>1, <2>4, ReplayStep
  <2> HIDE DEF w
  <2>7. Kept(t, w, c)
    BY <2>1, <2>6, KeptTransitive
  <2>8. Done(w, i + 1)
    BY <2>1, <2>5, <2>6 DEF Done
  <2>9. Good(f[i + 1], i + 1)
    BY <2>3, <2>6, <2>7, <2>8 DEF w
  <2> QED
    BY <2>2, <2>9
<1> HIDE DEF S
<1>10. n \in S
  BY <1>4, <1>8, <1>9, Upward
<1>11. Good(f[n], n)
  BY <1>10 DEF S
<1>12. \A a \in SlotsOf(t, c) : t.slot[a].inj => a \in Live(f[n])
  BY <1>4, <1>11, <1>a
<1> QED
  BY <1>5, <1>11, <1>12

\* The list c is replayed and submitted.
Executed(t, c, q, f) == Submitted(Resubmitted(t, c), c, q, f)

Executes(t, u, c, q, f) ==
  /\ u.slab = t.slab /\ u.kts = t.kts
  /\ \A d \in Cls : d # c => u.cl[d] = t.cl[d]
  /\ u.cl[c] # None /\ u.cl[c].tail = t.cl[c].tail
  /\ u.cl[c].in_flight_q = q /\ u.cl[c].in_flight_fence = f
  /\ \A a \in Addrs :
       /\ u.slot[a].inj = t.slot[a].inj
       /\ u.slot[a].attr = t.slot[a].attr
       /\ u.slot[a].waits = t.slot[a].waits
       /\ u.slot[a].device = IF a \in SlotsOf(t, c) /\ t.slot[a].inj THEN "running"
                             ELSE t.slot[a].device
  /\ \A a \in Live(t) : a \in Live(u) /\ u.slot[a].preds = t.slot[a].preds
  /\ \A a \in Live(u) : a \in Live(t) \/ (a \in SlotsOf(t, c) /\ t.slot[a].inj)
  /\ \A a \in SlotsOf(t, c) : t.slot[a].inj => a \in Live(u)
  /\ \A e \in Events : u.latest[e] = t.latest[e] \/ u.latest[e] \in SlotsOf(t, c)

LEMMA ExecuteReplays ==
  ASSUME NEW t, Sound(t, {}), NEW c \in Regular, t.cl[c] # None, OneSlab(t),
         NEW q \in Queues, NEW f \in Fences \union {None}
  PROVE  LET u == Executed(t, c, q, f) IN
         /\ Sound(u, {}) /\ Executes(t, u, c, q, f)
         /\ NoBack(t, c) => (Acyclic(t) => Acyclic(u)) /\ (Edged(t) => Edged(u))
         /\ Signals(t) /\ Mine(t, c) => Signals(u)
<1> DEFINE v == Resubmitted(t, c)
           u == Executed(t, c, q, f)
<1>1. /\ Sound(v, {}) /\ Replays(t, v, c) /\ Kept(t, v, c)
      /\ \A a \in SlotsOf(t, c) : t.slot[a].inj => a \in Live(v)
  BY Replay
<1>2. u = Submitted(v, c, q, f)
  BY DEF Executed
<1>3. v.cl[c] # None /\ c \in Cls /\ v.slab = t.slab
  BY <1>1 DEF Replays, Cls
<1> HIDE DEF u, v
<1>4. /\ Sound(u, {})
      /\ u.slab = v.slab /\ u.latest = v.latest /\ u.kts = v.kts
      /\ \A x \in Cls : x # c => u.cl[x] = v.cl[x]
      /\ u.cl[c] = [v.cl[c] EXCEPT !.in_flight_q = q, !.in_flight_fence = f]
      /\ \A a \in Addrs : u.slot[a] = IF a \in SlotsOf(v, c) /\ v.slot[a].inj
                                      THEN [v.slot[a] EXCEPT !.device = "running"]
                                      ELSE v.slot[a]
  <2>1. Sound(u, {}) /\ Submits(v, u, c, q, f)
    BY <1>1, <1>2, <1>3, SubmittedSound
  <2> QED
    BY <2>1 DEF Submits
<1>5. \A d : SlotsOf(v, d) = SlotsOf(t, d) /\ SlotsOf(u, d) = SlotsOf(v, d)
  BY <1>3, <1>4 DEF SlotsOf, Owner
<1>6. v.cl[c] \in CommandLists
  BY <1>1, <1>3, SoundFacts, ListTypes
<1>7. /\ u.cl[c].tail = v.cl[c].tail
      /\ u.cl[c].in_flight_q = q /\ u.cl[c].in_flight_fence = f
      /\ u.cl[c] \in CommandLists
  <2> DEFINE l == v.cl[c]
             k == u.cl[c]
  <2>1. k = [l EXCEPT !.in_flight_q = q, !.in_flight_fence = f] /\ l \in CommandLists
    BY <1>4, <1>6
  <2> HIDE DEF l, k
  <2>2. /\ k.tail = l.tail /\ k.in_flight_q = q /\ k.in_flight_fence = f
        /\ k \in CommandLists
    BY <2>1 DEF CommandLists
  <2> QED
    BY <2>2 DEF l, k
<1>8. u.cl[c] # None
  BY <1>7, NewTypes, NoneAssumption
<1>9. \A a \in Addrs :
        /\ u.slot[a].inj = v.slot[a].inj
        /\ u.slot[a].attr = v.slot[a].attr
        /\ u.slot[a].waits = v.slot[a].waits
        /\ u.slot[a].preds = v.slot[a].preds
        /\ u.slot[a].live = v.slot[a].live
        /\ u.slot[a].device = IF a \in SlotsOf(v, c) /\ v.slot[a].inj THEN "running"
                              ELSE v.slot[a].device
  <2> TAKE a \in Addrs
  <2> DEFINE s == v.slot[a]
             r == u.slot[a]
  <2>1. s \in Slots
    BY <1>1, SoundFacts, TracerTypes
  <2>2. CASE a \in SlotsOf(v, c) /\ v.slot[a].inj
    <3>1. r = [s EXCEPT !.device = "running"]
      BY <1>4, <2>2
    <3> HIDE DEF s, r
    <3>2. /\ r.inj = s.inj /\ r.attr = s.attr /\ r.waits = s.waits /\ r.preds = s.preds
          /\ r.live = s.live /\ r.device = "running"
      BY <2>1, <3>1 DEF Slots
    <3> QED
      BY <2>2, <3>2 DEF s, r
  <2>3. CASE ~(a \in SlotsOf(v, c) /\ v.slot[a].inj)
    <3>1. r = s
      BY <1>4, <2>3
    <3> QED
      BY <2>3, <3>1
  <2> QED
    BY <2>2, <2>3
<1>10. Live(u) = Live(v) /\ Live(t) \subseteq Addrs
  BY <1>9 DEF Live
<1>11. Executes(t, u, c, q, f)
  <2>1. \A a \in Addrs :
          /\ u.slot[a].inj = t.slot[a].inj
          /\ u.slot[a].attr = t.slot[a].attr
          /\ u.slot[a].waits = t.slot[a].waits
          /\ u.slot[a].device = IF a \in SlotsOf(t, c) /\ t.slot[a].inj THEN "running"
                                ELSE t.slot[a].device
    BY <1>1, <1>5, <1>9 DEF Replays
  <2>2. \A a \in Live(t) : a \in Live(u) /\ u.slot[a].preds = t.slot[a].preds
    BY <1>1, <1>9, <1>10 DEF Replays
  <2>3. /\ \A a \in Live(u) : a \in Live(t) \/ (a \in SlotsOf(t, c) /\ t.slot[a].inj)
        /\ \A a \in SlotsOf(t, c) : t.slot[a].inj => a \in Live(u)
    BY <1>1, <1>10 DEF Replays
  <2>4. \A e \in Events : u.latest[e] = t.latest[e] \/ u.latest[e] \in SlotsOf(t, c)
    BY <1>1, <1>4 DEF Replays
  <2>5. /\ u.slab = t.slab /\ u.kts = t.kts
        /\ \A d \in Cls : d # c => u.cl[d] = t.cl[d]
        /\ u.cl[c].tail = t.cl[c].tail
    BY <1>1, <1>4, <1>7 DEF Replays
  <2> QED
    BY <1>7, <1>8, <2>1, <2>2, <2>3, <2>4, <2>5 DEF Executes
<1>12. \A a \in Live(v) : /\ a \in Addrs
                          /\ u.slot[a].attr = v.slot[a].attr
                          /\ u.slot[a].waits = v.slot[a].waits
                          /\ u.slot[a].preds = v.slot[a].preds
                          /\ PredsOf(u, a) = PredsOf(v, a)
  BY <1>9 DEF Live, PredsOf
<1>13. Acyclic(v) => Acyclic(u)
  <2> SUFFICES ASSUME Acyclic(v), NEW a \in Live(u) PROVE \E X : Below(u, a, X)
    BY DEF Acyclic
  <2>1. PICK X : Below(v, a, X)
    BY <1>10 DEF Acyclic
  <2>2. \A S : S \subseteq Live(v) => LivePreds(u, S) = LivePreds(v, S)
    BY <1>10, <1>12 DEF LivePreds
  <2>3. X \subseteq Live(v) /\ {a} \subseteq Live(v)
    BY <1>10, <2>1 DEF Below
  <2>4. LivePreds(u, X) = LivePreds(v, X) /\ LivePreds(u, {a}) = LivePreds(v, {a})
    BY <2>2, <2>3
  <2>5. /\ a \notin X /\ LivePreds(v, {a}) \subseteq X /\ LivePreds(v, X) \subseteq X
    BY <2>1 DEF Below
  <2>6. X \subseteq Live(u)
    BY <1>10, <2>3
  <2>7. Below(u, a, X)
    BY <2>4, <2>5, <2>6 DEF Below
  <2> QED
    BY <2>7
<1>14. Edged(v) => Edged(u)
  <2> SUFFICES ASSUME Edged(v), NEW a \in Live(u), NEW x \in u.slot[a].preds, x[2] \in Live(u)
               PROVE  EdgeMeans(u, a, x)
    BY DEF Edged
  <2>3. a \in Live(v) /\ x \in v.slot[a].preds /\ x[2] \in Live(v)
    BY <1>10, <1>12
  <2>1. EdgeMeans(v, a, x)
    BY <2>3 DEF Edged
  <2>2. \A y : Owner(u, y) = Owner(v, y)
    BY <1>4 DEF Owner
  <2> QED
    BY <1>10, <1>12, <2>1, <2>2 DEF EdgeMeans
<1>15. Signals(v) => Signals(u)
  <2>1. \A d : \A a \in SlotsOf(u, d) : a \in Addrs
    BY DEF SlotsOf
  <2> QED
    BY <1>4, <1>5, <1>9, <1>10, <1>12, <2>1 DEF Signals
<1>16. NoBack(t, c) => (Acyclic(t) => Acyclic(u)) /\ (Edged(t) => Edged(u))
  BY <1>1, <1>13, <1>14 DEF Kept
<1>17. Signals(t) /\ Mine(t, c) => Signals(u)
  BY <1>1, <1>15 DEF Kept
<1> QED
  BY <1>4, <1>11, <1>16, <1>17 DEF u

LEMMA ExecuteBase ==
  ASSUME NEW t, Sound(t, {}), NEW K, Base(t, K), NEW c \in Regular, t.cl[c] # None,
         NEW q \in Queues, NEW f, NEW u, Sound(u, {}), Executes(t, u, c, q, f)
  PROVE  Base(u, K \union {c})
<1> DEFINE J == K \union {c}
<1>1. /\ u.slab = t.slab
      /\ \A d \in Cls : d # c => u.cl[d] = t.cl[d]
      /\ u.cl[c] # None /\ u.cl[c].tail = t.cl[c].tail
      /\ u.cl[c].in_flight_q = q
      /\ \A a \in Addrs :
           /\ u.slot[a].inj = t.slot[a].inj
           /\ u.slot[a].device = IF a \in SlotsOf(t, c) /\ t.slot[a].inj THEN "running"
                                 ELSE t.slot[a].device
      /\ \A a \in Live(t) : a \in Live(u)
      /\ \A a \in Live(u) : a \in Live(t) \/ (a \in SlotsOf(t, c) /\ t.slot[a].inj)
      /\ \A a \in SlotsOf(t, c) : t.slot[a].inj => a \in Live(u)
  BY DEF Executes
<1>2. /\ \A a : Owner(u, a) = Owner(t, a)
      /\ \A d : SlotsOf(u, d) = SlotsOf(t, d)
      /\ Regular \subseteq Cls /\ None \notin Queues /\ Live(t) \subseteq Addrs
      /\ Live(u) \subseteq Addrs
      /\ \A d : \A a \in SlotsOf(t, d) : Owner(t, a) = d /\ a \in Addrs
  BY <1>1, ZeAssumption DEF Owner, SlotsOf, Cls, Live
<1>3. OneSlab(u)
  BY <1>1, <1>2 DEF Base, OneSlab, IsTail
<1>4. Unrun(u, J)
  <2> SUFFICES ASSUME NEW d \in Regular \ J, NEW a \in SlotsOf(u, d)
               PROVE  u.slot[a].live /\ u.slot[a].inj /\ u.slot[a].device = "recorded"
    BY DEF Unrun
  <2>1. a \in SlotsOf(t, d) /\ a \in Addrs /\ a \notin SlotsOf(t, c)
    BY <1>2
  <2>2. t.slot[a].live /\ t.slot[a].inj /\ t.slot[a].device = "recorded"
    BY <2>1 DEF Base, Unrun
  <2>3. a \in Live(u)
    BY <1>1, <2>1, <2>2 DEF Live
  <2> QED
    BY <1>1, <2>1, <2>2, <2>3 DEF Live
<1>5. Flight(u, J)
  <2> SUFFICES ASSUME NEW d \in Cls, u.cl[d] # None
               PROVE  /\ d \notin J \/ u.cl[d].in_flight_q = None =>
                           u.cl[d].in_flight_q = None /\ u.cl[d].in_flight_fence = None
                      /\ d \in J /\ u.cl[d].in_flight_q = None => LiveOf(u, d) = {}
    BY DEF Flight
  <2>1. CASE d = c
    BY <1>1, <1>2, <2>1
  <2>2. CASE d # c
    <3>1. u.cl[d] = t.cl[d] /\ (d \in J <=> d \in K)
      BY <1>1, <2>2
    <3>2. LiveOf(u, d) \subseteq LiveOf(t, d)
      BY <1>1, <1>2, <2>2 DEF LiveOf
    <3>3. /\ d \notin K \/ t.cl[d].in_flight_q = None =>
               t.cl[d].in_flight_q = None /\ t.cl[d].in_flight_fence = None
          /\ d \in K /\ t.cl[d].in_flight_q = None => LiveOf(t, d) = {}
      BY <3>1 DEF Base, Flight
    <3> QED
      BY <3>1, <3>2, <3>3
  <2> QED
    BY <2>1, <2>2
<1>6. OnDevice(u, J)
  <2>1. \A a \in Live(u) : u.slot[a].inj
    BY <1>1, <1>2 DEF Base, OnDevice
  <2>2. ASSUME NEW a \in Live(u), Owner(u, a) \in J \union Immediate
        PROVE  u.slot[a].device # "recorded"
    <3>1. CASE Owner(u, a) = c
      <4>1. a \in SlotsOf(u, c)
        BY <3>1, OwnersKnown
      <4> QED
        BY <1>1, <1>2, <2>1, <4>1
    <3>2. CASE Owner(u, a) # c
      <4>1. a \in Live(t) /\ a \in Addrs /\ a \notin SlotsOf(t, c)
        BY <1>1, <1>2, <3>2
      <4>2. t.slot[a].device # "recorded"
        BY <1>2, <2>2, <3>2, <4>1 DEF Base, OnDevice
      <4> QED
        BY <1>1, <4>1, <4>2
    <3> QED
      BY <3>1, <3>2
  <2>3. ASSUME NEW a \in Addrs, u.slot[a].device # "recorded"
        PROVE  u.slot[a].live
    <3>1. a \in Live(u)
      <4>1. CASE a \in SlotsOf(t, c) /\ t.slot[a].inj
        BY <1>1, <4>1
      <4>2. CASE ~(a \in SlotsOf(t, c) /\ t.slot[a].inj)
        <5>1. t.slot[a].device # "recorded"
          BY <1>1, <2>3, <4>2
        <5>2. a \in Live(t)
          BY <5>1 DEF Base, OnDevice, Live
        <5> QED
          BY <1>1, <5>2
      <4> QED
        BY <4>1, <4>2
    <3> QED
      BY <3>1 DEF Live
  <2> QED
    BY <2>1, <2>2, <2>3 DEF OnDevice
<1> QED
  BY <1>3, <1>4, <1>5, <1>6 DEF Base

-----------------------------------------------------------------------------
(* Timings are stashed for the events of the drained commands. *)

Fresh(t, u) == \A e \in u.kts \ t.kts : t.latest[e] # None

LEMMA DrainFresh ==
  ASSUME NEW t, Sound(t, {}), Signals(t), NEW D, D \subseteq Live(t)
  PROVE  Fresh(t, DrainAll(t, D))
<1> DEFINE u == DrainAll(t, D)
<1>1. u.kts = t.kts \union ({t.slot[a].attr : a \in {d \in D : t.slot[d].inj}} \intersect Timed)
  BY DrainShape
<1> HIDE DEF u
<1> SUFFICES ASSUME NEW e \in u.kts \ t.kts PROVE t.latest[e] # None
  BY DEF Fresh, u
<1>2. PICK a \in D : t.slot[a].attr = e /\ e \in Timed
  BY <1>1
<1>3. e # None /\ a # None
  BY <1>2, ZeAssumption, NoneAssumption DEF Live
<1> QED
  BY <1>2, <1>3 DEF Signals

LEMMA DrainClsFresh ==
  ASSUME NEW t, Sound(t, {}), Signals(t), NEW L, L \subseteq Cls, \A c \in L : t.cl[c] # None
  PROVE  Fresh(t, DrainCls(t, L))
<1> DEFINE D == Reached(t, UNION {SlotsOf(t, c) : c \in L})
           v == DrainAll(t, D)
<1>1. D \subseteq Live(t)
  BY ReachedFacts
<1>2. DrainCls(t, L) = Land(v, L)
  BY DEF DrainCls
<1> HIDE DEF D
<1>3. /\ Sound(v, {}) /\ Fresh(t, v)
      /\ \A c \in Cls : (v.cl[c] = None) <=> (t.cl[c] = None)
  BY <1>1, DrainSound, DrainFresh
<1> HIDE DEF v
<1>4. Land(v, L).kts = v.kts
  BY <1>3, LandSound
<1> QED
  BY <1>2, <1>3, <1>4 DEF Fresh

-----------------------------------------------------------------------------
(* Handlers that only take commands away. *)

LEMMA DrainOne ==
  ASSUME NEW t, Sound(t, {}), NEW c \in Cls, t.cl[c] # None, Returns(t, Reached(t, SlotsOf(t, c)))
  PROVE  LET v == DrainCls(t, {c}) IN
         /\ Sound(v, {}) /\ Lesser(t, v) /\ Grounded(v, c) /\ v.cl[c] # None
         /\ Signals(t) => Fresh(t, v)
<1> DEFINE L == {c}
           v == DrainCls(t, L)
<1>1. UNION {SlotsOf(t, x) : x \in L} = SlotsOf(t, c)
  OBVIOUS
<1>2. c \in L /\ L \subseteq Cls /\ \A x \in L : t.cl[x] # None
  OBVIOUS
<1> HIDE DEF L
<1>3. Returns(t, Reached(t, UNION {SlotsOf(t, x) : x \in L}))
  BY <1>1
<1>4. /\ Sound(v, {})
      /\ \A x \in Cls : v.cl[x] = None <=> t.cl[x] = None
  BY <1>2, DrainClsSound
<1>5. Lesser(t, v) /\ \A x \in L : Grounded(v, x)
  BY <1>2, <1>3, DrainClsLesser
<1>6. Signals(t) => Fresh(t, v)
  BY <1>2, DrainClsFresh
<1> HIDE DEF v
<1> QED
  BY <1>2, <1>4, <1>5, <1>6 DEF v, L

LEMMA ResetLesser ==
  ASSUME NEW t, Sound(t, {}), NEW c \in Cls, t.cl[c] # None, Returns(t, Reached(t, SlotsOf(t, c)))
  PROVE  LET u == Reclaim(DrainCls(t, {c}), c) IN
         /\ Lesser(t, u)
         /\ SlotsOf(u, c) = {} /\ (u.cl[c] # None => Grounded(u, c))
         /\ Signals(t) => Fresh(t, u)
<1> DEFINE v == DrainCls(t, {c})
           u == Reclaim(v, c)
<1>1. /\ Sound(v, {}) /\ Lesser(t, v) /\ Grounded(v, c) /\ v.cl[c] # None
      /\ Signals(t) => Fresh(t, v)
  BY DrainOne
<1> HIDE DEF v
<1>2. LiveOf(v, c) = {} /\ v \in Tracers
  BY <1>1, SoundFacts DEF Grounded
<1>3. u = Reclaimed(v, c, NewCl)
  BY <1>2, ReclaimedNew
<1> HIDE DEF u
<1>4. /\ Lesser(v, u) /\ SlotsOf(u, c) = {} /\ (u.cl[c] # None => Grounded(u, c))
      /\ u.kts = v.kts
  <2> DEFINE w == Reclaimed(v, c, NewCl)
  <2>1. /\ Lesser(v, w) /\ SlotsOf(w, c) = {} /\ (w.cl[c] # None => Grounded(w, c))
    BY <1>1, <1>2, ReclaimLesser
  <2>2. w.kts = v.kts
    BY <1>1, <1>2, ReclaimSound
  <2> HIDE DEF w
  <2> QED
    BY <1>3, <2>1, <2>2 DEF w
<1>5. Lesser(t, u)
  BY <1>1, <1>4, LesserTransitive
<1>6. Signals(t) => Fresh(t, u)
  BY <1>1, <1>4 DEF Fresh
<1> QED
  BY <1>4, <1>5, <1>6 DEF u, v

\* A handler that waits for the device.
Stays == UNCHANGED <<tr, closed, fired, hook>>

\* What a step that takes commands away does to the system.
Takes == /\ Lesser(tr, tr') /\ Base(tr', closed')
         /\ Signals(tr) => Fresh(tr, tr')
         /\ fired' = fired

LEMMA TakeListSteps ==
  ASSUME State, "sync_first" \in Rules, Base(tr, closed), NEW c \in Cls,
         CreateCommandList(c) \/ DestroyCommandList(c)
  PROVE  Takes /\ UNCHANGED <<hook, holder>>
<1>1. Sound(tr, {})
  BY DEF State
<1>2. CASE CreateCommandList(c)
  <2>1. /\ tr.cl[c] = None /\ tr' = [tr EXCEPT !.cl[c] = NewCl]
        /\ UNCHANGED <<closed, fired, hook, holder>>
    BY <1>2 DEF CreateCommandList
  <2>2. Lesser(tr, tr')
    BY <1>1, <2>1, CreateLesser
  <2>3. tr'.kts = tr.kts
    BY <1>1, <2>1, SoundFacts, TracerTypes
  <2>4. Base(tr', closed)
    BY <2>2, LesserBase
  <2> QED
    BY <2>1, <2>2, <2>3, <2>4 DEF Takes, Fresh
<1>3. CASE DestroyCommandList(c)
  <2>1. /\ tr.cl[c] # None /\ tr.cl[c].n_live = 0
        /\ tr' = Reclaimed(tr, c, None)
        /\ closed' = closed \ {c} /\ UNCHANGED <<fired, hook, holder>>
    BY <1>3 DEF DestroyCommandList, Registered, Reclaimed
  <2>2. Cardinality(LiveOf(tr, c)) = 0 /\ LiveOf(tr, c) \subseteq Live(tr)
    BY <1>1, <2>1, SoundFacts DEF ListExact, LiveOf
  <2>3. IsFiniteSet(LiveOf(tr, c))
    BY <1>1, <2>2, SoundFacts, LiveFacts, FS_Subset
  <2>4. LiveOf(tr, c) = {}
    BY <2>2, <2>3, FS_EmptySet
  <2> DEFINE w == Reclaimed(tr, c, None)
  <2>5. /\ Lesser(tr, w) /\ SlotsOf(w, c) = {} /\ (w.cl[c] # None => Grounded(w, c))
    BY <1>1, <2>1, <2>4, ReclaimLesser
  <2>6. w.kts = tr.kts
    BY <1>1, <2>1, <2>4, ReclaimSound
  <2> HIDE DEF w
  <2>7. Base(w, closed \ {c})
    BY <2>5, LesserBase
  <2> QED
    BY <2>1, <2>5, <2>6, <2>7 DEF Takes, Fresh, w
<1> QED
  BY <1>2, <1>3

LEMMA TakeReset ==
  ASSUME State, Base(tr, closed), NEW c \in Regular, ResetCommandList(c)
  PROVE  Stays \/ (Takes /\ UNCHANGED hook)
<1> DEFINE D == Reached(tr, SlotsOf(tr, c))
           u == Reclaim(DrainCls(tr, {c}), c)
           h == <<"reset", c>>
<1>1. /\ Sound(tr, {}) /\ tr.cl[c] # None /\ c \in Cls
      /\ UNCHANGED fired
      /\ \/ Waits(h, D)
         \/ Proceeds(h, D) /\ tr' = u /\ closed' = closed \ {c} /\ UNCHANGED hook
  BY DEF State, ResetCommandList, Registered, Cls
<1> HIDE DEF h
<1>2. CASE Waits(h, D)
  BY <1>1, <1>2 DEF Waits, Stays
<1>3. CASE Proceeds(h, D) /\ tr' = u /\ closed' = closed \ {c} /\ UNCHANGED hook
  <2>1. Returns(tr, Reached(tr, SlotsOf(tr, c)))
    BY <1>3 DEF Proceeds
  <2>2. /\ Lesser(tr, u) /\ SlotsOf(u, c) = {} /\ (u.cl[c] # None => Grounded(u, c))
        /\ Signals(tr) => Fresh(tr, u)
    BY <1>1, <2>1, ResetLesser
  <2> HIDE DEF u
  <2>3. Base(u, closed \ {c})
    BY <2>2, LesserBase
  <2> QED
    BY <1>1, <1>3, <2>2, <2>3 DEF Takes
<1> QED
  BY <1>1, <1>2, <1>3

LEMMA TakeContext ==
  ASSUME State, "sync_first" \in Rules, Base(tr, closed), DestroyContext
  PROVE  Takes /\ UNCHANGED <<hook, holder>>
<1> DEFINE mine == {a \in Addrs : Owner(tr, a) \in Cls}
           u == Cleared(tr, mine)
<1>1. /\ Sound(tr, {}) /\ closed \subseteq Regular
      /\ Live(tr) = {} /\ tr' = u /\ closed' = {} /\ UNCHANGED <<fired, hook, holder>>
  BY DEF State, DestroyContext, Cleared
<1>2. mine = {a \in Addrs : Owner(tr, a) \in Cls}
  OBVIOUS
<1> HIDE DEF mine
<1>3. /\ Lesser(tr, u)
      /\ \A c \in Cls : SlotsOf(u, c) = {} /\ u.cl[c] = None
  BY <1>1, <1>2, ClearedLesser
<1>4. u.kts = tr.kts
  BY <1>1, <1>2, DestroyContextSound
<1> HIDE DEF u
<1>5. Base(u, {})
  <2> DEFINE J == {}
  <2>1. J \subseteq closed /\ \A c \in closed \ J : SlotsOf(u, c) = {} /\ (u.cl[c] # None => Grounded(u, c))
    BY <1>1, <1>3 DEF Cls
  <2> HIDE DEF J
  <2>2. Base(u, J)
    BY <1>3, <2>1, LesserBase
  <2> QED
    BY <2>2 DEF J
<1> QED
  BY <1>1, <1>3, <1>4, <1>5 DEF Takes, Fresh

LEMMA TakeSync ==
  ASSUME State, Base(tr, closed), OnSync
  PROVE  Stays \/ (Takes /\ hook' = None)
<1>1. /\ Sound(tr, {}) /\ UNCHANGED <<closed, fired>>
      /\ hook # None /\ hook[1] = "event" => hook[2] \in Events
      /\ hook # None
      /\ \/ hook[1] = "event" /\ OnSyncEvent(hook[2])
         \/ hook[1] = "cl" /\ OnSyncCls({hook[2]} \intersect Registered)
         \/ hook[1] = "queue" /\ OnSyncCls(InFlightOn(hook[2]))
         \/ hook[1] = "fence" /\ OnSyncCls(InFlightUnder(hook[2]))
  BY DEF State, OnSync
<1>2. ASSUME NEW u, tr' = u, Lesser(tr, u), Signals(tr) => Fresh(tr, u), hook' = None
      PROVE  Takes /\ hook' = None
  <2>1. Base(u, closed)
    BY <1>2, LesserBase
  <2> QED
    BY <1>1, <1>2, <2>1 DEF Takes
<1>3. ASSUME NEW L, L \subseteq Registered, OnSyncCls(L)
      PROVE  Stays \/ (Takes /\ hook' = None)
  <2> DEFINE D == Reached(tr, UNION {SlotsOf(tr, c) : c \in L})
             u == DrainCls(tr, L)
  <2>1. /\ \/ Waits(<<"sync">>, D)
           \/ Proceeds(<<"sync">>, D) /\ tr' = u /\ hook' = None
        /\ L \subseteq Cls /\ \A c \in L : tr.cl[c] # None
    BY <1>3 DEF OnSyncCls, Registered
  <2>2. CASE Waits(<<"sync">>, D)
    BY <1>1, <2>2 DEF Waits, Stays
  <2>3. CASE Proceeds(<<"sync">>, D) /\ tr' = u /\ hook' = None
    <3>1. /\ Returns(tr, Reached(tr, UNION {SlotsOf(tr, c) : c \in L}))
          /\ tr' = u /\ hook' = None
      BY <2>3 DEF Proceeds
    <3>2. Lesser(tr, u)
      BY <1>1, <2>1, <3>1, DrainClsLesser
    <3>3. Signals(tr) => Fresh(tr, u)
      BY <1>1, <2>1, DrainClsFresh
    <3> HIDE DEF u
    <3> QED
      BY <1>2, <3>1, <3>2, <3>3
  <2> QED
    BY <2>1, <2>2, <2>3
<1>4. ASSUME NEW e \in Events, OnSyncEvent(e)
      PROVE  Stays \/ (Takes /\ hook' = None)
  <2> DEFINE s == tr.latest[e]
             D == Reached(tr, {s})
             t == DrainAll(tr, D)
             c == Owner(tr, s)
             u == IF t.cl[c].n_live = 0 THEN Land(t, {c}) ELSE t
  <2>1. CASE s # None /\ c \in Cls
    <3>1. \/ Waits(<<"sync">>, D)
          \/ Proceeds(<<"sync">>, D) /\ tr' = u /\ hook' = None
      BY <1>4, <2>1 DEF OnSyncEvent
    <3>2. CASE Waits(<<"sync">>, D)
      BY <1>1, <3>2 DEF Waits, Stays
    <3>3. CASE Proceeds(<<"sync">>, D) /\ tr' = u /\ hook' = None
      <4>1. Returns(tr, D) /\ tr' = u /\ hook' = None
        BY <3>3 DEF Proceeds
      <4>2. s \in Addrs /\ tr.cl[c] # None
        <5>1. s \in Addrs
          BY <1>1, <2>1, SoundFacts, TracerTypes
        <5> QED
          BY <1>1, <2>1, <5>1, SoundFacts, AddrFacts DEF SlabKnown, Owner
      <4>3. D \subseteq Live(tr)
        BY ReachedFacts
      <4> HIDE DEF D
      <4>4. /\ Sound(t, {}) /\ t.cl[c] # None /\ Lesser(tr, t)
            /\ Signals(tr) => Fresh(tr, t)
        BY <1>1, <2>1, <4>1, <4>2, <4>3, DrainSound, DrainLesser, DrainFresh
      <4> HIDE DEF t, c
      <4>5. CASE t.cl[c].n_live = 0
        <5> DEFINE L == {c}
        <5>1. LiveOf(t, c) = {}
          <6>1. Cardinality(LiveOf(t, c)) = 0 /\ LiveOf(t, c) \subseteq Live(t)
            BY <2>1, <4>4, <4>5, SoundFacts DEF ListExact, LiveOf
          <6>2. IsFiniteSet(LiveOf(t, c))
            BY <4>4, <6>1, SoundFacts, LiveFacts, FS_Subset
          <6> QED
            BY <6>1, <6>2, FS_EmptySet
        <5>2. L \subseteq Cls /\ \A x \in L : t.cl[x] # None /\ LiveOf(t, x) = {}
          BY <2>1, <4>4, <5>1
        <5>3. u = Land(t, L)
          BY <4>5
        <5> HIDE DEF L
        <5>4. Lesser(t, Land(t, L)) /\ Land(t, L).kts = t.kts
          BY <4>4, <5>2, LandLesser, LandSound
        <5> HIDE DEF u
        <5>5. Lesser(tr, u) /\ (Signals(tr) => Fresh(tr, u))
          BY <4>4, <5>3, <5>4, LesserTransitive DEF Fresh
        <5> QED
          BY <1>2, <4>1, <5>5
      <4>6. CASE t.cl[c].n_live # 0
        <5>1. u = t
          BY <4>6
        <5> HIDE DEF u
        <5> QED
          BY <1>2, <4>1, <4>4, <5>1
      <4> QED
        BY <4>5, <4>6
    <3> QED
      BY <3>1, <3>2, <3>3
  <2>2. CASE ~(s # None /\ c \in Cls)
    <3>1. UNCHANGED tr /\ hook' = None
      BY <1>4, <2>2 DEF OnSyncEvent
    <3> QED
      BY <1>1, <3>1, LesserSame DEF Takes, Fresh
  <2> QED
    BY <2>1, <2>2
<1>5. {hook[2]} \intersect Registered \subseteq Registered
  OBVIOUS
<1>6. InFlightOn(hook[2]) \subseteq Registered /\ InFlightUnder(hook[2]) \subseteq Registered
  BY DEF InFlightOn, InFlightUnder
<1> QED
  BY <1>1, <1>3, <1>4, <1>5, <1>6

-----------------------------------------------------------------------------
(* Handlers that submit commands. *)

\* The tracer when a new slot is found and before the command is in it.
LEMMA AppendFrom ==
  ASSUME State, Base(tr, closed), NEW c \in Cls, NEW attr \in Events \union {None},
         NEW waits \in WaitLists, AppendCommand(c, attr, waits)
  PROVE  \E r, a :
           /\ Sound(r, {}) /\ Lesser(tr, r) /\ Base(r, closed)
           /\ r.cl[c] # None /\ r.kts = tr.kts /\ r.latest = tr.latest
           /\ Sound(tr', {}) /\ Grown(r, tr', c, a)
           /\ tr'.slot[a].attr = attr /\ tr'.slot[a].waits = waits
           /\ tr'.slot[a].device = IF c \in Immediate THEN "running" ELSE "recorded"
           /\ \A s \in Live(r) : a \notin PredsOf(r, s)
<1> DEFINE r == WithRoom(tr, c)
           a == NextSlot(r, c)
           u == Appended(tr, c, attr, waits)
<1>1. /\ Sound(tr, {}) /\ tr.cl[c] # None /\ OneSlab(tr)
      /\ HasRoom(tr, c) \/ (FreeSlabs(tr) # {} /\ (c \in Immediate \/ tr.cl[c].tail = None))
      /\ tr' = u
  BY DEF State, Base, AppendCommand, Registered, Appended
<1>2. /\ Sound(r, {}) /\ Sound(u, {})
      /\ r.cl[c] # None /\ r.kts = tr.kts /\ r.latest = tr.latest
      /\ Grown(r, u, c, a)
      /\ u.slot[a].attr = attr /\ u.slot[a].waits = waits
      /\ u.slot[a].device = IF c \in Immediate THEN "running" ELSE "recorded"
      /\ \A s \in Live(r) : a \notin PredsOf(r, s)
  BY <1>1, AppendGrown
<1>3. Lesser(tr, r)
  BY <1>1, WithRoomLesser
<1> HIDE DEF u, r, a
<1>4. Base(r, closed)
  BY <1>3, LesserBase
<1> QED
  BY <1>1, <1>2, <1>3, <1>4

LEMMA AppendSteps ==
  ASSUME State, Base(tr, closed), NEW c \in Cls, NEW attr \in Events \union {None},
         NEW waits \in WaitLists, AppendCommand(c, attr, waits)
  PROVE  /\ Base(tr', closed') /\ Fresh(tr, tr')
         /\ UNCHANGED <<closed, fired, hook, holder>>
         /\ "one_signal" \in Rules /\ Signals(tr) => Signals(tr')
<1>1. /\ Sound(tr, {}) /\ closed \subseteq Regular /\ c \notin closed
      /\ UNCHANGED <<closed, fired, hook, holder>>
      /\ "one_signal" \in Rules /\ attr # None => tr.latest[attr] = None
  BY DEF State, AppendCommand
<1>2. PICK r, a :
           /\ Sound(r, {}) /\ Lesser(tr, r) /\ Base(r, closed)
           /\ r.cl[c] # None /\ r.kts = tr.kts /\ r.latest = tr.latest
           /\ Sound(tr', {}) /\ Grown(r, tr', c, a)
           /\ tr'.slot[a].attr = attr /\ tr'.slot[a].waits = waits
           /\ tr'.slot[a].device = IF c \in Immediate THEN "running" ELSE "recorded"
           /\ \A s \in Live(r) : a \notin PredsOf(r, s)
  BY AppendFrom
<1> DEFINE u == tr'
           K == closed
<1>3. /\ K \subseteq Regular /\ c \notin K /\ Base(r, K) /\ Sound(u, {}) /\ Grown(r, u, c, a)
      /\ u.slot[a].attr = attr
      /\ u.slot[a].device = IF c \in Immediate THEN "running" ELSE "recorded"
  BY <1>1, <1>2
<1> HIDE DEF u, K
<1>4. Base(u, K)
  BY <1>2, <1>3, GrownBase
<1>5. u.kts = tr.kts
  BY <1>2, <1>3 DEF Grown
<1>6. ASSUME "one_signal" \in Rules, Signals(tr)
      PROVE  Signals(u)
  <2>1. r \in Tracers /\ Signals(r)
    BY <1>1, <1>2, <1>6, SoundFacts, LesserSignals
  <2>2. /\ \A x \in Addrs : x # a => SameCommand(r, u, x)
        /\ \A d : SlotsOf(u, d) \subseteq SlotsOf(r, d) \union {a}
    BY <1>3 DEF Grown
  <2>3. \A x \in Live(r) : r.slot[x].attr = attr => attr = None
    <3>1. \A x \in Live(r) : x # None
      BY NoneAssumption DEF Live
    <3> QED
      BY <1>1, <1>2, <1>6, <2>1, <3>1 DEF Signals
  <2>4. ASSUME c \in Regular, NEW x \in SlotsOf(u, c), u.slot[x].attr = attr, attr # None, x # a
        PROVE  FALSE
    <3>1. x \in SlotsOf(r, c) /\ x \in Addrs /\ r.slot[x].attr = attr
      BY <2>2, <2>4 DEF SameCommand, SlotsOf
    <3>2. x \in Live(r)
      BY <1>3, <2>4, <3>1 DEF Base, Unrun, Live
    <3> QED
      BY <2>3, <2>4, <3>1, <3>2
  <2>5. /\ \A x \in Live(r) : r.slot[x].attr = u.slot[a].attr => r.slot[x].attr = None
        /\ c \in Regular => \A x \in SlotsOf(u, c) :
             u.slot[x].attr = u.slot[a].attr /\ u.slot[x].attr # None => x = a
    BY <1>3, <2>3, <2>4
  <2> QED
    BY <1>3, <2>1, <2>5, GrownSignals
<1> QED
  BY <1>1, <1>4, <1>5, <1>6 DEF u, K, Fresh

\* The tracer when what is in flight of c is drained, and before c is replayed.
Idle(t, c) ==
  /\ Sound(t, {}) /\ Lesser(tr, t) /\ Base(t, closed) /\ t.cl[c] # None
  /\ c \in closed => LiveOf(t, c) = {}
  /\ Signals(tr) => Fresh(tr, t)

LEMMA ExecuteFrom ==
  ASSUME State, Base(tr, closed), NEW c \in Regular, NEW q \in Queues,
         NEW f \in Fences \union {None}, Execute(c, q, f)
  PROVE  /\ UNCHANGED fired
         /\ \/ Stays
            \/ /\ \E t : Idle(t, c) /\ tr' = Executed(t, c, q, f)
               /\ closed' = closed \union {c} /\ UNCHANGED hook
<1> DEFINE v == DrainCls(tr, {c})
           D == Reached(tr, SlotsOf(tr, c))
           W == Outstanding(c)
           h == <<"execute", c, q, f>>
           t == IF tr.cl[c].in_flight_q = None THEN tr ELSE v
<1>1. /\ Sound(tr, {}) /\ c \in Cls /\ tr.cl[c] # None
      /\ c \notin closed => tr.cl[c].in_flight_q = None
      /\ c \in closed /\ tr.cl[c].in_flight_q = None => LiveOf(tr, c) = {}
      /\ UNCHANGED fired
  BY DEF State, Execute, Registered, Cls, Base, Flight
<1>2. \/ Waits(h, W)
      \/ /\ Proceeds(h, W) /\ tr' = Executed(t, c, q, f)
         /\ closed' = closed \union {c} /\ UNCHANGED hook
  BY DEF Execute, Executed
<1>3. tr.cl[c].in_flight_q # None => D \subseteq W
  BY DEF Outstanding
<1> HIDE DEF W, h
<1>4. CASE Waits(h, W)
  BY <1>1, <1>4 DEF Waits, Stays
<1>5. CASE /\ Proceeds(h, W) /\ tr' = Executed(t, c, q, f)
           /\ closed' = closed \union {c} /\ UNCHANGED hook
  <2>1. Idle(t, c)
    <3>1. CASE tr.cl[c].in_flight_q # None
      <4>1. Returns(tr, D) /\ t = v
        BY <1>3, <1>5, <3>1 DEF Proceeds, Returns
      <4>2. /\ Sound(v, {}) /\ Lesser(tr, v) /\ Grounded(v, c) /\ v.cl[c] # None
            /\ Signals(tr) => Fresh(tr, v)
        BY <1>1, <4>1, DrainOne
      <4> HIDE DEF v, t
      <4>3. Base(v, closed)
        BY <4>2, LesserBase
      <4> QED
        BY <4>1, <4>2, <4>3 DEF Idle, Grounded
    <3>2. CASE tr.cl[c].in_flight_q = None
      <4>1. Idle(tr, c)
        BY <1>1, <3>2, LesserSame DEF Idle, Fresh
      <4> QED
        BY <3>2, <4>1
    <3> QED
      BY <3>1, <3>2
  <2> HIDE DEF t
  <2> QED
    BY <1>1, <1>5, <2>1
<1> HIDE DEF t
<1> QED
  BY <1>2, <1>4, <1>5

\* The events that c signals have no other signaler once c is idle.
LEMMA IdleMine ==
  ASSUME NEW c \in Regular, Mine(tr, c), NEW t, Idle(t, c)
  PROVE  Mine(t, c)
<1> SUFFICES ASSUME NEW a \in SlotsOf(t, c), t.slot[a].attr # None
             PROVE  t.latest[t.slot[a].attr] \in SlotsOf(t, c) \union {None}
  BY DEF Mine
<1> DEFINE e == t.slot[a].attr
           x == t.latest[e]
<1>1. Sound(t, {}) /\ Lesser(tr, t)
  BY DEF Idle
<1>2. a \in SlotsOf(tr, c) /\ tr.slot[a].attr = e
  BY <1>1 DEF Lesser
<1>3. e \in Events
  <2>1. a \in Addrs
    BY DEF SlotsOf
  <2> QED
    BY <1>1, <2>1, SoundFacts, SlotTypes
<1>4. tr.latest[e] \in SlotsOf(tr, c) \union {None}
  BY <1>2 DEF Mine
<1> HIDE DEF e
<1>5. CASE x # None
  <2>1. x = tr.latest[e] /\ x \in Live(t)
    BY <1>1, <1>3, <1>5, SoundFacts DEF Lesser, LatestLive
  <2>2. x \in SlotsOf(tr, c)
    BY <1>4, <1>5, <2>1
  <2>3. Owner(t, x) = c
    BY <1>1, <2>1, <2>2 DEF Lesser, SameCommand, SlotsOf
  <2> QED
    BY <1>1, <2>1, <2>3, OwnersKnown DEF e
<1> QED
  BY <1>5 DEF e

LEMMA ExecuteSteps ==
  ASSUME State, Base(tr, closed), NEW c \in Regular, NEW q \in Queues,
         NEW f \in Fences \union {None}, Execute(c, q, f)
  PROVE  \/ Stays
         \/ /\ Base(tr', closed')
            /\ Signals(tr) => Fresh(tr, tr')
            /\ "one_signal" \in Rules /\ Signals(tr) => Signals(tr')
<1>1. CASE Stays
  BY <1>1
<1>2. CASE /\ \E t : Idle(t, c) /\ tr' = Executed(t, c, q, f)
           /\ closed' = closed \union {c}
  <2>1. PICK t : Idle(t, c) /\ tr' = Executed(t, c, q, f)
    BY <1>2
  <2>2. /\ Sound(t, {}) /\ Lesser(tr, t) /\ Base(t, closed) /\ t.cl[c] # None
        /\ Signals(tr) => Fresh(tr, t)
    BY <2>1 DEF Idle
  <2>3. OneSlab(t)
    BY <2>2 DEF Base
  <2>4. closed' = closed \union {c}
    BY <1>2
  <2> DEFINE u == Executed(t, c, q, f)
             K == closed
  <2>5. /\ Sound(u, {}) /\ Executes(t, u, c, q, f)
        /\ Signals(t) /\ Mine(t, c) => Signals(u)
    BY <2>2, <2>3, ExecuteReplays
  <2>6. tr' = u /\ Base(t, K)
    BY <2>1, <2>2
  <2> HIDE DEF u, K
  <2>7. Base(u, K \union {c})
    BY <2>2, <2>5, <2>6, ExecuteBase
  <2>8. u.kts = t.kts
    BY <2>5 DEF Executes
  <2>9. ASSUME "one_signal" \in Rules, Signals(tr)
        PROVE  Signals(u)
    <3>1. Mine(tr, c)
      BY <2>9 DEF Execute, MayExecute, Mine
    <3>2. Mine(t, c)
      BY <2>1, <3>1, IdleMine
    <3>3. tr \in Tracers
      BY SoundFacts DEF State
    <3>4. Signals(t)
      BY <2>2, <2>9, <3>3, LesserSignals
    <3> QED
      BY <2>5, <3>2, <3>4
  <2>10. Base(tr', closed') /\ (Signals(tr) => Fresh(tr, tr'))
    BY <2>2, <2>4, <2>6, <2>7, <2>8 DEF Fresh, K
  <2> QED
    BY <2>6, <2>9, <2>10
<1> QED
  BY <1>1, <1>2, ExecuteFrom

-----------------------------------------------------------------------------
(* The device, the program and events. *)

\* Only the command a is different, which has ended; nothing is for a = None.
Completes(t, u, a) ==
  /\ u.cl = t.cl /\ u.slab = t.slab /\ u.latest = t.latest /\ u.kts \subseteq t.kts
  /\ \A x \in Addrs :
       /\ u.slot[x].live = t.slot[x].live
       /\ u.slot[x].inj = t.slot[x].inj
       /\ u.slot[x].attr = t.slot[x].attr
       /\ u.slot[x].waits = t.slot[x].waits
       /\ u.slot[x].preds = t.slot[x].preds
       /\ u.slot[x].device = IF x = a THEN "done" ELSE t.slot[x].device
  /\ a \in Addrs => t.slot[a].device = "running"

LEMMA CompletesFacts ==
  ASSUME NEW t, NEW u, NEW a, Completes(t, u, a)
  PROVE  /\ Live(u) = Live(t) /\ Live(t) \subseteq Addrs
         /\ \A x : Owner(u, x) = Owner(t, x)
         /\ \A d : SlotsOf(u, d) = SlotsOf(t, d) /\ LiveOf(u, d) = LiveOf(t, d)
         /\ \A x \in Live(t) : PredsOf(u, x) = PredsOf(t, x)
<1>1. Live(u) = Live(t) /\ Live(t) \subseteq Addrs
  BY DEF Completes, Live
<1>2. \A x : Owner(u, x) = Owner(t, x)
  BY DEF Completes, Owner
<1>3. \A d : SlotsOf(u, d) = SlotsOf(t, d)
  BY <1>2 DEF Completes, SlotsOf
<1>4. \A d : LiveOf(u, d) = LiveOf(t, d)
  BY <1>1, <1>2 DEF LiveOf
<1>5. \A x \in Live(t) : PredsOf(u, x) = PredsOf(t, x)
  BY <1>1 DEF Completes, PredsOf
<1> QED
  BY <1>1, <1>2, <1>3, <1>4, <1>5

LEMMA CompletesBase ==
  ASSUME NEW t, NEW u, NEW a, Completes(t, u, a), NEW K, Base(t, K)
  PROVE  Base(u, K)
<1>1. /\ Live(u) = Live(t) /\ Live(t) \subseteq Addrs
      /\ \A x : Owner(u, x) = Owner(t, x)
      /\ \A d : SlotsOf(u, d) = SlotsOf(t, d) /\ LiveOf(u, d) = LiveOf(t, d)
      /\ \A d : \A x \in SlotsOf(t, d) : x \in Addrs
  BY CompletesFacts DEF SlotsOf
<1>2. OneSlab(u) /\ Flight(u, K)
  BY <1>1 DEF Base, OneSlab, IsTail, Flight, Completes
<1>3. Unrun(u, K)
  <2> SUFFICES ASSUME NEW d \in Regular \ K, NEW x \in SlotsOf(u, d)
               PROVE  u.slot[x].live /\ u.slot[x].inj /\ u.slot[x].device = "recorded"
    BY DEF Unrun
  <2>1. x \in Addrs /\ t.slot[x].live /\ t.slot[x].inj /\ t.slot[x].device = "recorded"
    BY <1>1 DEF Base, Unrun
  <2> QED
    BY <2>1 DEF Completes
<1>4. OnDevice(u, K)
  <2>1. \A x \in Live(u) : u.slot[x].inj
    BY <1>1 DEF Base, OnDevice, Completes
  <2>2. \A x \in Live(u) : Owner(u, x) \in K \union Immediate => u.slot[x].device # "recorded"
    BY <1>1 DEF Base, OnDevice, Completes
  <2>3. \A x \in Addrs : u.slot[x].device # "recorded" => u.slot[x].live
    BY DEF Base, OnDevice, Completes
  <2> QED
    BY <2>1, <2>2, <2>3 DEF OnDevice
<1> QED
  BY <1>2, <1>3, <1>4 DEF Base

LEMMA CompletesKept ==
  ASSUME NEW t, NEW u, NEW a, Completes(t, u, a)
  PROVE  Fresh(t, u) /\ (Signals(t) => Signals(u)) /\ (Acyclic(t) => Acyclic(u))
<1>1. /\ Live(u) = Live(t) /\ Live(t) \subseteq Addrs
      /\ \A d : SlotsOf(u, d) = SlotsOf(t, d)
      /\ \A x \in Live(t) : PredsOf(u, x) = PredsOf(t, x)
      /\ \A d : \A x \in SlotsOf(t, d) : x \in Addrs
  BY CompletesFacts DEF SlotsOf
<1>2. Signals(t) => Signals(u)
  BY <1>1 DEF Signals, Completes
<1>3. Acyclic(t) => Acyclic(u)
  <2>1. \A S : S \subseteq Live(t) => LivePreds(u, S) = LivePreds(t, S)
    BY <1>1 DEF LivePreds
  <2> SUFFICES ASSUME Acyclic(t), NEW s \in Live(u) PROVE \E X : Below(u, s, X)
    BY DEF Acyclic
  <2>2. PICK X : Below(t, s, X)
    BY <1>1 DEF Acyclic
  <2>3. X \subseteq Live(t) /\ {s} \subseteq Live(t)
    BY <1>1, <2>2 DEF Below
  <2>4. LivePreds(u, X) = LivePreds(t, X) /\ LivePreds(u, {s}) = LivePreds(t, {s})
    BY <2>1, <2>3
  <2> QED
    BY <1>1, <2>2, <2>4 DEF Below
<1>4. Fresh(t, u)
  BY DEF Fresh, Completes
<1> QED
  BY <1>2, <1>3, <1>4

LEMMA CompleteFrame ==
  ASSUME State, NEW a \in Addrs, Complete(a)
  PROVE  Completes(tr, tr', a) /\ UNCHANGED <<closed, hook, holder>>
<1> DEFINE slot == tr.slot
           s == slot[a]
           done == [s EXCEPT !.device = "done"]
           slots == [slot EXCEPT ![a] = done]
           cls == tr.cl
           slabs == tr.slab
           latest == tr.latest
           kts == tr.kts
           u == [tr EXCEPT !.slot[a].device = "done"]
<1>1. /\ tr = [cl |-> cls, slab |-> slabs, slot |-> slot, latest |-> latest, kts |-> kts]
      /\ slot \in [Addrs -> Slots]
  BY SoundFacts, TracerTypes DEF State
<1>2. tr' = u /\ s.device = "running" /\ UNCHANGED <<closed, hook, holder>>
  BY DEF Complete
<1>3. s \in Slots
  BY <1>1
<1>4. /\ done.live = s.live /\ done.inj = s.inj /\ done.attr = s.attr /\ done.waits = s.waits
      /\ done.preds = s.preds /\ done.device = "done"
  BY <1>3 DEF Slots
<1>5. u = [tr EXCEPT !.slot = slots]
  OBVIOUS
<1> HIDE DEF done
<1>6. slots[a] = done /\ \A x \in Addrs : x # a => slots[x] = slot[x]
  BY <1>1
<1> HIDE DEF slots, cls, slabs, slot, latest, kts, u
<1>7. u = [cl |-> cls, slab |-> slabs, slot |-> slots, latest |-> latest, kts |-> kts]
  BY <1>1, <1>5, Update
<1>8. u.cl = cls /\ u.slab = slabs /\ u.slot = slots /\ u.latest = latest /\ u.kts = kts
  BY <1>7
<1>9. Completes(tr, u, a)
  <2>1. \A x \in Addrs :
          /\ u.slot[x].live = slot[x].live
          /\ u.slot[x].inj = slot[x].inj
          /\ u.slot[x].attr = slot[x].attr
          /\ u.slot[x].waits = slot[x].waits
          /\ u.slot[x].preds = slot[x].preds
          /\ u.slot[x].device = IF x = a THEN "done" ELSE slot[x].device
    BY <1>4, <1>6, <1>8
  <2> QED
    BY <1>2, <1>8, <2>1 DEF Completes, cls, slabs, slot, latest, kts
<1> QED
  BY <1>2, <1>9

LEMMA DestroyEventFrame ==
  ASSUME State, "sync_first" \in Rules, NEW e \in Events, DestroyEvent(e)
  PROVE  Completes(tr, tr', None) /\ UNCHANGED <<closed, hook, holder>>
<1> DEFINE latest == tr.latest
           kts == tr.kts
           cls == tr.cl
           slabs == tr.slab
           slots == tr.slot
           left == kts \ {e}
           u == [tr EXCEPT !.latest[e] = None, !.kts = @ \ {e}]
           w == [tr EXCEPT !.latest = latest]
<1>1. /\ tr = [cl |-> cls, slab |-> slabs, slot |-> slots, latest |-> latest, kts |-> kts]
      /\ latest \in [Events -> Addrs \union {None}]
  BY SoundFacts, TracerTypes DEF State
<1>2. tr' = u /\ latest[e] = None /\ UNCHANGED <<closed, hook, holder>>
  BY DEF DestroyEvent, Evicted
<1>3. u = [[tr EXCEPT !.latest = [latest EXCEPT ![e] = None]] EXCEPT !.kts = left]
  OBVIOUS
<1>4. [latest EXCEPT ![e] = None] = latest
  BY <1>1, <1>2
<1>5. u = [w EXCEPT !.kts = left]
  BY <1>3, <1>4
<1>6. left \subseteq kts
  OBVIOUS
<1> HIDE DEF latest, kts, cls, slabs, slots, left, u
<1>7. w = [cl |-> cls, slab |-> slabs, slot |-> slots, latest |-> latest, kts |-> kts]
  BY <1>1, Update
<1> HIDE DEF w
<1>8. u = [cl |-> cls, slab |-> slabs, slot |-> slots, latest |-> latest, kts |-> left]
  BY <1>5, <1>7, Update
<1>9. u.cl = cls /\ u.slab = slabs /\ u.slot = slots /\ u.latest = latest /\ u.kts = left
  BY <1>8
<1>10. Completes(tr, u, None)
  BY <1>6, <1>9, NoneAssumption DEF Completes, cls, slabs, slots, latest, kts
<1> QED
  BY <1>2, <1>10

\* The steps that leave the tracer's state alone.
LEMMA IdleSteps ==
  ASSUME \/ \E e \in Events : HostSignal(e) \/ HostReset(e)
         \/ \E k \in {"event", "cl", "queue", "fence"},
               h \in Events \union Cls \union Queues \union Fences : SyncReturns(k, h)
         \/ UNCHANGED vars
  PROVE  UNCHANGED <<tr, closed>>
BY DEF HostSignal, HostReset, SyncReturns, vars

-----------------------------------------------------------------------------
(* Timings go to the events they belong to. *)

Ordered == State /\ Base(tr, closed) /\ Signals(tr)

LEMMA OrderedInit == Init => Ordered
<1> SUFFICES ASSUME Init PROVE Base(tr, closed) /\ Signals(tr)
  BY InitState DEF Ordered
<1>1. /\ tr.cl = [c \in Cls |-> None] /\ tr.slab = [b \in Slabs |-> NoSlab]
      /\ tr.slot = [a \in Addrs |-> NoSlot]
  BY DEF Init
<1>2. /\ Live(tr) = {} /\ \A c \in Cls : SlotsOf(tr, c) = {}
      /\ \A b \in Slabs : tr.slab[b].owner \notin Regular
      /\ \A a \in Addrs : tr.slot[a].device = "recorded"
  <2>1. \A a \in Addrs : a[1] \in Slabs
    BY AddrFacts
  <2> QED
    BY <1>1, <2>1, ZeAssumption DEF Live, SlotsOf, Owner, NoSlot, NoSlab, Cls
<1>3. OneSlab(tr) /\ Unrun(tr, closed) /\ OnDevice(tr, closed)
  BY <1>2 DEF OneSlab, Unrun, OnDevice, Cls
<1>4. Flight(tr, closed)
  BY <1>1 DEF Flight
<1>5. Signals(tr)
  BY <1>2 DEF Signals, Cls
<1> QED
  BY <1>3, <1>4, <1>5 DEF Base

\* One step, with State' from the steps above.
LEMMA OrderedStep ==
  ASSUME "sync_first" \in Rules, "one_signal" \in Rules, Ordered, [Next]_vars
  PROVE  Base(tr', closed') /\ Signals(tr') /\ Fresh(tr, tr')
<1> DEFINE Good == Base(tr', closed') /\ Signals(tr') /\ Fresh(tr, tr')
<1>1. tr \in Tracers /\ State /\ Base(tr, closed) /\ Signals(tr)
  BY SoundFacts DEF Ordered, State
<1>2. ASSUME UNCHANGED <<tr, closed>>
      PROVE  Good
  BY <1>1, <1>2 DEF Fresh
<1>3. Stays => UNCHANGED <<tr, closed>>
  BY DEF Stays
<1>4. ASSUME NEW a, Completes(tr, tr', a), UNCHANGED closed
      PROVE  Good
  BY <1>1, <1>4, CompletesBase, CompletesKept
<1>5. ASSUME Takes
      PROVE  Good
  BY <1>1, <1>5, LesserSignals DEF Takes
<1>6. ASSUME NEW c \in Cls, CreateCommandList(c) \/ DestroyCommandList(c)
      PROVE  Good
  BY <1>1, <1>5, <1>6, TakeListSteps
<1>7. ASSUME NEW c \in Cls, NEW e \in Events \union {None}, NEW w \in WaitLists,
             AppendCommand(c, e, w)
      PROVE  Good
  BY <1>1, <1>7, AppendSteps
<1>8. ASSUME NEW c \in Regular, ResetCommandList(c)
      PROVE  Good
  BY <1>1, <1>2, <1>3, <1>5, <1>8, TakeReset
<1>9. ASSUME NEW c \in Regular, NEW q \in Queues, NEW f \in Fences \union {None},
             Execute(c, q, f)
      PROVE  Good
  BY <1>1, <1>2, <1>3, <1>9, ExecuteSteps
<1>10. CASE DestroyContext
  BY <1>1, <1>5, <1>10, TakeContext
<1>11. ASSUME NEW e \in Events, DestroyEvent(e)
       PROVE  Good
  BY <1>1, <1>4, <1>11, DestroyEventFrame
<1>12. CASE OnSync
  BY <1>1, <1>2, <1>3, <1>5, <1>12, TakeSync
<1>13. ASSUME NEW a \in Addrs, Complete(a)
       PROVE  Good
  BY <1>1, <1>4, <1>13, CompleteFrame
<1> HIDE DEF Good
<1>14. ASSUME \/ \E e \in Events : HostSignal(e) \/ HostReset(e)
              \/ \E k \in {"event", "cl", "queue", "fence"},
                    h \in Events \union Cls \union Queues \union Fences : SyncReturns(k, h)
              \/ UNCHANGED vars
       PROVE  Good
  BY <1>2, <1>14, IdleSteps
<1>15. Good => Base(tr', closed') /\ Signals(tr') /\ Fresh(tr, tr')
  BY DEF Good
<1> QED
  BY <1>6, <1>7, <1>8, <1>9, <1>10, <1>11, <1>12, <1>13, <1>14, <1>15 DEF Next

\* What has a stashed timing, or may get one, was to be signaled.
Stamped(t, U) ==
  /\ t.kts \subseteq U
  /\ \A a \in Live(t) : t.slot[a].attr \in Timed => t.slot[a].attr \in U
  /\ \A c \in Regular : \A a \in SlotsOf(t, c) :
       t.slot[a].attr \in Timed => t.slot[a].attr \in U

\* The timings that are new in u are of commands of t.
LEMMA FreshStamped ==
  ASSUME NEW t, Sound(t, {}), NEW u, u \in Tracers, Fresh(t, u), NEW U, Stamped(t, U)
  PROVE  u.kts \subseteq U
<1> SUFFICES ASSUME NEW e \in u.kts \ t.kts PROVE e \in U
  BY DEF Stamped
<1>1. e \in Timed /\ e \in Events
  BY TracerTypes, ZeAssumption
<1>2. t.latest[e] \in Live(t) /\ t.slot[t.latest[e]].attr = e
  BY <1>1, SoundFacts DEF Fresh, LatestLive
<1> QED
  BY <1>1, <1>2 DEF Stamped

LEMMA LesserStamped ==
  ASSUME NEW t, Sound(t, {}), NEW u, u \in Tracers, Lesser(t, u), Fresh(t, u),
         NEW U, Stamped(t, U)
  PROVE  Stamped(u, U)
<1>1. u.kts \subseteq U
  BY FreshStamped
<1>2. \A a \in Live(u) : a \in Live(t) /\ u.slot[a].attr = t.slot[a].attr
  BY DEF Lesser, SameCommand
<1>3. \A c \in Regular : \A a \in SlotsOf(u, c) :
        a \in SlotsOf(t, c) /\ u.slot[a].attr = t.slot[a].attr
  BY DEF Lesser
<1> QED
  BY <1>1, <1>2, <1>3 DEF Stamped

LEMMA AppendStamped ==
  ASSUME Ordered, Stamped(tr, used), NEW c \in Cls, NEW attr \in Events \union {None},
         NEW waits \in WaitLists, AppendCommand(c, attr, waits)
  PROVE  Stamped(tr', used')
<1>1. State /\ Base(tr, closed) /\ Sound(tr, {})
  BY DEF Ordered, State
<1>2. PICK r, a :
           /\ Sound(r, {}) /\ Lesser(tr, r) /\ Base(r, closed)
           /\ r.cl[c] # None /\ r.kts = tr.kts /\ r.latest = tr.latest
           /\ Sound(tr', {}) /\ Grown(r, tr', c, a)
           /\ tr'.slot[a].attr = attr /\ tr'.slot[a].waits = waits
           /\ tr'.slot[a].device = IF c \in Immediate THEN "running" ELSE "recorded"
           /\ \A s \in Live(r) : a \notin PredsOf(r, s)
  BY <1>1, AppendFrom
<1>3. used' = used \union ({attr} \intersect Timed)
  BY DEF AppendCommand
<1>4. Stamped(r, used)
  BY <1>1, <1>2, SoundFacts, LesserStamped DEF Fresh
<1>5. /\ Live(tr') = Live(r) \union {a}
      /\ \A x \in Addrs : x # a => tr'.slot[x].attr = r.slot[x].attr
      /\ \A d : SlotsOf(tr', d) \subseteq SlotsOf(r, d) \union {a}
      /\ tr'.kts = r.kts
  BY <1>2 DEF Grown, SameCommand
<1>6. Live(r) \subseteq Addrs /\ \A d : SlotsOf(r, d) \subseteq Addrs
  BY DEF Live, SlotsOf
<1> DEFINE u == tr'
           V == used'
<1>7. \A x \in Live(u) : u.slot[x].attr \in Timed => u.slot[x].attr \in V
  BY <1>2, <1>3, <1>4, <1>5, <1>6 DEF Stamped
<1>8. \A d \in Regular : \A x \in SlotsOf(u, d) : u.slot[x].attr \in Timed => u.slot[x].attr \in V
  BY <1>2, <1>3, <1>4, <1>5, <1>6 DEF Stamped
<1>9. u.kts \subseteq V
  BY <1>3, <1>4, <1>5 DEF Stamped
<1> QED
  BY <1>7, <1>8, <1>9 DEF Stamped

LEMMA ExecuteStamped ==
  ASSUME Ordered, Stamped(tr, used), NEW c \in Regular, NEW q \in Queues,
         NEW f \in Fences \union {None}, Execute(c, q, f)
  PROVE  Stamped(tr', used')
<1>1. State /\ Base(tr, closed) /\ Sound(tr, {}) /\ Signals(tr) /\ used' = used
  BY DEF Ordered, State, Execute
<1>2. CASE Stays
  BY <1>1, <1>2 DEF Stays
<1>3. ASSUME NEW t, Idle(t, c), tr' = Executed(t, c, q, f)
      PROVE  Stamped(tr', used')
  <2>1. /\ Sound(t, {}) /\ Lesser(tr, t) /\ t.cl[c] # None /\ OneSlab(t) /\ Fresh(tr, t)
    BY <1>1, <1>3 DEF Idle, Base
  <2>2. Stamped(t, used)
    BY <1>1, <2>1, SoundFacts, LesserStamped
  <2> DEFINE u == Executed(t, c, q, f)
  <2>3. Executes(t, u, c, q, f)
    BY <2>1, ExecuteReplays
  <2>4. tr' = u
    BY <1>3
  <2> HIDE DEF u
  <2>5. /\ u.kts = t.kts
        /\ \A a \in Addrs : u.slot[a].attr = t.slot[a].attr
        /\ \A a \in Live(u) : a \in Live(t) \/ a \in SlotsOf(t, c)
        /\ \A d : SlotsOf(u, d) = SlotsOf(t, d)
        /\ Live(u) \subseteq Addrs
    BY <2>3 DEF Executes, SlotsOf, Owner, Live
  <2>6. Stamped(u, used)
    BY <2>2, <2>5 DEF Stamped, SlotsOf
  <2> QED
    BY <1>1, <2>4, <2>6
<1> QED
  BY <1>1, <1>2, <1>3, ExecuteFrom

LEMMA CompletesAttrs ==
  ASSUME NEW t, NEW u, NEW a, Completes(t, u, a)
  PROVE  /\ Live(u) = Live(t) /\ u.kts \subseteq t.kts
         /\ \A d : SlotsOf(u, d) = SlotsOf(t, d)
         /\ \A x \in Live(t) : u.slot[x].attr = t.slot[x].attr
         /\ \A d : \A x \in SlotsOf(t, d) : u.slot[x].attr = t.slot[x].attr
<1>1. /\ u.kts \subseteq t.kts
      /\ \A x \in Addrs : u.slot[x].attr = t.slot[x].attr
  BY DEF Completes
<1>2. /\ Live(u) = Live(t) /\ Live(t) \subseteq Addrs
      /\ \A d : SlotsOf(u, d) = SlotsOf(t, d)
  BY CompletesFacts
<1>3. \A d : \A x \in SlotsOf(t, d) : x \in Addrs
  BY DEF SlotsOf
<1> QED
  BY <1>1, <1>2, <1>3

LEMMA DestroyEventStamped ==
  ASSUME Ordered, Stamped(tr, used), "sync_first" \in Rules, NEW e \in Events, DestroyEvent(e)
  PROVE  Stamped(tr', used')
<1>1. State /\ Signals(tr) /\ Sound(tr, {}) /\ None \notin Events
  BY ZeAssumption DEF Ordered, State
<1>2. Completes(tr, tr', None)
  BY <1>1, DestroyEventFrame
<1>3. /\ tr.latest[e] = None /\ tr' = Evicted(tr, e) /\ used' = used \ {e}
      /\ \A a \in Addrs : tr.slot[a].attr = e => Owner(tr, a) \notin Regular
  BY DEF DestroyEvent, Mentions
<1>4. tr'.kts \subseteq tr.kts \ {e}
  <2> DEFINE kts == tr.kts
             cls == tr.cl
             slabs == tr.slab
             slots == tr.slot
             latest == [tr.latest EXCEPT ![e] = None]
             left == kts \ {e}
             w == [tr EXCEPT !.latest[e] = None]
             u == [w EXCEPT !.kts = left]
  <2>1. tr = [cl |-> cls, slab |-> slabs, slot |-> slots, latest |-> tr.latest, kts |-> kts]
    BY <1>1, SoundFacts, TracerTypes
  <2>2. w = [cl |-> cls, slab |-> slabs, slot |-> slots, latest |-> latest, kts |-> kts]
    BY <2>1, Update
  <2>3. tr' = [[tr EXCEPT !.latest = latest] EXCEPT !.kts = left]
    BY <1>3 DEF Evicted
  <2>4. w = [tr EXCEPT !.latest = latest]
    OBVIOUS
  <2>5. tr' = u
    BY <2>3, <2>4
  <2> HIDE DEF w, kts, cls, slabs, slots, latest, left
  <2>6. u = [cl |-> cls, slab |-> slabs, slot |-> slots, latest |-> latest, kts |-> left]
    BY <2>2, Update
  <2>7. tr'.kts = left
    BY <2>5, <2>6
  <2> QED
    BY <2>7 DEF left, kts
<1>5. \A a \in Live(tr) : tr.slot[a].attr # e
  <2>1. \A a \in Live(tr) : a # None
    BY NoneAssumption DEF Live
  <2> QED
    BY <1>1, <1>3, <2>1 DEF Signals
<1>6. \A c \in Regular : \A a \in SlotsOf(tr, c) : tr.slot[a].attr # e
  BY <1>3 DEF SlotsOf
<1> DEFINE u == tr'
           V == used'
           a0 == None
<1>a. Completes(tr, u, a0)
  BY <1>2
<1> HIDE DEF u, a0
<1>7. /\ Live(u) = Live(tr)
      /\ \A d : SlotsOf(u, d) = SlotsOf(tr, d)
      /\ \A x \in Live(tr) : u.slot[x].attr = tr.slot[x].attr
      /\ \A d : \A x \in SlotsOf(tr, d) : u.slot[x].attr = tr.slot[x].attr
  BY <1>a, CompletesAttrs
<1>8. \A a \in Live(u) : u.slot[a].attr \in Timed => u.slot[a].attr \in V
  BY <1>3, <1>5, <1>7 DEF Stamped
<1>9. \A c \in Regular : \A a \in SlotsOf(u, c) : u.slot[a].attr \in Timed => u.slot[a].attr \in V
  BY <1>3, <1>6, <1>7 DEF Stamped
<1>10. u.kts \subseteq V
  BY <1>3, <1>4 DEF Stamped, u
<1>11. Stamped(u, V)
  BY <1>8, <1>9, <1>10 DEF Stamped
<1> QED
  BY <1>11 DEF u

LEMMA StampedStep ==
  ASSUME "sync_first" \in Rules, "one_signal" \in Rules, Ordered, Stamped(tr, used), [Next]_vars
  PROVE  Stamped(tr', used')
<1> DEFINE Good == Stamped(tr', used')
<1>1. State /\ State' /\ Base(tr, closed) /\ Signals(tr) /\ Sound(tr, {}) /\ tr' \in Tracers
  BY StateStep, SoundFacts DEF Ordered, State
<1>2. ASSUME UNCHANGED <<tr, used>>
      PROVE  Good
  BY <1>2
<1>3. ASSUME Takes, UNCHANGED used
      PROVE  Good
  <2>1. Lesser(tr, tr') /\ Fresh(tr, tr')
    BY <1>1, <1>3 DEF Takes
  <2> QED
    BY <1>1, <1>3, <2>1, LesserStamped
<1>4. Stays => UNCHANGED tr
  BY DEF Stays
<1>5. ASSUME NEW c \in Cls, CreateCommandList(c) \/ DestroyCommandList(c)
      PROVE  Good
  BY <1>1, <1>3, <1>5, TakeListSteps DEF CreateCommandList, DestroyCommandList
<1>6. ASSUME NEW c \in Cls, NEW e \in Events \union {None}, NEW w \in WaitLists,
             AppendCommand(c, e, w)
      PROVE  Good
  BY <1>6, AppendStamped
<1>7. ASSUME NEW c \in Regular, ResetCommandList(c)
      PROVE  Good
  <2>1. UNCHANGED used
    BY <1>7 DEF ResetCommandList
  <2> QED
    BY <1>1, <1>2, <1>3, <1>4, <1>7, <2>1, TakeReset
<1>8. ASSUME NEW c \in Regular, NEW q \in Queues, NEW f \in Fences \union {None},
             Execute(c, q, f)
      PROVE  Good
  BY <1>8, ExecuteStamped
<1>9. CASE DestroyContext
  BY <1>1, <1>3, <1>9, TakeContext DEF DestroyContext
<1>10. ASSUME NEW e \in Events, DestroyEvent(e)
       PROVE  Good
  BY <1>10, DestroyEventStamped
<1>11. CASE OnSync
  <2>1. UNCHANGED used
    BY <1>11 DEF OnSync
  <2> QED
    BY <1>1, <1>2, <1>3, <1>4, <1>11, <2>1, TakeSync
<1>12. ASSUME NEW a \in Addrs, Complete(a)
       PROVE  Good
  <2> DEFINE u == tr'
  <2>1. UNCHANGED used /\ Completes(tr, u, a)
    BY <1>1, <1>12, CompleteFrame DEF Complete
  <2> HIDE DEF u
  <2>2. /\ Live(u) = Live(tr) /\ u.kts \subseteq tr.kts
        /\ \A d : SlotsOf(u, d) = SlotsOf(tr, d)
        /\ \A x \in Live(tr) : u.slot[x].attr = tr.slot[x].attr
        /\ \A d : \A x \in SlotsOf(tr, d) : u.slot[x].attr = tr.slot[x].attr
    BY <2>1, CompletesAttrs
  <2>3. Stamped(u, used)
    BY <2>2 DEF Stamped
  <2> QED
    BY <2>1, <2>3 DEF u
<1>13. ASSUME \/ \E e \in Events : HostSignal(e) \/ HostReset(e)
              \/ \E k \in {"event", "cl", "queue", "fence"},
                    h \in Events \union Cls \union Queues \union Fences : SyncReturns(k, h)
              \/ UNCHANGED vars
       PROVE  Good
  BY <1>2, <1>13 DEF HostSignal, HostReset, SyncReturns, vars
<1> HIDE DEF Good
<1>14. Good => Stamped(tr', used')
  BY DEF Good
<1> QED
  BY <1>5, <1>6, <1>7, <1>8, <1>9, <1>10, <1>11, <1>12, <1>13, <1>14 DEF Next

\* A timing that a drain stashes is evicted with its event (_event_state_del),
\* so that the program is never served one for another event at that address.
\* It takes a program that drains an event's commands before it destroys it.
THEOREM StashedTimesAreFresh ==
  ASSUME "sync_first" \in Rules, "one_signal" \in Rules
  PROVE  Spec => []TimestampsFresh
<1>1. Init => Stamped(tr, used)
  <2>1. Init => Live(tr) = {} /\ tr.kts = {}
    BY DEF Init, Live, NoSlot
  <2>2. Init => \A c \in Regular : SlotsOf(tr, c) = {}
    <3>1. \A a \in Addrs : a[1] \in Slabs
      BY AddrFacts
    <3> QED
      BY <3>1, ZeAssumption DEF Init, SlotsOf, Owner, NoSlab, Cls
  <2> QED
    BY <2>1, <2>2 DEF Stamped
<1>2. Ordered /\ Stamped(tr, used) /\ [Next]_vars => Ordered' /\ Stamped(tr', used')
  BY StateStep, OrderedStep, StampedStep DEF Ordered
<1> DEFINE IInv == Ordered /\ Stamped(tr, used)
<1>3. Init => IInv
  BY <1>1, OrderedInit
<1>4. IInv /\ [Next]_vars => IInv'
  BY <1>2
<1>5. IInv => TimestampsFresh
  BY DEF Stamped, TimestampsFresh
<1> QED
  BY <1>3, <1>4, <1>5, PTL DEF Spec

-----------------------------------------------------------------------------
(* The edges form a DAG. *)

\* An executed list has no dependents, so that what is replayed has none.
LEMMA IdleNoBack ==
  ASSUME State, Base(tr, closed), "consume" \in Rules, NEW c \in Regular, NEW q, NEW f,
         Execute(c, q, f), NEW t, Idle(t, c)
  PROVE  NoBack(t, c)
<1>1. Sound(t, {}) /\ Lesser(tr, t) /\ Base(t, closed)
  BY DEF Idle
<1> SUFFICES ASSUME NEW a \in SlotsOf(t, c), a \notin Live(t), NEW s \in Live(t),
                    a \in PredsOf(t, s)
             PROVE  FALSE
  BY DEF NoBack
<1>2. CASE c \in closed
  <2>1. s \in Live(tr) /\ SameCommand(tr, t, s) /\ a \in SlotsOf(tr, c)
    BY <1>1 DEF Lesser
  <2>2. Owner(t, s) # c
    BY <1>2 DEF Idle, LiveOf
  <2>3. s \notin SlotsOf(tr, c) /\ a \in PredsOf(tr, s)
    BY <2>1, <2>2 DEF SameCommand, SlotsOf, PredsOf
  <2>4. Replayable(c)
    BY <1>2 DEF Execute, MayExecute
  <2> QED
    BY <2>1, <2>3, <2>4 DEF Replayable
<1>3. CASE c \notin closed
  BY <1>1, <1>3 DEF Base, Unrun, Live, SlotsOf
<1> QED
  BY <1>2, <1>3

LEMMA AppendAcyclic ==
  ASSUME State, Base(tr, closed), Acyclic(tr), NEW c \in Cls, NEW attr \in Events \union {None},
         NEW waits \in WaitLists, AppendCommand(c, attr, waits)
  PROVE  Acyclic(tr')
<1>1. PICK r, a :
           /\ Sound(r, {}) /\ Lesser(tr, r) /\ Base(r, closed)
           /\ r.cl[c] # None /\ r.kts = tr.kts /\ r.latest = tr.latest
           /\ Sound(tr', {}) /\ Grown(r, tr', c, a)
           /\ tr'.slot[a].attr = attr /\ tr'.slot[a].waits = waits
           /\ tr'.slot[a].device = IF c \in Immediate THEN "running" ELSE "recorded"
           /\ \A s \in Live(r) : a \notin PredsOf(r, s)
  BY AppendFrom
<1>2. Acyclic(r)
  BY <1>1, LesserAcyclic
<1> QED
  BY <1>1, <1>2, GrownAcyclic

LEMMA ExecuteAcyclic ==
  ASSUME State, Base(tr, closed), Acyclic(tr), "consume" \in Rules, NEW c \in Regular,
         NEW q \in Queues, NEW f \in Fences \union {None}, Execute(c, q, f)
  PROVE  Acyclic(tr')
<1>1. CASE Stays
  BY <1>1 DEF Stays
<1>2. ASSUME NEW t, Idle(t, c), tr' = Executed(t, c, q, f)
      PROVE  Acyclic(tr')
  <2>1. Sound(t, {}) /\ Lesser(tr, t) /\ t.cl[c] # None /\ OneSlab(t)
    BY <1>2 DEF Idle, Base
  <2>2. NoBack(t, c)
    BY <1>2, IdleNoBack
  <2>3. Acyclic(t)
    BY <2>1, LesserAcyclic
  <2>4. NoBack(t, c) => (Acyclic(t) => Acyclic(Executed(t, c, q, f)))
    BY <2>1, ExecuteReplays
  <2> QED
    BY <1>2, <2>2, <2>3, <2>4
<1> QED
  BY <1>1, <1>2, ExecuteFrom

Layered == State /\ Acyclic(tr) /\ Base(tr, closed)

LEMMA LayeredStep ==
  ASSUME "sync_first" \in Rules, "consume" \in Rules, Layered, [Next]_vars
  PROVE  Acyclic(tr') /\ Base(tr', closed')
<1> DEFINE Good == Acyclic(tr') /\ Base(tr', closed')
<1>1. State /\ Acyclic(tr) /\ Base(tr, closed)
  BY DEF Layered
<1>2. ASSUME UNCHANGED <<tr, closed>>
      PROVE  Good
  BY <1>1, <1>2
<1>3. Stays => UNCHANGED <<tr, closed>>
  BY DEF Stays
<1>4. ASSUME NEW a, Completes(tr, tr', a), UNCHANGED closed
      PROVE  Good
  BY <1>1, <1>4, CompletesBase, CompletesKept
<1>5. ASSUME Takes
      PROVE  Good
  BY <1>1, <1>5, LesserAcyclic DEF Takes
<1>6. ASSUME NEW c \in Cls, CreateCommandList(c) \/ DestroyCommandList(c)
      PROVE  Good
  BY <1>1, <1>5, <1>6, TakeListSteps
<1>7. ASSUME NEW c \in Cls, NEW e \in Events \union {None}, NEW w \in WaitLists,
             AppendCommand(c, e, w)
      PROVE  Good
  BY <1>1, <1>7, AppendSteps, AppendAcyclic
<1>8. ASSUME NEW c \in Regular, ResetCommandList(c)
      PROVE  Good
  BY <1>1, <1>2, <1>3, <1>5, <1>8, TakeReset
<1>9. ASSUME NEW c \in Regular, NEW q \in Queues, NEW f \in Fences \union {None},
             Execute(c, q, f)
      PROVE  Good
  BY <1>1, <1>2, <1>3, <1>9, ExecuteSteps, ExecuteAcyclic
<1>10. CASE DestroyContext
  BY <1>1, <1>5, <1>10, TakeContext
<1>11. ASSUME NEW e \in Events, DestroyEvent(e)
       PROVE  Good
  BY <1>1, <1>4, <1>11, DestroyEventFrame
<1>12. CASE OnSync
  BY <1>1, <1>2, <1>3, <1>5, <1>12, TakeSync
<1>13. ASSUME NEW a \in Addrs, Complete(a)
       PROVE  Good
  BY <1>1, <1>4, <1>13, CompleteFrame
<1> HIDE DEF Good
<1>14. ASSUME \/ \E e \in Events : HostSignal(e) \/ HostReset(e)
              \/ \E k \in {"event", "cl", "queue", "fence"},
                    h \in Events \union Cls \union Queues \union Fences : SyncReturns(k, h)
              \/ UNCHANGED vars
       PROVE  Good
  BY <1>2, <1>14, IdleSteps
<1>15. Good => Acyclic(tr') /\ Base(tr', closed')
  BY DEF Good
<1> QED
  BY <1>6, <1>7, <1>8, <1>9, <1>10, <1>11, <1>12, <1>13, <1>14, <1>15 DEF Next

LEMMA PredsAcyclicInv == Acyclic(tr) => PredsAcyclic
<1> SUFFICES ASSUME Acyclic(tr), NEW a \in Live(tr), a \in Reached(tr, LivePreds(tr, {a}))
             PROVE  FALSE
  BY DEF PredsAcyclic
<1>1. PICK X : Below(tr, a, X)
  BY DEF Acyclic
<1>2. /\ X \in SUBSET Live(tr)
      /\ LivePreds(tr, {a}) \intersect Live(tr) \subseteq X /\ LivePreds(tr, X) \subseteq X
  BY <1>1 DEF Below
<1>3. a \in X
  BY <1>2 DEF Reached
<1> QED
  BY <1>1, <1>3 DEF Below

\* "The edges form a DAG": no slot waits for itself, over any number of lists
\* and re-executions, so that _slot_drain, which has no cycle guard, returns.
\* It takes a program that does not execute a list again while another list
\* still depends on what it did before.
THEOREM EdgesFormDag ==
  ASSUME "sync_first" \in Rules, "consume" \in Rules
  PROVE  Spec => []PredsAcyclic
<1>1. Init => Layered
  <2>1. Init => Live(tr) = {}
    BY DEF Init, Live, NoSlot
  <2> QED
    BY <2>1, OrderedInit DEF Ordered, Layered, Acyclic, Init
<1>2. Layered /\ [Next]_vars => Layered'
  BY StateStep, LayeredStep DEF Layered
<1>3. Layered => PredsAcyclic
  BY PredsAcyclicInv DEF Layered
<1> QED
  BY <1>1, <1>2, <1>3, PTL DEF Spec

-----------------------------------------------------------------------------
(* No drain waits for a command that is not submitted. *)

\* A drain from commands that have ended reaches no other.
LEMMA NotHung ==
  ASSUME NEW t, NEW F, Ended(t, F), NEW S,
         \A a \in S \intersect Live(t) : t.slot[a].device = "done"
  PROVE  Returns(t, Reached(t, S))
<1> DEFINE X == {a \in Live(t) : t.slot[a].device = "done"}
<1>1. X \in SUBSET Live(t) /\ S \intersect Live(t) \subseteq X
  OBVIOUS
<1>2. LivePreds(t, X) \subseteq X
  <2> SUFFICES ASSUME NEW p \in LivePreds(t, X) PROVE p \in X
    OBVIOUS
  <2>1. PICK a \in X : p \in PredsOf(t, a) /\ p \in Live(t)
    BY DEF LivePreds
  <2> QED
    BY <2>1 DEF Ended
<1>3. \A a \in Reached(t, S) : a \in X
  BY <1>1, <1>2 DEF Reached
<1> QED
  BY <1>3 DEF Returns

LEMMA HasEnded ==
  ASSUME NEW t, Sound(t, {}), NEW K, Base(t, K), NEW a \in Live(t),
         Owner(t, a) \in K \union Immediate, t.slot[a].device # "running"
  PROVE  t.slot[a].device = "done"
<1>1. a \in Addrs /\ t.slot[a].device # "recorded"
  BY DEF Base, OnDevice, Live
<1> QED
  BY <1>1, SoundFacts, SlotTypes

LEMMA ResetReturns ==
  ASSUME State, Base(tr, closed), Ended(tr, fired), "run_first" \in Rules,
         NEW c \in Regular, ResetCommandList(c)
  PROVE  Takes /\ UNCHANGED hook /\ holder' = None
<1> DEFINE h == <<"reset", c>>
           D == Reached(tr, SlotsOf(tr, c))
           u == Reclaim(DrainCls(tr, {c}), c)
<1>1. /\ \A a \in SlotsOf(tr, c) : tr.slot[a].device # "running"
      /\ c \in closed
      /\ \/ Waits(h, D)
         \/ Proceeds(h, D) /\ tr' = u /\ closed' = closed \ {c} /\ UNCHANGED hook
      /\ UNCHANGED fired
      /\ Sound(tr, {}) /\ tr.cl[c] # None /\ c \in Cls
  BY DEF ResetCommandList, State, Registered, Cls
<1>2. \A a \in SlotsOf(tr, c) \intersect Live(tr) : tr.slot[a].device = "done"
  BY <1>1, HasEnded DEF SlotsOf
<1>3. Returns(tr, D)
  BY <1>2, NotHung
<1> HIDE DEF h
<1>4. Proceeds(h, D) /\ tr' = u /\ closed' = closed \ {c} /\ UNCHANGED hook
  BY <1>1, <1>3 DEF Waits
<1>5. /\ Lesser(tr, u) /\ SlotsOf(u, c) = {} /\ (u.cl[c] # None => Grounded(u, c))
      /\ Signals(tr) => Fresh(tr, u)
  BY <1>1, <1>3, ResetLesser
<1> HIDE DEF u, D
<1>6. Base(u, closed \ {c})
  BY <1>5, LesserBase
<1> QED
  BY <1>1, <1>4, <1>5, <1>6 DEF Takes, Proceeds

\* What a synchronisation can be on.
Pending(h) == h \in {None} \union ({"event"} \X Events) \union ({"cl"} \X Immediate)
                     \union ({"queue"} \X Queues) \union ({"fence"} \X Fences)

LEMMA PendingFacts ==
  ASSUME NEW h, Pending(h), h # None
  PROVE  /\ h[1] = "event" => h = <<"event", h[2]>> /\ h[2] \in Events
         /\ h[1] = "cl" => h = <<"cl", h[2]>> /\ h[2] \in Immediate
         /\ h[1] = "queue" => h = <<"queue", h[2]>> /\ h[2] \in Queues
         /\ h[1] = "fence" => h = <<"fence", h[2]>> /\ h[2] \in Fences
BY DEF Pending

LEMMA SyncDone ==
  ASSUME State, Base(tr, closed), Ended(tr, fired), Over(tr, hook), Pending(hook), OnSync
  PROVE  Takes /\ hook' = None /\ holder' \in {holder, None}
<1> DEFINE Done == hook' = None /\ holder' \in {holder, None}
<1> SUFFICES Done
  BY TakeSync DEF Stays, OnSync
<1>1. /\ Sound(tr, {}) /\ hook # None
      /\ \/ hook[1] = "event" /\ OnSyncEvent(hook[2])
         \/ hook[1] = "cl" /\ OnSyncCls({hook[2]} \intersect Registered)
         \/ hook[1] = "queue" /\ OnSyncCls(InFlightOn(hook[2]))
         \/ hook[1] = "fence" /\ OnSyncCls(InFlightUnder(hook[2]))
  BY DEF State, OnSync
<1>2. ASSUME NEW L, OnSyncCls(L), L \subseteq Registered,
             \A c \in L : c \in closed \union Immediate /\ Awaited(tr, hook, c)
      PROVE  Done
  <2> DEFINE S == UNION {SlotsOf(tr, c) : c \in L}
  <2>1. ASSUME NEW a \in S \intersect Live(tr)
        PROVE  tr.slot[a].device = "done"
    <3>1. Owner(tr, a) \in L
      BY <2>1 DEF SlotsOf
    <3>2. tr.slot[a].device # "running"
      BY <1>1, <1>2, <2>1, <3>1 DEF Over
    <3> QED
      BY <1>1, <1>2, <2>1, <3>1, <3>2, HasEnded
  <2> DEFINE D == Reached(tr, S)
  <2>2. Waits(<<"sync">>, D) \/ (Proceeds(<<"sync">>, D) /\ hook' = None)
    BY <1>2 DEF OnSyncCls
  <2> HIDE DEF S
  <2>3. Returns(tr, D)
    BY <2>1, NotHung
  <2> QED
    BY <2>2, <2>3 DEF Waits, Proceeds
<1>3. \A c \in Registered : c \in Cls /\ (c \notin closed =>
          tr.cl[c].in_flight_q = None /\ tr.cl[c].in_flight_fence = None)
  BY DEF Base, Flight, Registered
<1>4. None \notin Queues /\ None \notin Fences
  BY ZeAssumption
<1>5. CASE hook[1] = "event" /\ OnSyncEvent(hook[2])
  <2> DEFINE e == hook[2]
             s == tr.latest[e]
             D == Reached(tr, {s})
             c == Owner(tr, s)
  <2>1. CASE s # None /\ c \in Cls
    <3>1. e \in Events
      BY <1>1, <1>5, PendingFacts
    <3>2. s \in Live(tr) /\ tr.slot[s].device = "done"
      BY <1>1, <1>5, <2>1, <3>1, SoundFacts DEF Over, LatestLive
    <3>3. Waits(<<"sync">>, D) \/ (Proceeds(<<"sync">>, D) /\ hook' = None)
      BY <1>5, <2>1 DEF OnSyncEvent
    <3> DEFINE S == {s}
    <3>4. \A a \in S \intersect Live(tr) : tr.slot[a].device = "done"
      BY <3>2
    <3> HIDE DEF S
    <3>5. Returns(tr, Reached(tr, S))
      BY <3>4, NotHung
    <3> QED
      BY <3>3, <3>5 DEF Waits, Proceeds, S
  <2>2. CASE ~(s # None /\ c \in Cls)
    BY <1>5, <2>2 DEF OnSyncEvent
  <2> QED
    BY <2>1, <2>2
<1>6. CASE hook[1] = "cl" /\ OnSyncCls({hook[2]} \intersect Registered)
  <2> DEFINE L == {hook[2]} \intersect Registered
  <2>1. OnSyncCls(L) /\ L \subseteq Registered
    BY <1>6
  <2>2. \A c \in L : c \in closed \union Immediate /\ Awaited(tr, hook, c)
    BY <1>1, <1>6, PendingFacts DEF Awaited
  <2> HIDE DEF L
  <2> QED
    BY <1>2, <2>1, <2>2
<1>7. CASE hook[1] = "queue" /\ OnSyncCls(InFlightOn(hook[2]))
  <2> DEFINE L == InFlightOn(hook[2])
  <2>1. OnSyncCls(L) /\ L \subseteq Registered
    BY <1>7 DEF InFlightOn
  <2>2. \A c \in L : c \in closed \union Immediate /\ Awaited(tr, hook, c)
    <3> TAKE c \in L
    <3>1. c \in Registered /\ tr.cl[c].in_flight_q = hook[2]
      BY DEF InFlightOn
    <3>2. hook = <<"queue", hook[2]>> /\ hook[2] \in Queues
      BY <1>1, <1>7, PendingFacts
    <3>3. c \in closed
      BY <1>3, <1>4, <3>1, <3>2
    <3> QED
      BY <3>1, <3>2, <3>3 DEF Awaited
  <2> HIDE DEF L
  <2> QED
    BY <1>2, <2>1, <2>2
<1>8. CASE hook[1] = "fence" /\ OnSyncCls(InFlightUnder(hook[2]))
  <2> DEFINE L == InFlightUnder(hook[2])
  <2>1. OnSyncCls(L) /\ L \subseteq Registered
    BY <1>8 DEF InFlightUnder
  <2>2. \A c \in L : c \in closed \union Immediate /\ Awaited(tr, hook, c)
    <3> TAKE c \in L
    <3>1. c \in Registered /\ tr.cl[c].in_flight_fence = hook[2]
      BY DEF InFlightUnder
    <3>2. hook = <<"fence", hook[2]>> /\ hook[2] \in Fences
      BY <1>1, <1>8, PendingFacts
    <3>3. c \in closed
      BY <1>3, <1>4, <3>1, <3>2
    <3> QED
      BY <3>1, <3>2, <3>3 DEF Awaited
  <2> HIDE DEF L
  <2> QED
    BY <1>2, <2>1, <2>2
<1> QED
  BY <1>1, <1>5, <1>6, <1>7, <1>8

\* Steps that keep what is behind an ended command, and what an epilogue waits for.
LEMMA AppendKeeps ==
  ASSUME State, Base(tr, closed), Ended(tr, fired), Over(tr, hook), Pending(hook),
         "one_signal" \in Rules, "quiet_sync" \in Rules,
         NEW c \in Cls, NEW attr \in Events \union {None}, NEW waits \in WaitLists,
         AppendCommand(c, attr, waits)
  PROVE  Ended(tr', fired') /\ Over(tr', hook')
<1>1. PICK r, a :
           /\ Sound(r, {}) /\ Lesser(tr, r) /\ Base(r, closed)
           /\ r.cl[c] # None /\ r.kts = tr.kts /\ r.latest = tr.latest
           /\ Sound(tr', {}) /\ Grown(r, tr', c, a)
           /\ tr'.slot[a].attr = attr /\ tr'.slot[a].waits = waits
           /\ tr'.slot[a].device = IF c \in Immediate THEN "running" ELSE "recorded"
           /\ \A s \in Live(r) : a \notin PredsOf(r, s)
  BY AppendFrom
<1>2. /\ attr # None => attr \notin fired /\ hook # <<"event", attr>>
      /\ hook # <<"cl", c>> /\ c \notin closed /\ fired \subseteq Events
      /\ UNCHANGED <<closed, fired, hook, holder>>
  BY DEF AppendCommand, State
<1>3. None \notin Events /\ None \notin Queues /\ None \notin Fences
  BY ZeAssumption
<1> DEFINE u == tr'
           h == hook
           F == fired
<1>4. /\ Sound(u, {}) /\ Grown(r, u, c, a)
      /\ u.slot[a].attr = attr
      /\ u.slot[a].device = IF c \in Immediate THEN "running" ELSE "recorded"
  BY <1>1
<1>5. u.cl[c].in_flight_q = None /\ u.cl[c].in_flight_fence = None
  <2>1. r.cl[c].in_flight_q = None /\ r.cl[c].in_flight_fence = None
    BY <1>1, <1>2 DEF Base, Flight
  <2> QED
    BY <1>4, <2>1 DEF Grown, SameFlight
<1> HIDE DEF u
<1>6. Ended(u, F)
  <2>1. Ended(r, F)
    BY <1>1, LesserEnded
  <2>2. u.slot[a].device # "done" /\ u.slot[a].attr \notin F
    BY <1>2, <1>3, <1>4
  <2> HIDE DEF F
  <2> QED
    BY <1>1, <1>4, <2>1, <2>2, GrownEnded
<1>7. Over(u, h)
  <2> SUFFICES ASSUME h # None PROVE Over(u, h)
    BY DEF Over
  <2>1. Over(r, h)
    BY <1>1, LesserOver
  <2>2. ~Awaited(u, h, c)
    <3>1. h # <<"queue", None>> /\ h # <<"fence", None>>
      BY <1>3 DEF Pending
    <3> QED
      BY <1>2, <1>5, <3>1 DEF Awaited
  <2>3. u.slot[a].attr # None => h # <<"event", u.slot[a].attr>>
    BY <1>2, <1>4
  <2>4. h # None /\ h[1] = "event" => h = <<"event", h[2]>>
    BY PendingFacts
  <2> HIDE DEF h
  <2> QED
    BY <1>1, <1>4, <2>1, <2>2, <2>3, <2>4, GrownOver
<1> QED
  BY <1>2, <1>6, <1>7 DEF u

LEMMA ExecuteEnded ==
  ASSUME NEW t, Sound(t, {}), NEW K, Base(t, K), NEW F, Ended(t, F), NEW c \in Regular,
         NEW q, NEW f, NEW u, Sound(u, {}), Executes(t, u, c, q, f), Edged(u),
         NoBack(t, c), c \in K => LiveOf(t, c) = {},
         \A a \in SlotsOf(t, c) : t.slot[a].attr \notin F
  PROVE  Ended(u, F)
<1>1. /\ Live(u) \subseteq Addrs /\ Live(t) \subseteq Addrs
      /\ \A a \in Addrs :
           /\ u.slot[a].attr = t.slot[a].attr
           /\ u.slot[a].device = IF a \in SlotsOf(t, c) /\ t.slot[a].inj THEN "running"
                                 ELSE t.slot[a].device
      /\ \A a \in Live(t) : a \in Live(u) /\ u.slot[a].preds = t.slot[a].preds
      /\ \A a \in Live(u) : a \in Live(t) \/ (a \in SlotsOf(t, c) /\ t.slot[a].inj)
  BY DEF Executes, Live
<1>2. \A a \in Live(u) : u.slot[a].attr \in F => u.slot[a].device = "done"
  BY <1>1 DEF Ended
<1>3. ASSUME NEW a \in Live(u), u.slot[a].device = "done",
             NEW p \in PredsOf(u, a) \intersect Live(u)
      PROVE  u.slot[p].device = "done"
  <2>1. ~(a \in SlotsOf(t, c) /\ t.slot[a].inj)
    BY <1>1, <1>3
  <2>2. a \in Live(t) /\ t.slot[a].device = "done" /\ p \in PredsOf(t, a)
    BY <1>1, <1>3, <2>1 DEF PredsOf
  <2>3. p \in Live(t)
    BY <1>1, <2>2 DEF NoBack
  <2>4. t.slot[p].device = "done"
    BY <2>2, <2>3 DEF Ended
  <2>5. p \notin SlotsOf(t, c)
    <3>1. c \notin K => \A x \in SlotsOf(t, c) : t.slot[x].device = "recorded"
      BY DEF Base, Unrun
    <3>2. p \in SlotsOf(t, c) => p \in LiveOf(t, c)
      BY <2>3 DEF LiveOf, SlotsOf
    <3> QED
      BY <2>4, <3>1, <3>2
  <2> QED
    BY <1>1, <2>3, <2>4, <2>5
<1> QED
  BY <1>2, <1>3 DEF Ended

LEMMA ExecuteOver ==
  ASSUME NEW t, Sound(t, {}), NEW h, Over(t, h), NEW c \in Regular, NEW q, NEW f, NEW u,
         Sound(u, {}), Executes(t, u, c, q, f),
         h # <<"queue", q>>, h # <<"fence", f>>,
         h # None /\ h[1] = "event" => h = <<"event", h[2]>>,
         \A a \in SlotsOf(t, c) : t.slot[a].attr # None => h # <<"event", t.slot[a].attr>>
  PROVE  Over(u, h)
<1> SUFFICES ASSUME h # None PROVE Over(u, h)
  BY DEF Over
<1>1. /\ Live(u) \subseteq Addrs /\ Live(t) \subseteq Addrs
      /\ u.slab = t.slab
      /\ \A d \in Cls : d # c => u.cl[d] = t.cl[d]
      /\ u.cl[c].in_flight_q = q /\ u.cl[c].in_flight_fence = f
      /\ \A a \in Addrs :
           /\ u.slot[a].attr = t.slot[a].attr
           /\ u.slot[a].device = IF a \in SlotsOf(t, c) /\ t.slot[a].inj THEN "running"
                                 ELSE t.slot[a].device
      /\ \A a \in Live(u) : a \in Live(t) \/ a \in SlotsOf(t, c)
      /\ \A e \in Events : u.latest[e] = t.latest[e] \/ u.latest[e] \in SlotsOf(t, c)
  BY DEF Executes, Live
<1>2. \A a : Owner(u, a) = Owner(t, a)
  BY <1>1 DEF Owner
<1>3. None \notin Events
  BY ZeAssumption
<1>4. ASSUME h[1] = "event", u.latest[h[2]] # None
      PROVE  u.slot[u.latest[h[2]]].device = "done"
  <2> DEFINE e == h[2]
             x == u.latest[e]
  <2>1. e \in Events /\ h = <<"event", e>>
    BY <1>4 DEF Over
  <2>2. x \in Live(u) /\ u.slot[x].attr = e
    BY <1>4, <2>1, SoundFacts DEF LatestLive
  <2>3. x \notin SlotsOf(t, c)
    BY <1>1, <1>3, <2>1, <2>2
  <2>4. x = t.latest[e]
    BY <1>1, <2>1, <2>3
  <2>5. t.slot[x].device = "done"
    BY <1>4, <2>4 DEF Over
  <2> QED
    BY <1>1, <2>2, <2>3, <2>5
<1>5. ASSUME NEW a \in Live(u), Awaited(u, h, Owner(u, a))
      PROVE  u.slot[a].device # "running"
  <2>1. Owner(u, a) # c
    <3>1. c \notin Immediate
      BY ZeAssumption
    <3> QED
      BY <1>1, <1>5, <3>1 DEF Awaited
  <2>2. a \notin SlotsOf(t, c)
    BY <1>2, <2>1 DEF SlotsOf
  <2>3. a \in Live(t) /\ u.slot[a].device = t.slot[a].device
    BY <1>1, <2>2
  <2> DEFINE d == Owner(u, a)
  <2>4. d \in Cls /\ d = Owner(t, a)
    BY <1>2, OwnersKnown
  <2> HIDE DEF d
  <2>5. Awaited(t, h, d)
    BY <1>1, <1>5, <2>1, <2>4 DEF Awaited, d
  <2> QED
    BY <2>3, <2>4, <2>5 DEF Over
<1> QED
  BY <1>4, <1>5 DEF Over

LEMMA ExecuteKeeps ==
  ASSUME State, Base(tr, closed), Ended(tr, fired), Over(tr, hook), Pending(hook),
         "one_signal" \in Rules, "quiet_sync" \in Rules, "consume" \in Rules,
         NEW c \in Regular, NEW q \in Queues, NEW f \in Fences \union {None}, Execute(c, q, f)
  PROVE  Ended(tr', fired') /\ Over(tr', hook') /\ UNCHANGED hook
<1> SUFFICES ASSUME ~Stays PROVE Ended(tr', fired') /\ Over(tr', hook') /\ UNCHANGED hook
  BY DEF Stays
<1>1. PICK t : Idle(t, c) /\ tr' = Executed(t, c, q, f)
  BY ExecuteFrom
<1>2. /\ Sound(t, {}) /\ Lesser(tr, t) /\ Base(t, closed) /\ t.cl[c] # None /\ OneSlab(t)
      /\ c \in closed => LiveOf(t, c) = {}
  BY <1>1 DEF Idle, Base
<1>3. NoBack(t, c)
  BY <1>1, IdleNoBack
<1>4. /\ hook # <<"queue", q>> /\ hook # <<"fence", f>>
      /\ \A a \in SlotsOf(tr, c) : tr.slot[a].attr # None =>
           tr.slot[a].attr \notin fired /\ hook # <<"event", tr.slot[a].attr>>
      /\ fired \subseteq Events /\ None \notin Events
      /\ fired' = fired /\ hook' = hook
  BY ZeAssumption, ExecuteFrom DEF Execute, MayExecute, State
<1>5. \A a \in SlotsOf(t, c) : /\ t.slot[a].attr \notin fired
                               /\ t.slot[a].attr # None => hook # <<"event", t.slot[a].attr>>
  BY <1>2, <1>4 DEF Lesser
<1> DEFINE u == Executed(t, c, q, f)
           K == closed
           F == fired
           h == hook
<1>6. Ended(t, F) /\ Over(t, h)
  BY <1>2, LesserEnded, LesserOver
<1>7. /\ Sound(u, {}) /\ Executes(t, u, c, q, f)
      /\ Edged(t) => Edged(u)
  BY <1>2, <1>3, ExecuteReplays
<1>8. h # None /\ h[1] = "event" => h = <<"event", h[2]>>
  BY PendingFacts
<1>9. tr' = u
  BY <1>1
<1> HIDE DEF u, K, F, h
<1>a. Edged(u)
  BY <1>6, <1>7 DEF Ended
<1>b. \A a \in SlotsOf(t, c) : t.slot[a].attr \notin F
  BY <1>5 DEF F
<1>c. Base(t, K) /\ (c \in K => LiveOf(t, c) = {})
  BY <1>2 DEF K
<1>10. Ended(u, F)
  BY <1>2, <1>3, <1>6, <1>7, <1>a, <1>b, <1>c, ExecuteEnded
<1>11. Over(u, h)
  BY <1>2, <1>4, <1>5, <1>6, <1>7, <1>8, ExecuteOver DEF h
<1> QED
  BY <1>4, <1>9, <1>10, <1>11 DEF F, h

\* Only commands end, and the events F grow by the one they signal.
LEMMA CompletesEnded ==
  ASSUME NEW t, NEW u, NEW a, Completes(t, u, a), NEW K, Base(t, K), Signals(t),
         NEW F, Ended(t, F), NEW G,
         a \in Addrs => /\ ToSet(t.slot[a].waits) \subseteq F
                        /\ Owner(t, a) \in InOrder =>
                             \A p \in PredsOf(t, a) :
                               Owner(t, p) = Owner(t, a) => t.slot[p].device # "running",
         G \subseteq F \union (IF a \in Addrs THEN {t.slot[a].attr} \ {None} ELSE {}),
         \A x \in Live(t) : t.slot[x].device \in {"recorded", "running", "done"},
         \A x \in Live(t) : Owner(t, x) \in Cls /\ x \in SlotsOf(t, Owner(t, x))
  PROVE  Ended(u, G)
<1>1. /\ Live(u) = Live(t) /\ Live(t) \subseteq Addrs
      /\ \A x : Owner(u, x) = Owner(t, x)
      /\ \A x \in Live(t) : PredsOf(u, x) = PredsOf(t, x)
  BY CompletesFacts
<1>2. \A x \in Addrs :
        /\ u.slot[x].attr = t.slot[x].attr
        /\ u.slot[x].waits = t.slot[x].waits
        /\ u.slot[x].preds = t.slot[x].preds
        /\ u.slot[x].device = IF x = a THEN "done" ELSE t.slot[x].device
  BY DEF Completes
<1>3. Edged(u)
  <2> SUFFICES ASSUME NEW x \in Live(u), NEW y \in u.slot[x].preds, y[2] \in Live(u)
               PROVE  EdgeMeans(u, x, y)
    BY DEF Edged
  <2>1. EdgeMeans(t, x, y)
    BY <1>1, <1>2 DEF Ended, Edged
  <2> QED
    BY <1>1, <1>2, <2>1 DEF EdgeMeans
<1>4. a \in Addrs => a \in Live(t)
  BY DEF Completes, Base, OnDevice, Live
<1>5. ASSUME NEW x \in Live(u), u.slot[x].attr \in G
      PROVE  u.slot[x].device = "done"
  <2>1. CASE t.slot[x].attr \in F
    BY <1>1, <1>2, <2>1 DEF Ended
  <2>2. CASE t.slot[x].attr \notin F
    <3>1. a \in Live(t) /\ t.slot[x].attr = t.slot[a].attr /\ t.slot[a].attr # None
      BY <1>1, <1>2, <1>4, <1>5, <2>2
    <3>2. x = a
      BY <1>1, <3>1 DEF Signals
    <3> QED
      BY <1>1, <1>2, <3>2
  <2> QED
    BY <2>1, <2>2
<1>6. ASSUME NEW x \in Live(u), u.slot[x].device = "done", NEW p \in PredsOf(u, x) \intersect Live(u)
      PROVE  u.slot[p].device = "done"
  <2>1. p \in Live(t) /\ p \in PredsOf(t, x) /\ x \in Live(t) /\ x \in Addrs /\ p \in Addrs
    BY <1>1
  <2>2. CASE x # a
    <3>1. t.slot[x].device = "done"
      BY <1>2, <1>6, <2>1, <2>2
    <3>2. t.slot[p].device = "done"
      BY <2>1, <3>1 DEF Ended
    <3> QED
      BY <1>2, <2>1, <3>2
  <2>3. CASE x = a
    <3>1. PICK y \in t.slot[a].preds : y[2] = p
      BY <2>1, <2>3 DEF PredsOf
    <3>2. EdgeMeans(t, a, y)
      BY <2>1, <2>3, <3>1 DEF Ended, Edged
    <3>3. CASE y[1] = 0
      <4>1. Owner(t, a) = Owner(t, p) /\ Owner(t, a) \in InOrder
        BY <3>1, <3>2, <3>3 DEF EdgeMeans
      <4>2. t.slot[p].device # "running"
        BY <2>1, <2>3, <4>1
      <4>3. Owner(t, a) \in K \union Immediate
        <5>1. t.slot[a].device = "running"
          BY <2>1, <2>3 DEF Completes
        <5>2. a \in SlotsOf(t, Owner(t, a)) /\ Owner(t, a) \in Regular \union Immediate
          BY <2>1, <2>3 DEF Cls
        <5> QED
          BY <5>1, <5>2 DEF Base, Unrun
      <4>4. t.slot[p].device # "recorded"
        BY <2>1, <4>1, <4>3 DEF Base, OnDevice
      <4>5. t.slot[p].device = "done"
        BY <2>1, <4>2, <4>4
      <4> QED
        BY <1>2, <2>1, <4>5
    <3>4. CASE y[1] # 0
      <4>1. y[1] \in DOMAIN t.slot[a].waits /\ t.slot[p].attr = t.slot[a].waits[y[1]]
        BY <3>1, <3>2, <3>4 DEF EdgeMeans
      <4>2. t.slot[p].attr \in F
        BY <2>1, <2>3, <4>1 DEF ToSet
      <4>3. t.slot[p].device = "done"
        BY <2>1, <4>2 DEF Ended
      <4> QED
        BY <1>2, <2>1, <4>3
    <3> QED
      BY <3>3, <3>4
  <2> QED
    BY <2>2, <2>3
<1> QED
  BY <1>3, <1>5, <1>6 DEF Ended

LEMMA CompletesOver ==
  ASSUME NEW t, Sound(t, {}), NEW u, NEW a, Completes(t, u, a), NEW h, Over(t, h)
  PROVE  Over(u, h)
<1> SUFFICES ASSUME h # None PROVE Over(u, h)
  BY DEF Over
<1>1. /\ Live(u) = Live(t) /\ Live(t) \subseteq Addrs
      /\ \A x : Owner(u, x) = Owner(t, x)
  BY CompletesFacts
<1>a. /\ u.cl = t.cl /\ u.latest = t.latest
      /\ \A x \in Addrs : u.slot[x].device = IF x = a THEN "done" ELSE t.slot[x].device
  BY DEF Completes
<1>2. \A c : Awaited(u, h, c) <=> Awaited(t, h, c)
  BY <1>a DEF Awaited
<1>3. ASSUME h[1] = "event", u.latest[h[2]] # None
      PROVE  u.slot[u.latest[h[2]]].device = "done"
  <2>1. h[2] \in Events /\ t.slot[t.latest[h[2]]].device = "done"
    BY <1>1, <1>a, <1>3 DEF Over
  <2>2. t.latest[h[2]] \in Addrs
    BY <1>1, <1>a, <1>3, <2>1, SoundFacts DEF LatestLive
  <2> QED
    BY <1>1, <1>a, <2>1, <2>2
<1>4. ASSUME NEW x \in Live(u), Awaited(u, h, Owner(u, x))
      PROVE  u.slot[x].device # "running"
  BY <1>1, <1>a, <1>2, <1>4 DEF Over
<1> QED
  BY <1>3, <1>4 DEF Over

LEMMA FrameKeeps ==
  ASSUME State, Base(tr, closed), Signals(tr), Ended(tr, fired), Over(tr, hook),
         "one_signal" \in Rules, "sync_first" \in Rules,
         \/ \E a \in Addrs : Complete(a)
         \/ \E e \in Events : DestroyEvent(e) \/ HostSignal(e) \/ HostReset(e)
  PROVE  Ended(tr', fired') /\ Over(tr', hook') /\ UNCHANGED hook
<1>1. Sound(tr, {}) /\ None \notin Addrs /\ fired \subseteq Events /\ None \notin Events
  BY NoneAssumption, ZeAssumption DEF State
<1>2. /\ \A x \in Live(tr) : tr.slot[x].device \in {"recorded", "running", "done"}
      /\ \A x \in Live(tr) : Owner(tr, x) \in Cls /\ x \in SlotsOf(tr, Owner(tr, x))
  BY <1>1, SoundFacts, SlotTypes, OwnersKnown
<1>3. ASSUME NEW a \in Addrs, Complete(a)
      PROVE  Ended(tr', fired') /\ Over(tr', hook') /\ UNCHANGED hook
  <2>1. /\ ToSet(tr.slot[a].waits) \subseteq fired
        /\ Owner(tr, a) \in InOrder =>
             \A p \in PredsOf(tr, a) :
               Owner(tr, p) = Owner(tr, a) => tr.slot[p].device # "running"
        /\ fired' = fired \union ({tr.slot[a].attr} \ {None})
        /\ UNCHANGED <<closed, hook, holder>>
    BY <1>3 DEF Complete
  <2> DEFINE u == tr'
             G == fired'
  <2>2. Completes(tr, u, a)
    BY <1>3, CompleteFrame
  <2>3. G \subseteq fired \union (IF a \in Addrs THEN {tr.slot[a].attr} \ {None} ELSE {})
    BY <2>1
  <2> HIDE DEF u, G
  <2>4. Ended(u, G)
    BY <1>2, <2>1, <2>2, <2>3, CompletesEnded
  <2>5. Over(u, hook)
    BY <1>1, <2>2, CompletesOver
  <2> QED
    BY <2>1, <2>4, <2>5 DEF u, G
<1>4. ASSUME NEW e \in Events, DestroyEvent(e)
      PROVE  Ended(tr', fired') /\ Over(tr', hook') /\ UNCHANGED hook
  <2> DEFINE u == tr'
             G == fired'
             a == None
  <2>1. Completes(tr, u, a) /\ UNCHANGED <<closed, hook, holder>>
    BY <1>4, DestroyEventFrame
  <2>2. G \subseteq fired
    BY <1>4 DEF DestroyEvent
  <2>3. a \notin Addrs
    BY <1>1
  <2> HIDE DEF u, G, a
  <2>4. Ended(u, G)
    BY <1>2, <2>1, <2>2, <2>3, CompletesEnded
  <2>5. Over(u, hook)
    BY <1>1, <2>1, CompletesOver
  <2> QED
    BY <2>1, <2>4, <2>5 DEF u, G
<1>5. ASSUME NEW e \in Events, HostSignal(e)
      PROVE  Ended(tr', fired') /\ Over(tr', hook') /\ UNCHANGED hook
  <2>1. tr.latest[e] = None /\ fired' = fired \union {e} /\ UNCHANGED <<tr, hook>>
    BY <1>5 DEF HostSignal
  <2>2. \A x \in Live(tr) : tr.slot[x].attr # e
    BY <1>1, <2>1 DEF Signals, Live
  <2>3. Ended(tr, fired \union {e})
    BY <2>2 DEF Ended
  <2> QED
    BY <2>1, <2>3
<1>6. ASSUME NEW e \in Events, HostReset(e)
      PROVE  Ended(tr', fired') /\ Over(tr', hook') /\ UNCHANGED hook
  <2>1. fired' \subseteq fired /\ UNCHANGED <<tr, hook>>
    BY <1>6 DEF HostReset
  <2>2. Ended(tr, fired')
    BY <2>1 DEF Ended
  <2> QED
    BY <2>1, <2>2
<1> QED
  BY <1>3, <1>4, <1>5, <1>6

LEMMA ReturnOver ==
  ASSUME State, Base(tr, closed), Ended(tr, fired),
         NEW k, NEW h, SyncReturns(k, h), h \in Events \union Cls \union Queues \union Fences
  PROVE  Over(tr, hook') /\ Pending(hook') /\ UNCHANGED <<tr, closed, fired, holder>>
<1>1. /\ Sound(tr, {}) /\ fired \subseteq Events
      /\ hook' = <<k, h>> /\ UNCHANGED <<tr, closed, fired, holder>>
      /\ \/ k = "event" /\ h \in fired /\ tr.latest[h] # None
         \/ k = "cl" /\ h \in Immediate \intersect Registered /\ Quiet({h})
         \/ k = "queue" /\ h \in Queues /\ Quiet(InFlightOn(h))
         \/ k = "fence" /\ h \in Fences /\ Quiet(InFlightUnder(h))
  BY DEF State, SyncReturns
<1>2. Pending(<<k, h>>)
  BY <1>1 DEF Pending
<1> DEFINE p == <<k, h>>
<1>3. /\ p[1] = "event" => h \in Events
      /\ p[1] = "queue" => h \in Queues
      /\ p[1] = "fence" => h \in Fences
      /\ p[1] = k /\ p[2] = h
  BY <1>1
<1>4. ASSUME k = "event", tr.latest[h] # None
      PROVE  tr.slot[tr.latest[h]].device = "done"
  <2>1. h \in Events /\ h \in fired
    BY <1>1, <1>4
  <2>2. tr.latest[h] \in Live(tr) /\ tr.slot[tr.latest[h]].attr = h
    BY <1>1, <1>4, <2>1, SoundFacts DEF LatestLive
  <2> QED
    BY <2>1, <2>2 DEF Ended
<1>5. ASSUME NEW a \in Live(tr), Awaited(tr, p, Owner(tr, a))
      PROVE  tr.slot[a].device # "running"
  <2> DEFINE c == Owner(tr, a)
  <2>1. c \in Registered /\ a \in SlotsOf(tr, c)
    BY <1>1, OwnersKnown DEF Registered
  <2>2. \A L : Quiet(L) /\ c \in L => tr.slot[a].device # "running"
    BY <2>1 DEF Quiet
  <2>3. \/ k = "cl" /\ h = c
        \/ k = "queue" /\ h = tr.cl[c].in_flight_q
        \/ k = "fence" /\ h = tr.cl[c].in_flight_fence
    BY <1>5 DEF Awaited
  <2> HIDE DEF c
  <2>4. CASE k = "cl" /\ h = c
    <3> DEFINE L == {h}
    <3>1. Quiet(L) /\ c \in L
      BY <1>1, <2>4
    <3> HIDE DEF L
    <3> QED
      BY <2>2, <3>1
  <2>5. CASE k = "queue" /\ h = tr.cl[c].in_flight_q
    <3>1. Quiet(InFlightOn(h)) /\ c \in InFlightOn(h)
      BY <1>1, <2>1, <2>5 DEF InFlightOn
    <3> QED
      BY <2>2, <3>1
  <2>6. CASE k = "fence" /\ h = tr.cl[c].in_flight_fence
    <3>1. Quiet(InFlightUnder(h)) /\ c \in InFlightUnder(h)
      BY <1>1, <2>1, <2>6 DEF InFlightUnder
    <3> QED
      BY <2>2, <3>1
  <2> QED
    BY <2>3, <2>4, <2>5, <2>6
<1> HIDE DEF p
<1>6. Over(tr, p)
  BY <1>3, <1>4, <1>5 DEF Over
<1> QED
  BY <1>1, <1>2, <1>6 DEF p

\* The rules that keep the drains of ended commands short.
DrainRules == {"one_signal", "run_first", "sync_first", "quiet_sync", "consume"}

Settled == /\ State /\ OnlyReplaysWait
           /\ Base(tr, closed) /\ Signals(tr) /\ Ended(tr, fired)
           /\ Over(tr, hook) /\ Pending(hook)

LEMMA SettledInit == Init => Settled
<1> SUFFICES ASSUME Init PROVE Settled
  OBVIOUS
<1>1. State /\ Base(tr, closed) /\ Signals(tr)
  BY OrderedInit DEF Ordered, Init
<1>2. Live(tr) = {}
  BY DEF Init, Live, NoSlot
<1>3. Ended(tr, fired)
  BY <1>2 DEF Ended, Edged
<1>4. Over(tr, hook) /\ Pending(hook) /\ OnlyReplaysWait
  BY DEF Init, Over, Pending, OnlyReplaysWait
<1> QED
  BY <1>1, <1>3, <1>4 DEF Settled

\* A step leaves the mutex to whom it finds it with, or to a replay.
LEMMA SettledStep ==
  ASSUME DrainRules \subseteq Rules, Settled, [Next]_vars
  PROVE  /\ Ended(tr', fired') /\ Over(tr', hook') /\ Pending(hook')
         /\ holder' \in {holder, None} \/ holder'[1] = "execute"
<1> DEFINE Kept1 == holder' \in {holder, None}
           Good == /\ Ended(tr', fired') /\ Over(tr', hook') /\ Pending(hook')
                   /\ Kept1 \/ holder'[1] = "execute"
<1>1. /\ State /\ State'
      /\ Base(tr, closed) /\ Signals(tr) /\ Ended(tr, fired)
      /\ Over(tr, hook) /\ Pending(hook)
      /\ "sync_first" \in Rules /\ "one_signal" \in Rules /\ "run_first" \in Rules
      /\ "quiet_sync" \in Rules /\ "consume" \in Rules
  BY StateStep DEF Settled, DrainRules
<1>2. Sound(tr', {})
  BY <1>1 DEF State
<1>3. ASSUME Takes, Kept1, hook' \in {hook, None}
      PROVE  Good
  <2>1. Lesser(tr, tr') /\ fired' = fired
    BY <1>3 DEF Takes
  <2> DEFINE u == tr'
  <2>2. Lesser(tr, u) /\ Sound(u, {})
    BY <1>2, <2>1
  <2> HIDE DEF u
  <2>3. Ended(u, fired)
    BY <1>1, <2>2, LesserEnded
  <2>4. Over(u, hook)
    BY <1>1, <2>2, LesserOver
  <2>5. Over(u, None) /\ Pending(None)
    BY DEF Over, Pending
  <2>6. CASE hook' = hook
    BY <1>1, <1>3, <2>1, <2>3, <2>4, <2>6 DEF u
  <2>7. CASE hook' = None
    BY <1>1, <1>3, <2>1, <2>3, <2>5, <2>7 DEF u
  <2> QED
    BY <1>3, <2>6, <2>7
<1>4. ASSUME Ended(tr', fired'), Over(tr', hook'), UNCHANGED hook, Kept1
      PROVE  Good
  BY <1>1, <1>4
<1>5. ASSUME NEW c \in Cls, CreateCommandList(c) \/ DestroyCommandList(c)
      PROVE  Good
  BY <1>1, <1>3, <1>5, TakeListSteps
<1>6. ASSUME NEW c \in Cls, NEW e \in Events \union {None}, NEW w \in WaitLists,
             AppendCommand(c, e, w)
      PROVE  Good
  <2>1. Ended(tr', fired') /\ Over(tr', hook')
    BY <1>1, <1>6, AppendKeeps
  <2>2. UNCHANGED <<hook, holder>>
    BY <1>6 DEF AppendCommand
  <2> QED
    BY <1>4, <2>1, <2>2
<1>7. ASSUME NEW c \in Regular, ResetCommandList(c)
      PROVE  Good
  BY <1>1, <1>3, <1>7, ResetReturns
<1>8. ASSUME NEW c \in Regular, NEW q \in Queues, NEW f \in Fences \union {None},
             Execute(c, q, f)
      PROVE  Good
  <2>1. Ended(tr', fired') /\ Over(tr', hook') /\ UNCHANGED hook
    BY <1>1, <1>8, ExecuteKeeps
  <2>2. Kept1 \/ holder'[1] = "execute"
    BY <1>8 DEF Execute, Waits, Proceeds
  <2> QED
    BY <1>1, <2>1, <2>2
<1>9. CASE DestroyContext
  BY <1>1, <1>3, <1>9, TakeContext
<1>10. CASE OnSync
  BY <1>1, <1>3, <1>10, SyncDone
<1>11. CASE \/ \E a \in Addrs : Complete(a)
            \/ \E e \in Events : DestroyEvent(e) \/ HostSignal(e) \/ HostReset(e)
  <2>1. Ended(tr', fired') /\ Over(tr', hook') /\ UNCHANGED hook
    BY <1>1, <1>11, FrameKeeps
  <2>2. UNCHANGED holder
    BY <1>11 DEF Complete, DestroyEvent, HostSignal, HostReset
  <2> QED
    BY <1>4, <2>1, <2>2
<1>12. ASSUME NEW k \in {"event", "cl", "queue", "fence"},
              NEW h \in Events \union Cls \union Queues \union Fences, SyncReturns(k, h)
       PROVE  Good
  <2>1. Over(tr, hook') /\ Pending(hook') /\ UNCHANGED <<tr, closed, fired, holder>>
    BY <1>1, <1>12, ReturnOver
  <2> QED
    BY <1>1, <2>1
<1>13. CASE UNCHANGED vars
  BY <1>1, <1>13 DEF vars
<1> HIDE DEF Good
<1>14. Good => /\ Ended(tr', fired') /\ Over(tr', hook') /\ Pending(hook')
               /\ holder' \in {holder, None} \/ holder'[1] = "execute"
  BY DEF Good
<1> QED
  BY <1>5, <1>6, <1>7, <1>8, <1>9, <1>10, <1>11, <1>12, <1>13, <1>14 DEF Next

LEMMA SettledKept ==
  ASSUME DrainRules \subseteq Rules, Settled, [Next]_vars
  PROVE  Settled'
<1>1. State /\ "sync_first" \in Rules /\ "one_signal" \in Rules /\ Base(tr, closed) /\ Signals(tr)
  BY DEF Settled, DrainRules
<1>2. State'
  BY <1>1, StateStep
<1>3. /\ Ended(tr', fired') /\ Over(tr', hook') /\ Pending(hook')
      /\ holder' \in {holder, None} \/ holder'[1] = "execute"
  BY SettledStep
<1>4. Base(tr', closed') /\ Signals(tr')
  BY <1>1, OrderedStep DEF Ordered
<1>5. OnlyReplaysWait'
  BY <1>3 DEF Settled, OnlyReplaysWait
<1> QED
  BY <1>2, <1>3, <1>4, <1>5 DEF Settled

\* "Drain runs after a sync that already completed the work, so the query returns
\* immediately": whatever the epilogue of a synchronisation or a reset reaches
\* over the edges, the device is done with, so that neither keeps the tracer's
\* mutex for a command that has not ended.  Only a replay may have to wait.
THEOREM OnlyReplaysBlock ==
  ASSUME DrainRules \subseteq Rules
  PROVE  Spec => []OnlyReplaysWait
<1>1. Settled /\ [Next]_vars => Settled'
  BY SettledKept
<1>2. Settled => OnlyReplaysWait
  BY DEF Settled
<1> QED
  BY <1>1, <1>2, SettledInit, PTL DEF Spec
=============================================================================
