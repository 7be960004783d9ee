-------------------------- MODULE ZeProfiling_proofs --------------------------
(* The counters of the Level Zero profiler are exact, so that a slab goes    *)
(* with its last user and no edge leads into freed memory, for any command   *)
(* lists, events and slabs.                                                  *)
EXTENDS ZeProfiling, FiniteSetTheorems, FunctionTheorems, SequenceTheorems,
        WellFoundedInduction, TLAPS

-----------------------------------------------------------------------------
(* The invariant, of a state t of the tracer. *)

\* The slots a slab is kept for.
Needed(t, b) == {a \in Addrs : a[1] = b /\ (t.slot[a].live \/ t.slot[a].refs > 0)}
LiveOf(t, c) == {a \in Live(t) : Owner(t, a) = c}
Injective(q) == \A i, j \in DOMAIN q : q[i] = q[j] => i = j

RefsExact(t) == \A a \in Addrs : t.slot[a].refs = Edges(t, Live(t), a)

ListExact(t, c) ==
  /\ t.cl[c].n_live = Cardinality(LiveOf(t, c))
  /\ c \in InOrder => /\ ToSet(t.cl[c].live_slots) = LiveOf(t, c)
                      /\ Injective(t.cl[c].live_slots)
  /\ t.cl[c].tail # None => t.slab[t.cl[c].tail].owner = c

SlabKnown(t, b) ==
  /\ t.slab[b].owner \in Cls => t.cl[t.slab[b].owner] # None
  /\ t.slab[b].owner = "free" => t.slab[b] = NoSlab
  /\ t.slab[b].n_held <= t.slab[b].n_used

SlotKnown(t, a) ==
  /\ a[2] > t.slab[a[1]].n_used => t.slot[a] = NoSlot
  /\ t.slot[a].live => Owner(t, a) \in Cls

\* The slots X are held already, though not live yet.
HeldExact(t, X, b) ==
  /\ t.slab[b].owner \in Immediate =>
       /\ t.slab[b].n_held = Cardinality(Needed(t, b) \union {a \in X : a[1] = b})
       /\ ~IsTail(t, b) => t.slab[b].n_held > 0
  /\ t.slab[b].owner = "detached" =>
       /\ t.slab[b].n_pinned = Cardinality(Needed(t, b))
       /\ t.slab[b].n_pinned > 0

LatestLive(t) == \A e \in Events : t.latest[e] # None =>
                   t.latest[e] \in Live(t) /\ t.slot[t.latest[e]].attr = e

Sound(t, X) ==
  /\ t \in Tracers
  /\ RefsExact(t)
  /\ \A c \in Cls : t.cl[c] # None => ListExact(t, c)
  /\ \A b \in Slabs : SlabKnown(t, b)
  /\ \A a \in Addrs : SlotKnown(t, a)
  /\ \A b \in Slabs : HeldExact(t, X, b)
  /\ LatestLive(t)

-----------------------------------------------------------------------------
(* Addresses, types and edges. *)

LEMMA AddrFacts ==
  /\ \A a \in Addrs : a[1] \in Slabs /\ a[2] \in 1 .. SlabSlots /\ a = <<a[1], a[2]>>
  /\ \A b \in Slabs, i \in 1 .. SlabSlots : <<b, i>> \in Addrs
  /\ IsFiniteSet(Addrs)
<1>1. IsFiniteSet(Slabs) /\ SlabSlots \in Nat
  BY ZeAssumption
<1>2. IsFiniteSet(1 .. SlabSlots)
  BY <1>1, FS_Interval
<1>3. Addrs = Slabs \X (1 .. SlabSlots)
  BY DEF Addrs
<1>4. IsFiniteSet(Addrs)
  BY <1>1, <1>2, <1>3, FS_Product
<1>5. /\ \A a \in Addrs : a[1] \in Slabs /\ a[2] \in 1 .. SlabSlots /\ a = <<a[1], a[2]>>
      /\ \A b \in Slabs, i \in 1 .. SlabSlots : <<b, i>> \in Addrs
  BY <1>3
<1> QED
  BY <1>4, <1>5

LEMMA TracerTypes ==
  ASSUME NEW t \in Tracers
  PROVE  /\ t = [cl |-> t.cl, slab |-> t.slab, slot |-> t.slot, latest |-> t.latest,
                 kts |-> t.kts]
         /\ t.cl \in [Cls -> CommandLists \union {None}]
         /\ t.slab \in [Slabs -> SlabRecords]
         /\ t.slot \in [Addrs -> Slots]
         /\ t.latest \in [Events -> Addrs \union {None}]
         /\ t.kts \in SUBSET Timed
BY DEF Tracers

LEMMA SlotTypes ==
  ASSUME NEW t \in Tracers, NEW a \in Addrs
  PROVE  LET s == t.slot[a] IN
         /\ s \in Slots
         /\ s.live \in BOOLEAN /\ s.inj \in BOOLEAN /\ s.attr \in Events \union {None}
         /\ s.waits \in WaitLists
         /\ s.preds \in SUBSET ((0 .. MaxWaits) \X Addrs)
         /\ s.refs \in Nat /\ s.device \in {"recorded", "running", "done"}
<1>1. t.slot[a] \in Slots
  BY TracerTypes
<1> QED
  BY <1>1 DEF Slots

LEMMA SlabTypes ==
  ASSUME NEW t \in Tracers, NEW b \in Slabs
  PROVE  LET s == t.slab[b] IN
         /\ s \in SlabRecords
         /\ s.owner \in Cls \union {"free", "detached"}
         /\ s.n_used \in 0 .. SlabSlots /\ s.n_held \in 0 .. SlabSlots
         /\ s.n_pinned \in 0 .. SlabSlots
<1>1. t.slab[b] \in SlabRecords
  BY TracerTypes
<1> QED
  BY <1>1 DEF SlabRecords

LEMMA ListTypes ==
  ASSUME NEW t \in Tracers, NEW c \in Cls, t.cl[c] # None
  PROVE  LET l == t.cl[c] IN
         /\ l \in CommandLists
         /\ l.tail \in Slabs \union {None}
         /\ l.in_flight_q \in Queues \union {None}
         /\ l.in_flight_fence \in Fences \union {None}
         /\ l.n_live \in Nat /\ l.live_slots \in Seq(Addrs)
<1>1. t.cl[c] \in CommandLists
  BY TracerTypes
<1> QED
  BY <1>1 DEF CommandLists

LEMMA NewTypes ==
  /\ NewCl \in CommandLists
  /\ NoSlab \in SlabRecords
  /\ NoSlot \in Slots
  /\ \A l \in CommandLists : l # None
<1>1. 0 \in 0 .. SlabSlots /\ MaxWaits \in Nat /\ <<>> \in [1 .. 0 -> Events] /\ 0 \in 0 .. MaxWaits
  BY ZeAssumption
<1>2. <<>> \in WaitLists
  BY <1>1 DEF WaitLists
<1>3. NoSlot \in Slots
  BY <1>2 DEF NoSlot, Slots
<1>4. NoSlab \in SlabRecords
  BY <1>1 DEF NoSlab, SlabRecords
<1>5. NewCl \in CommandLists
  BY DEF NewCl, CommandLists
<1> QED
  BY <1>3, <1>4, <1>5, NoneAssumption

LEMMA LiveFacts ==
  ASSUME NEW t \in Tracers
  PROVE  Live(t) \subseteq Addrs /\ IsFiniteSet(Live(t))
BY AddrFacts, FS_Subset DEF Live

EdgesTo(t, S, p) == {e \in S \X (0 .. MaxWaits) : <<e[2], p>> \in t.slot[e[1]].preds}

LEMMA EdgesFinite ==
  ASSUME NEW t, NEW S, S \subseteq Addrs, NEW p
  PROVE  /\ IsFiniteSet(EdgesTo(t, S, p))
         /\ Edges(t, S, p) = Cardinality(EdgesTo(t, S, p))
         /\ Edges(t, S, p) \in Nat
<1>1. IsFiniteSet(S)
  BY AddrFacts, FS_Subset
<1>2. MaxWaits \in Nat
  BY ZeAssumption
<1>3. IsFiniteSet(0 .. MaxWaits)
  BY <1>2, FS_Interval
<1>4. IsFiniteSet(S \X (0 .. MaxWaits))
  BY <1>1, <1>3, FS_Product
<1>5. IsFiniteSet(EdgesTo(t, S, p))
  BY <1>4, FS_Subset DEF EdgesTo
<1>6. Edges(t, S, p) = Cardinality(EdgesTo(t, S, p))
  BY DEF Edges, EdgesTo
<1> QED
  BY <1>5, <1>6, FS_CardinalityType

LEMMA EdgesSame ==
  ASSUME NEW t, NEW u, NEW S, NEW p, \A s \in S : u.slot[s].preds = t.slot[s].preds
  PROVE  Edges(u, S, p) = Edges(t, S, p)
<1>1. EdgesTo(u, S, p) = EdgesTo(t, S, p)
  BY DEF EdgesTo
<1> QED
  BY <1>1 DEF Edges, EdgesTo

LEMMA EdgesMinus ==
  ASSUME NEW t, NEW S, S \subseteq Addrs, NEW D, D \subseteq S, NEW p
  PROVE  /\ Edges(t, D, p) <= Edges(t, S, p)
         /\ Edges(t, S \ D, p) = Edges(t, S, p) - Edges(t, D, p)
<1>1. /\ IsFiniteSet(EdgesTo(t, S, p)) /\ Edges(t, S, p) = Cardinality(EdgesTo(t, S, p))
      /\ Edges(t, D, p) = Cardinality(EdgesTo(t, D, p))
      /\ Edges(t, S \ D, p) = Cardinality(EdgesTo(t, S \ D, p))
  BY EdgesFinite
<1>2. EdgesTo(t, S \ D, p) = EdgesTo(t, S, p) \ EdgesTo(t, D, p)
  BY DEF EdgesTo
<1>3. EdgesTo(t, D, p) \subseteq EdgesTo(t, S, p)
  BY DEF EdgesTo
<1>4. EdgesTo(t, S, p) \intersect EdgesTo(t, D, p) = EdgesTo(t, D, p)
  BY <1>3
<1>5. Cardinality(EdgesTo(t, S, p) \ EdgesTo(t, D, p))
        = Cardinality(EdgesTo(t, S, p)) - Cardinality(EdgesTo(t, S, p) \intersect EdgesTo(t, D, p))
  BY <1>1, FS_Difference
<1>6. Cardinality(EdgesTo(t, D, p)) <= Cardinality(EdgesTo(t, S, p))
  BY <1>1, <1>3, FS_Subset
<1> QED
  BY <1>1, <1>2, <1>4, <1>5, <1>6

\* Edges of one more slot.
LEMMA EdgesPlus ==
  ASSUME NEW t, NEW S, S \subseteq Addrs, NEW a \in Addrs, a \notin S, NEW p
  PROVE  /\ Edges(t, S \union {a}, p) = Edges(t, S, p) + Taken(t.slot[a].preds, p)
         /\ Taken(t.slot[a].preds, p) \in Nat
<1> DEFINE U == EdgesTo(t, S \union {a}, p)
           I == {i \in 0 .. MaxWaits : <<i, p>> \in t.slot[a].preds}
           E == EdgesTo(t, {a}, p)
<1>1. /\ IsFiniteSet(U) /\ Edges(t, S \union {a}, p) = Cardinality(U)
      /\ IsFiniteSet(E)
  BY EdgesFinite
<1>a. IsFiniteSet(EdgesTo(t, S, p)) /\ Edges(t, S, p) = Cardinality(EdgesTo(t, S, p))
  BY EdgesFinite
<1>2. U = EdgesTo(t, S, p) \union E /\ EdgesTo(t, S, p) \intersect E = {}
  BY DEF EdgesTo
<1>3. Cardinality(U) = Cardinality(EdgesTo(t, S, p)) + Cardinality(E) - Cardinality({})
  BY <1>1, <1>a, <1>2, FS_Union
<1>b. Cardinality({}) = 0 /\ Cardinality(E) \in Nat /\ Cardinality(EdgesTo(t, S, p)) \in Nat
  BY <1>1, <1>a, FS_EmptySet, FS_CardinalityType
<1>4. Cardinality(I) = Cardinality(E)
  <2> DEFINE f == [e \in E |-> e[2]]
  <2>1. \A e \in E : e = <<a, e[2]>> /\ e[2] \in I
    BY DEF EdgesTo
  <2>2. \A i \in I : <<a, i>> \in E /\ f[<<a, i>>] = i
    BY DEF EdgesTo
  <2>3. f \in [E -> I] /\ \A e, d \in E : f[e] = f[d] => e = d
    BY <2>1
  <2>4. \A i \in I : \E e \in E : f[e] = i
    BY <2>2
  <2> HIDE DEF f, E, I
  <2>5. f \in Bijection(E, I)
    BY <2>3, <2>4, Fun_IsInj, Fun_IsSurj, Fun_IsBij
  <2>6. ExistsBijection(E, I)
    BY <2>5 DEF ExistsBijection
  <2> QED
    BY <1>1, <2>6, FS_Bijection
<1>5. Taken(t.slot[a].preds, p) = Cardinality(I)
  BY DEF Taken
<1> HIDE DEF U, I, E
<1> QED
  BY <1>1, <1>a, <1>3, <1>b, <1>4, <1>5

\* A slot without references is nobody's predecessor.
LEMMA NoEdges ==
  ASSUME NEW t \in Tracers, NEW S, S \subseteq Addrs, NEW p
  PROVE  Edges(t, S, p) = 0 <=> \A s \in S : p \notin PredsOf(t, s)
<1>1. IsFiniteSet(EdgesTo(t, S, p)) /\ Edges(t, S, p) = Cardinality(EdgesTo(t, S, p))
  BY EdgesFinite
<1>2. \A s \in S : t.slot[s].preds \in SUBSET ((0 .. MaxWaits) \X Addrs)
  BY SlotTypes
<1>3. \A s \in S : p \in PredsOf(t, s) => \E i \in 0 .. MaxWaits : <<i, p>> \in t.slot[s].preds
  BY <1>2 DEF PredsOf
<1>4. \A s \in S, i \in 0 .. MaxWaits : <<i, p>> \in t.slot[s].preds => p \in PredsOf(t, s)
  BY DEF PredsOf
<1>5. EdgesTo(t, S, p) = {} <=> \A s \in S : p \notin PredsOf(t, s)
  <2>1. \A s \in S, i \in 0 .. MaxWaits :
          <<s, i>> \in EdgesTo(t, S, p) <=> <<i, p>> \in t.slot[s].preds
    BY DEF EdgesTo
  <2>2. \A e \in EdgesTo(t, S, p) : \E s \in S, i \in 0 .. MaxWaits : e = <<s, i>>
    BY DEF EdgesTo
  <2>3. ASSUME EdgesTo(t, S, p) = {} PROVE \A s \in S : p \notin PredsOf(t, s)
    BY <1>3, <2>1, <2>3
  <2>4. ASSUME \A s \in S : p \notin PredsOf(t, s) PROVE EdgesTo(t, S, p) = {}
    <3>1. \A s \in S, i \in 0 .. MaxWaits : <<s, i>> \notin EdgesTo(t, S, p)
      BY <1>4, <2>1, <2>4
    <3> QED
      BY <2>2, <3>1
  <2> QED
    BY <2>3, <2>4
<1> QED
  BY <1>1, <1>5, FS_EmptySet

-----------------------------------------------------------------------------
(* Sequences without some of their elements. *)

LEMMA InOrderOfFacts ==
  ASSUME NEW D, IsFiniteSet(D), \A c \in D : c \in Nat
  PROVE  /\ Cardinality(D) \in Nat
         /\ InOrderOf(D) \in Bijection(1 .. Cardinality(D), D)
<1> DEFINE n == Cardinality(D)
           N == 1 .. n
           Below(c) == {d \in D : d <= c}
           rank == [c \in D |-> Cardinality(Below(c))]
           Up(q) == \A i, j \in 1 .. Cardinality(D) : i < j => q[i] < q[j]
<1>1. n \in Nat /\ IsFiniteSet(N) /\ Cardinality(N) = n
  BY FS_CardinalityType, FS_Interval
<1>2. \A c \in D : IsFiniteSet(Below(c)) /\ rank[c] \in N
  <2> TAKE c \in D
  <2>1. IsFiniteSet(Below(c)) /\ Cardinality(Below(c)) <= n /\ Cardinality(Below(c)) \in Nat
    BY FS_Subset, FS_CardinalityType
  <2>2. c \in Below(c)
    OBVIOUS
  <2>3. Cardinality(Below(c)) # 0
    BY <2>1, <2>2, FS_EmptySet
  <2> QED
    BY <1>1, <2>1, <2>3
<1>3. \A c, d \in D : c < d => rank[c] < rank[d]
  <2> SUFFICES ASSUME NEW c \in D, NEW d \in D, c < d PROVE rank[c] < rank[d]
    OBVIOUS
  <2>1. Below(c) \subseteq Below(d) /\ d \notin Below(c) /\ d \in Below(d)
    OBVIOUS
  <2>2. /\ Cardinality(Below(c)) <= Cardinality(Below(d))
        /\ Cardinality(Below(c)) # Cardinality(Below(d))
    BY <1>2, <2>1, FS_Subset
  <2>3. Cardinality(Below(c)) \in Nat /\ Cardinality(Below(d)) \in Nat
    BY <1>2, FS_CardinalityType
  <2>4. Cardinality(Below(c)) < Cardinality(Below(d))
    BY <2>2, <2>3
  <2> QED
    BY <2>4
<1>a. rank \in [D -> N]
  BY <1>2
<1> HIDE DEF rank, Below
<1>4. rank \in Bijection(D, N)
  <2>1. \A c \in D : rank[c] \in Int
    BY <1>1, <1>a
  <2>2. \A c, d \in D : rank[c] = rank[d] => c = d
    BY <1>3, <2>1
  <2>3. rank \in Injection(D, N)
    BY <1>a, <2>2, Fun_IsInj
  <2>4. rank \in Surjection(D, N)
    BY <1>1, <2>3, FS_Injection
  <2> QED
    BY <2>3, <2>4, Fun_IsBij
<1>5. \E q \in [N -> D] : Up(q)
  <2> DEFINE q == [i \in N |-> CHOOSE c \in D : rank[c] = i]
  <2>1. \A i \in N : \E c \in D : rank[c] = i
    BY <1>4 DEF Bijection, Surjection
  <2>2. \A i \in N : q[i] \in D /\ rank[q[i]] = i
    BY <2>1
  <2>a. q \in [N -> D]
    BY <2>1
  <2> HIDE DEF q
  <2>3. Up(q)
    <3> SUFFICES ASSUME NEW i \in N, NEW j \in N, i < j PROVE q[i] < q[j]
      OBVIOUS
    <3>1. q[i] \in Nat /\ q[j] \in Nat /\ q[i] # q[j]
      BY <1>1, <2>2
    <3>2. ~(q[j] < q[i])
      BY <1>1, <1>3, <2>2
    <3> QED
      BY <3>1, <3>2
  <2> QED
    BY <2>a, <2>3
<1>6. InOrderOf(D) \in [N -> D] /\ Up(InOrderOf(D))
  BY <1>5 DEF InOrderOf
<1> HIDE DEF Up
<1>7. \A i, j \in N : InOrderOf(D)[i] = InOrderOf(D)[j] => i = j
  <2> SUFFICES ASSUME NEW i \in N, NEW j \in N, InOrderOf(D)[i] = InOrderOf(D)[j], i # j
               PROVE  FALSE
    OBVIOUS
  <2>1. InOrderOf(D)[i] \in Nat /\ (i < j \/ j < i)
    BY <1>1, <1>6
  <2> QED
    BY <1>6, <2>1 DEF Up
<1>8. InOrderOf(D) \in Injection(N, D)
  BY <1>6, <1>7, Fun_IsInj
<1>9. InOrderOf(D) \in Surjection(N, D)
  BY <1>1, <1>8, FS_Injection
<1> QED
  BY <1>1, <1>8, <1>9, Fun_IsBij

LEMMA WithoutFacts ==
  ASSUME NEW A, NEW s \in Seq(A), NEW D
  PROVE  /\ Without(s, D) \in Seq(A)
         /\ ToSet(Without(s, D)) = ToSet(s) \ D
         /\ Injective(s) => Injective(Without(s, D))
<1> DEFINE kept == {i \in DOMAIN s : s[i] \notin D}
           n == Cardinality(kept)
           f == InOrderOf(kept)
           w == [j \in 1 .. n |-> s[f[j]]]
<1>1. DOMAIN s = 1 .. Len(s) /\ Len(s) \in Nat /\ \A i \in DOMAIN s : s[i] \in A
  OBVIOUS
<1>2. IsFiniteSet(kept) /\ \A i \in kept : i \in Nat
  <2>1. IsFiniteSet(1 .. Len(s))
    BY <1>1, FS_Interval
  <2> QED
    BY <1>1, <2>1, FS_Subset
<1>3. n \in Nat /\ f \in Bijection(1 .. n, kept)
  BY <1>2, InOrderOfFacts
<1>4. /\ \A j \in 1 .. n : f[j] \in kept
      /\ \A i, j \in 1 .. n : f[i] = f[j] => i = j
      /\ \A k \in kept : \E j \in 1 .. n : f[j] = k
  <2> HIDE DEF n, f, kept
  <2>1. f \in Injection(1 .. n, kept) /\ f \in Surjection(1 .. n, kept) /\ f \in [1 .. n -> kept]
    BY <1>3 DEF Bijection, Injection
  <2>2. \A i, j \in 1 .. n : f[i] = f[j] => i = j
    BY <2>1 DEF Injection, IsInjective
  <2>3. \A k \in kept : \E j \in 1 .. n : f[j] = k
    BY <2>1 DEF Surjection
  <2> QED
    BY <2>1, <2>2, <2>3
<1>5. Without(s, D) = w
  BY DEF Without
<1> HIDE DEF n, f
<1>6. w \in [1 .. n -> A]
  BY <1>1, <1>4
<1>7. w \in Seq(A)
  BY <1>3, <1>6
<1>8. ToSet(w) = ToSet(s) \ D
  <2>1. ToSet(w) = {w[j] : j \in 1 .. n} /\ ToSet(s) = {s[i] : i \in DOMAIN s}
    BY DEF ToSet
  <2>2. \A j \in 1 .. n : w[j] = s[f[j]]
    OBVIOUS
  <2> HIDE DEF w
  <2>3. ASSUME NEW x \in ToSet(w) PROVE x \in ToSet(s) \ D
    BY <1>4, <2>1, <2>2
  <2>4. ASSUME NEW x \in ToSet(s) \ D PROVE x \in ToSet(w)
    <3>1. PICK i \in DOMAIN s : s[i] = x
      BY <2>1
    <3>2. i \in kept
      BY <3>1
    <3>3. PICK j \in 1 .. n : f[j] = i
      BY <1>4, <3>2
    <3> QED
      BY <2>1, <2>2, <3>1, <3>3
  <2> QED
    BY <2>3, <2>4
<1>9. ASSUME Injective(s) PROVE Injective(w)
  <2> SUFFICES ASSUME NEW i \in 1 .. n, NEW j \in 1 .. n, w[i] = w[j] PROVE i = j
    BY DEF Injective
  <2>1. s[f[i]] = s[f[j]] /\ f[i] \in DOMAIN s /\ f[j] \in DOMAIN s
    BY <1>4
  <2>2. f[i] = f[j]
    BY <1>9, <2>1 DEF Injective
  <2> QED
    BY <1>4, <2>2
<1> QED
  BY <1>5, <1>7, <1>8, <1>9

-----------------------------------------------------------------------------
(* Drains. *)

LEMMA SoundFacts ==
  ASSUME NEW t, NEW X, Sound(t, X)
  PROVE  /\ t \in Tracers
         /\ \A a \in Addrs : t.slot[a].refs = Edges(t, Live(t), a)
         /\ \A c \in Cls : t.cl[c] # None => ListExact(t, c)
         /\ \A b \in Slabs : SlabKnown(t, b)
         /\ \A a \in Addrs : SlotKnown(t, a)
         /\ \A b \in Slabs : HeldExact(t, X, b)
         /\ LatestLive(t)
BY DEF Sound, RefsExact

LEMMA NeededFinite ==
  ASSUME NEW t, NEW b
  PROVE  /\ IsFiniteSet(Needed(t, b)) /\ Needed(t, b) \subseteq Addrs
         /\ Cardinality(Needed(t, b)) \in Nat
<1>1. Needed(t, b) \subseteq Addrs
  BY DEF Needed
<1> QED
  BY <1>1, AddrFacts, FS_Subset, FS_CardinalityType

LEMMA SetMinus ==
  ASSUME NEW S, IsFiniteSet(S), NEW T, T \subseteq S
  PROVE  /\ Cardinality(S) \in Nat /\ Cardinality(T) \in Nat /\ Cardinality(S \ T) \in Nat
         /\ Cardinality(S \ T) = Cardinality(S) - Cardinality(T)
         /\ Cardinality(S \ T) = 0 <=> S \ T = {}
<1>1. IsFiniteSet(T) /\ IsFiniteSet(S \ T) /\ S \intersect T = T
  BY FS_Subset
<1>2. Cardinality(S \ T) = Cardinality(S) - Cardinality(S \intersect T)
  BY FS_Difference
<1> QED
  BY <1>1, <1>2, FS_CardinalityType, FS_EmptySet

\* The slots that need their slab once D is drained.
Left(t, D, b) == Needed(t, b) \ Unreferenced(t, D)

LEMMA DrainedSlots ==
  ASSUME NEW t, Sound(t, {}), NEW D, D \subseteq Live(t), NEW a \in Addrs
  PROVE  /\ Edges(t, D, a) \in Nat /\ t.slot[a].refs \in Nat
         /\ t.slot[a].refs - Edges(t, D, a) \in Nat
         /\ t.slot[a].refs - Edges(t, D, a) = Edges(t, Live(t) \ D, a)
         /\ a \in Unreferenced(t, D) => a \in Needed(t, a[1])
         /\ a \in Unreferenced(t, D) => t.slot[a].refs = Edges(t, D, a)
                                        /\ (a \in D \/ ~t.slot[a].live)
         /\ a \in Left(t, D, a[1])
              <=> (t.slot[a].live /\ a \notin D) \/ t.slot[a].refs - Edges(t, D, a) > 0
<1>1. t \in Tracers /\ t.slot[a].refs = Edges(t, Live(t), a)
  BY SoundFacts
<1>2. Live(t) \subseteq Addrs /\ D \subseteq Addrs
  BY <1>1, LiveFacts
<1>3. t.slot[a].live \in BOOLEAN /\ t.slot[a].refs \in Nat
  BY <1>1, SlotTypes
<1>4. /\ Edges(t, D, a) <= Edges(t, Live(t), a)
      /\ Edges(t, Live(t) \ D, a) = Edges(t, Live(t), a) - Edges(t, D, a)
  BY <1>2, EdgesMinus
<1>5. Edges(t, D, a) \in Nat
  BY <1>2, EdgesFinite
<1>6. a \in D => t.slot[a].live
  BY DEF Live
<1>7. a \in Unreferenced(t, D) <=> /\ t.slot[a].refs = Edges(t, D, a)
                                   /\ \/ a \in D
                                      \/ Edges(t, D, a) > 0 /\ ~t.slot[a].live
  BY DEF Unreferenced
<1>8. a \in Needed(t, a[1]) <=> t.slot[a].live \/ t.slot[a].refs > 0
  BY DEF Needed
<1>9. a \in Left(t, D, a[1]) <=> a \in Needed(t, a[1]) /\ a \notin Unreferenced(t, D)
  BY DEF Left
<1> QED
  BY ONLY <1>1, <1>3, <1>4, <1>5, <1>6, <1>7, <1>8, <1>9

LEMMA DrainedSlab ==
  ASSUME NEW t, Sound(t, {}), NEW D, D \subseteq Live(t), NEW b \in Slabs
  PROVE  LET s == t.slab[b]
             r == SlabDrained(t, Unreferenced(t, D), b)
             k == Cardinality(Left(t, D, b))
         IN
         /\ r \in SlabRecords
         /\ \/ r = NoSlab /\ s.owner \in Immediate \union {"detached"} /\ Left(t, D, b) = {}
               /\ (s.owner \in Immediate => ~IsTail(t, b))
            \/ r.owner = s.owner /\ r.n_used = s.n_used /\ r.n_held <= s.n_held
               /\ (s.owner = "free" => r = s)
         /\ r.owner \in Immediate => r.n_held = k /\ (~IsTail(t, b) => r.n_held > 0)
         /\ r.owner = "detached" => r.n_pinned = k /\ r.n_pinned > 0
<1> DEFINE s == t.slab[b]
           gone == Unreferenced(t, D)
           G == {a \in gone : a[1] = b}
           N == Needed(t, b)
           n == Cardinality(G)
           r == SlabDrained(t, gone, b)
           k == Cardinality(Left(t, D, b))
<1>1. t \in Tracers /\ SlabKnown(t, b) /\ HeldExact(t, {}, b)
  BY SoundFacts
<1>2. s \in SlabRecords /\ s.owner \in Cls \union {"free", "detached"}
      /\ s.n_used \in 0 .. SlabSlots /\ s.n_held \in 0 .. SlabSlots /\ s.n_pinned \in 0 .. SlabSlots
  BY <1>1, SlabTypes
<1>3. G \subseteq N
  <2> SUFFICES ASSUME NEW a \in G PROVE a \in N
    OBVIOUS
  <2>1. a \in Addrs /\ a[1] = b /\ a \in Unreferenced(t, D)
    BY DEF Unreferenced
  <2> QED
    BY <2>1, DrainedSlots
<1>4. IsFiniteSet(N)
  BY NeededFinite
<1>5. N \ G = Left(t, D, b)
  BY DEF Left, Needed
<1>6. /\ Cardinality(N) \in Nat /\ n \in Nat /\ k \in Nat
      /\ k = Cardinality(N) - n
      /\ k = 0 <=> Left(t, D, b) = {}
  <2>1. /\ Cardinality(N) \in Nat /\ n \in Nat /\ Cardinality(N \ G) \in Nat
        /\ Cardinality(N \ G) = Cardinality(N) - n
        /\ Cardinality(N \ G) = 0 <=> N \ G = {}
    BY <1>3, <1>4, SetMinus
  <2> QED
    BY <1>5, <2>1
<1>7. SlabSlots \in Nat /\ Cls \intersect {"free", "detached"} = {} /\ Immediate \subseteq Cls
  BY ZeAssumption DEF Cls
<1>8. N \union {a \in {} : a[1] = b} = N
  OBVIOUS
<1>9. CASE s.owner \in Immediate
  <2>1. s.n_held = Cardinality(N) /\ (~IsTail(t, b) => s.n_held > 0)
    BY <1>1, <1>8, <1>9 DEF HeldExact
  <2>2. r = IF s.n_held = n /\ ~IsTail(t, b) THEN NoSlab ELSE [s EXCEPT !.n_held = @ - n]
    <3>1. s.owner # "detached"
      BY <1>7, <1>9
    <3> QED
      BY <1>9, <3>1 DEF SlabDrained
  <2>3. s.owner # "detached" /\ s.owner # "free"
    BY <1>7, <1>9
  <2>4. CASE s.n_held = n /\ ~IsTail(t, b)
    <3>1. r = NoSlab /\ k = 0
      BY <1>6, <2>1, <2>2, <2>4
    <3>2. NoSlab.owner = "free" /\ NoSlab \in SlabRecords
      BY NewTypes DEF NoSlab
    <3> QED
      BY <1>6, <1>7, <1>9, <2>4, <3>1, <3>2
  <2>5. CASE ~(s.n_held = n /\ ~IsTail(t, b))
    <3>1. r = [s EXCEPT !.n_held = s.n_held - n]
      BY <2>2, <2>5
    <3>2. s.n_held - n = k /\ k \in 0 .. SlabSlots /\ k <= s.n_held
      BY <1>2, <1>6, <1>7, <2>1
    <3>3. r \in SlabRecords /\ r.owner = s.owner /\ r.n_used = s.n_used /\ r.n_held = k
      BY <1>2, <3>1, <3>2 DEF SlabRecords
    <3>4. ~IsTail(t, b) => k > 0
      BY <1>6, <2>1, <2>5, <3>2
    <3> QED
      BY <2>3, <3>2, <3>3, <3>4
  <2> QED
    BY <2>4, <2>5
<1>10. CASE s.owner = "detached"
  <2>1. s.n_pinned = Cardinality(N) /\ s.owner \notin Immediate
    BY <1>1, <1>7, <1>10 DEF HeldExact
  <2>2. r = IF s.n_pinned = n THEN NoSlab ELSE [s EXCEPT !.n_pinned = @ - n]
    BY <1>10, <2>1 DEF SlabDrained
  <2>4. CASE s.n_pinned = n
    <3>1. r = NoSlab /\ k = 0
      BY <1>6, <2>1, <2>2, <2>4
    <3>2. NoSlab.owner = "free" /\ NoSlab \in SlabRecords
      BY NewTypes DEF NoSlab
    <3> QED
      BY <1>6, <1>7, <1>10, <2>1, <3>1, <3>2
  <2>5. CASE s.n_pinned # n
    <3>1. r = [s EXCEPT !.n_pinned = s.n_pinned - n]
      BY <2>2, <2>5
    <3>2. s.n_pinned - n = k /\ k \in 0 .. SlabSlots /\ k > 0
      BY <1>2, <1>6, <1>7, <2>1, <2>5
    <3>3. r \in SlabRecords /\ r.owner = s.owner /\ r.n_used = s.n_used /\ r.n_pinned = k
          /\ r.n_held = s.n_held
      BY <1>2, <3>1, <3>2 DEF SlabRecords
    <3> QED
      BY <1>2, <1>10, <2>1, <3>2, <3>3
  <2> QED
    BY <2>4, <2>5
<1>11. CASE s.owner \notin Immediate /\ s.owner # "detached"
  <2>1. r = s
    BY <1>11 DEF SlabDrained
  <2> QED
    BY <1>2, <1>11, <2>1
<1> QED
  BY <1>9, <1>10, <1>11

LEMMA DrainShape ==
  ASSUME NEW t, NEW D
  PROVE  LET u == DrainAll(t, D)
             gone == Unreferenced(t, D)
         IN
         /\ u = [cl |-> u.cl, slab |-> u.slab, slot |-> u.slot, latest |-> u.latest,
                 kts |-> u.kts]
         /\ u.slab = [b \in Slabs |-> SlabDrained(t, gone, b)]
         /\ u.slot = [a \in Addrs |-> IF u.slab[a[1]] = NoSlab THEN NoSlot
                                      ELSE SlotDrained(t, D, gone, a)]
         /\ u.cl = [c \in Cls |->
              IF t.cl[c] = None THEN None
              ELSE [t.cl[c] EXCEPT
                      !.n_live = @ - Cardinality({a \in D : Owner(t, a) = c}),
                      !.live_slots = Without(@, D)]]
         /\ u.latest = Forget(t, D)
         /\ u.kts = t.kts \union
              ({t.slot[a].attr : a \in {d \in D : t.slot[d].inj}} \intersect Timed)
BY DEF DrainAll

LEMMA DrainedSlot ==
  ASSUME NEW t, Sound(t, {}), NEW D, D \subseteq Live(t), NEW a \in Addrs
  PROVE  LET u == DrainAll(t, D) IN
         /\ u.slot[a] \in Slots
         /\ u.slot[a].live <=> t.slot[a].live /\ a \notin D
         /\ u.slot[a].refs = t.slot[a].refs - Edges(t, D, a)
         /\ u.slot[a].live => u.slot[a].preds = t.slot[a].preds /\ u.slot[a].attr = t.slot[a].attr
         /\ a[2] > u.slab[a[1]].n_used => u.slot[a] = NoSlot
         /\ u.slot[a].live => u.slab[a[1]].owner = t.slab[a[1]].owner
<1> DEFINE u == DrainAll(t, D)
           gone == Unreferenced(t, D)
           s == t.slot[a]
           e == Edges(t, D, a)
           b == a[1]
<1>1. t \in Tracers /\ SlotKnown(t, a) /\ b \in Slabs
  BY SoundFacts, AddrFacts
<1>2. /\ e \in Nat /\ s.refs \in Nat /\ s.refs - e \in Nat
      /\ a \in gone => s.refs = e /\ (a \in D \/ ~s.live)
      /\ a \in gone => a \in Needed(t, b)
      /\ a \in Left(t, D, b) <=> (s.live /\ a \notin D) \/ s.refs - e > 0
  BY DrainedSlots
<1>3. s \in Slots /\ s.live \in BOOLEAN /\ s.preds \in SUBSET ((0 .. MaxWaits) \X Addrs)
  BY <1>1, SlotTypes
<1>4. /\ u.slab[b] = SlabDrained(t, gone, b)
      /\ u.slot[a] = IF u.slab[b] = NoSlab THEN NoSlot ELSE SlotDrained(t, D, gone, a)
  <2>1. u.slab = [x \in Slabs |-> SlabDrained(t, gone, x)]
    BY DEF DrainAll
  <2>2. u.slot = [x \in Addrs |-> IF u.slab[x[1]] = NoSlab THEN NoSlot
                                     ELSE SlotDrained(t, D, gone, x)]
    BY DEF DrainAll
  <2> HIDE DEF u, gone
  <2> QED
    BY <1>1, <2>1, <2>2
<1>5. \/ u.slab[b] = NoSlab /\ t.slab[b].owner \in Immediate \union {"detached"}
         /\ Left(t, D, b) = {}
      \/ u.slab[b].owner = t.slab[b].owner /\ u.slab[b].n_used = t.slab[b].n_used
         /\ (t.slab[b].owner = "free" => u.slab[b] = t.slab[b])
  BY <1>1, <1>4, DrainedSlab
<1>6. /\ a[2] > t.slab[b].n_used => s = NoSlot
      /\ s.live => t.slab[b].owner \in Cls
      /\ SlabKnown(t, b)
  BY <1>1, SoundFacts DEF SlotKnown, Owner
<1>7. a[2] \in 1 .. SlabSlots /\ SlabSlots \in Nat
  BY AddrFacts, ZeAssumption
<1>8. NoSlab.n_used = 0 /\ NoSlab.owner = "free" /\ NoSlot \in Slots
      /\ NoSlot.live = FALSE /\ NoSlot.refs = 0
  BY NewTypes DEF NoSlab, NoSlot
<1>9. CASE u.slab[b] = NoSlab
  <2>1. u.slot[a] = NoSlot
    BY <1>4, <1>9
  <2>2. a \notin Left(t, D, b)
    <3>1. CASE Left(t, D, b) = {}
      BY <3>1
    <3>2. CASE t.slab[b].owner = "free"
      <4>1. t.slab[b] = NoSlab
        BY <1>6, <3>2 DEF SlabKnown
      <4>2. s = NoSlot
        BY <1>6, <1>7, <1>8, <4>1
      <4> QED
        BY <1>2, <1>8, <4>2
    <3> QED
      BY <1>5, <1>8, <1>9, <3>1, <3>2
  <2>3. ~(s.live /\ a \notin D) /\ s.refs - e = 0
    BY <1>2, <2>2
  <2> QED
    BY <1>8, <2>1, <2>3
<1>10. CASE u.slab[b] # NoSlab
  <2> DEFINE r == [s EXCEPT !.refs = s.refs - e,
                            !.live = s.live /\ a \notin D,
                            !.preds = IF a \in D THEN {} ELSE s.preds,
                            !.device = IF a \in D THEN "recorded" ELSE s.device]
  <2>1. u.slot[a] = IF a \in gone /\ Owner(t, a) \in Immediate
                    THEN [r EXCEPT !.inj = FALSE, !.attr = None, !.waits = <<>>] ELSE r
    BY <1>4, <1>10 DEF SlotDrained
  <2>2. {} \in SUBSET ((0 .. MaxWaits) \X Addrs) /\ <<>> \in WaitLists
    BY NewTypes DEF NoSlot, Slots
  <2>3. /\ r \in Slots /\ r.live = (s.live /\ a \notin D) /\ r.refs = s.refs - e
        /\ a \notin D => r.preds = s.preds
        /\ r.attr = s.attr
    BY <1>2, <1>3, <2>2 DEF Slots
  <2>4. u.slab[b].owner = t.slab[b].owner /\ u.slab[b].n_used = t.slab[b].n_used
    BY <1>5, <1>10
  <2>5. ASSUME a[2] > u.slab[b].n_used PROVE u.slot[a] = NoSlot
    <3>1. s = NoSlot
      BY <1>6, <2>4, <2>5
    <3>2. a \notin Needed(t, b)
      BY <1>8, <3>1 DEF Needed
    <3>3. u.slot[a] = r /\ a \notin D /\ s.refs - e = 0
      <4>1. a \notin gone
        BY <1>2, <3>2
      <4>2. e = 0 /\ a \notin D
        BY <1>2, <1>8, <3>1 DEF Live
      <4> QED
        BY <1>2, <1>8, <2>1, <3>1, <4>1, <4>2
    <3>4. r = s
      BY <1>3, <1>8, <3>1, <3>3 DEF NoSlot
    <3> QED
      BY <3>1, <3>3, <3>4
  <2> HIDE DEF r
  <2>6. CASE a \in gone /\ Owner(t, a) \in Immediate
    <3>1. u.slot[a] = [r EXCEPT !.inj = FALSE, !.attr = None, !.waits = <<>>]
      BY <2>1, <2>6
    <3>2. u.slot[a] \in Slots /\ u.slot[a].live = r.live /\ u.slot[a].refs = r.refs
      BY <2>2, <2>3, <3>1 DEF Slots
    <3>3. ~r.live
      BY <1>2, <2>3, <2>6
    <3> QED
      BY <2>3, <2>4, <2>5, <3>2, <3>3
  <2>7. CASE ~(a \in gone /\ Owner(t, a) \in Immediate)
    <3>1. u.slot[a] = r
      BY <2>1, <2>7
    <3> QED
      BY <2>3, <2>4, <2>5, <3>1
  <2> QED
    BY <2>6, <2>7
<1> QED
  BY <1>9, <1>10

\* A drain of live slots keeps the invariant, and ends their lives only.
LEMMA DrainSound ==
  ASSUME NEW t, Sound(t, {}), NEW D, D \subseteq Live(t)
  PROVE  LET u == DrainAll(t, D) IN
         /\ Sound(u, {})
         /\ Live(u) = Live(t) \ D
         /\ \A c \in Cls : (u.cl[c] = None) <=> (t.cl[c] = None)
<1> DEFINE u == DrainAll(t, D)
           gone == Unreferenced(t, D)
<1>1. /\ t \in Tracers
      /\ \A a \in Addrs : t.slot[a].refs = Edges(t, Live(t), a)
      /\ \A c \in Cls : t.cl[c] # None => ListExact(t, c)
      /\ \A b \in Slabs : SlabKnown(t, b)
      /\ \A a \in Addrs : SlotKnown(t, a)
      /\ \A b \in Slabs : HeldExact(t, {}, b)
      /\ LatestLive(t)
  BY SoundFacts
<1>2. /\ u = [cl |-> u.cl, slab |-> u.slab, slot |-> u.slot, latest |-> u.latest,
              kts |-> u.kts]
      /\ u.slab = [b \in Slabs |-> SlabDrained(t, gone, b)]
      /\ u.slot = [a \in Addrs |-> IF u.slab[a[1]] = NoSlab THEN NoSlot
                                   ELSE SlotDrained(t, D, gone, a)]
      /\ u.cl = [c \in Cls |->
           IF t.cl[c] = None THEN None
           ELSE [t.cl[c] EXCEPT
                   !.n_live = @ - Cardinality({a \in D : Owner(t, a) = c}),
                   !.live_slots = Without(@, D)]]
      /\ u.latest = Forget(t, D)
      /\ u.kts = t.kts \union
           ({t.slot[a].attr : a \in {d \in D : t.slot[d].inj}} \intersect Timed)
  BY DrainShape
<1>3. \A a \in Addrs :
         /\ u.slot[a] \in Slots
         /\ u.slot[a].live <=> t.slot[a].live /\ a \notin D
         /\ u.slot[a].refs = t.slot[a].refs - Edges(t, D, a)
         /\ u.slot[a].live => u.slot[a].preds = t.slot[a].preds /\ u.slot[a].attr = t.slot[a].attr
         /\ a[2] > u.slab[a[1]].n_used => u.slot[a] = NoSlot
         /\ u.slot[a].live => u.slab[a[1]].owner = t.slab[a[1]].owner
  BY DrainedSlot
<1>4. \A b \in Slabs :
         /\ u.slab[b] \in SlabRecords
         /\ \/ u.slab[b] = NoSlab /\ t.slab[b].owner \in Immediate \union {"detached"}
               /\ (t.slab[b].owner \in Immediate => ~IsTail(t, b))
            \/ u.slab[b].owner = t.slab[b].owner /\ u.slab[b].n_used = t.slab[b].n_used
               /\ u.slab[b].n_held <= t.slab[b].n_held
               /\ (t.slab[b].owner = "free" => u.slab[b] = t.slab[b])
         /\ u.slab[b].owner \in Immediate =>
              /\ u.slab[b].n_held = Cardinality(Left(t, D, b))
              /\ ~IsTail(t, b) => u.slab[b].n_held > 0
         /\ u.slab[b].owner = "detached" =>
              u.slab[b].n_pinned = Cardinality(Left(t, D, b)) /\ u.slab[b].n_pinned > 0
  <2> TAKE b \in Slabs
  <2>1. u.slab[b] = SlabDrained(t, gone, b)
    BY <1>2
  <2> HIDE DEF u
  <2> QED
    BY <2>1, DrainedSlab
<1> HIDE DEF u, gone
<1>5. Live(t) \subseteq Addrs /\ IsFiniteSet(Live(t)) /\ D \subseteq Addrs /\ IsFiniteSet(D)
  BY <1>1, LiveFacts, FS_Subset
<1>6. Live(u) = Live(t) \ D
  BY <1>3, <1>5 DEF Live
<1>7. NoSlab.n_used = 0 /\ NoSlab.n_held = 0 /\ NoSlab.owner = "free"
  BY DEF NoSlab
<1>8. Cls \intersect {"free", "detached"} = {} /\ Immediate \subseteq Cls
  BY ZeAssumption DEF Cls
<1>9. \A c \in Cls : LiveOf(u, c) = LiveOf(t, c) \ {a \in D : Owner(t, a) = c}
  <2>1. \A a \in Live(u) : u.slab[a[1]].owner = t.slab[a[1]].owner
    BY <1>3, <1>5, <1>6 DEF Live
  <2> QED
    BY <1>6, <2>1 DEF LiveOf, Owner
<1>10. \A c \in Cls : /\ (u.cl[c] = None) <=> (t.cl[c] = None)
                      /\ t.cl[c] # None => /\ u.cl[c] \in CommandLists
                                           /\ ListExact(u, c)
                                           /\ u.cl[c].tail = t.cl[c].tail
  <2> TAKE c \in Cls
  <2>1. CASE t.cl[c] = None
    BY <1>2, <2>1
  <2>2. CASE t.cl[c] # None
    <3> DEFINE l == t.cl[c]
               gc == {a \in D : Owner(t, a) = c}
               k == l.n_live - Cardinality(gc)
               w == Without(l.live_slots, D)
    <3>1. u.cl[c] = [l EXCEPT !.n_live = k, !.live_slots = w]
      BY <1>2, <2>2
    <3>2. l \in CommandLists /\ l.n_live \in Nat /\ l.live_slots \in Seq(Addrs)
          /\ l.tail \in Slabs \union {None}
      BY <1>1, <2>2, ListTypes
    <3>3. l.n_live = Cardinality(LiveOf(t, c))
      BY <1>1, <2>2 DEF ListExact
    <3>4. IsFiniteSet(LiveOf(t, c)) /\ gc \subseteq LiveOf(t, c)
      BY <1>5, FS_Subset DEF LiveOf
    <3>5. k \in Nat /\ k = Cardinality(LiveOf(u, c))
      <4>1. /\ Cardinality(LiveOf(t, c) \ gc) \in Nat
            /\ Cardinality(LiveOf(t, c) \ gc) = Cardinality(LiveOf(t, c)) - Cardinality(gc)
        BY <3>4, SetMinus
      <4> QED
        BY <1>9, <3>3, <4>1
    <3>6. /\ w \in Seq(Addrs) /\ ToSet(w) = ToSet(l.live_slots) \ D
          /\ Injective(l.live_slots) => Injective(w)
      BY <3>2, WithoutFacts
    <3> HIDE DEF k, w
    <3>7. /\ u.cl[c] \in CommandLists
          /\ u.cl[c].n_live = k /\ u.cl[c].live_slots = w /\ u.cl[c].tail = l.tail
      BY <3>1, <3>2, <3>5, <3>6 DEF CommandLists
    <3>8. u.cl[c] # None
      BY <3>7, NewTypes
    <3>9. c \in InOrder => ToSet(w) = LiveOf(u, c) /\ Injective(w)
      <4> SUFFICES ASSUME c \in InOrder PROVE ToSet(w) = LiveOf(u, c) /\ Injective(w)
        OBVIOUS
      <4>1. ToSet(l.live_slots) = LiveOf(t, c) /\ Injective(l.live_slots)
        BY <1>1, <2>2 DEF ListExact
      <4>2. LiveOf(t, c) \ D = LiveOf(t, c) \ gc
        BY DEF LiveOf
      <4> QED
        BY <1>9, <3>6, <4>1, <4>2
    <3>10. l.tail # None => u.slab[l.tail].owner = c
      <4> SUFFICES ASSUME l.tail # None PROVE u.slab[l.tail].owner = c
        OBVIOUS
      <4>1. t.slab[l.tail].owner = c /\ l.tail \in Slabs
        BY <1>1, <2>2, <3>2 DEF ListExact
      <4>2. IsTail(t, l.tail)
        BY <4>1 DEF IsTail
      <4> QED
        BY <1>4, <1>8, <4>1, <4>2
    <3> QED
      BY <2>2, <3>5, <3>7, <3>8, <3>9, <3>10 DEF ListExact
  <2> QED
    BY <2>1, <2>2
<1>11. \A b \in Slabs : SlabKnown(u, b)
  <2> TAKE b \in Slabs
  <2>1. SlabKnown(t, b) /\ t.slab[b].owner \in Cls \union {"free", "detached"}
        /\ t.slab[b].n_held \in Nat /\ t.slab[b].n_used \in Nat /\ u.slab[b].n_held \in Nat
    <3>1. \A x \in SlabRecords : x.n_held \in Nat /\ x.n_used \in Nat
                                 /\ x.owner \in Cls \union {"free", "detached"}
      BY DEF SlabRecords
    <3>2. t.slab[b] \in SlabRecords
      BY <1>1, SlabTypes
    <3> QED
      BY <1>1, <1>4, <3>1, <3>2
  <2>2. CASE u.slab[b] = NoSlab
    BY <1>7, <1>8, <2>2 DEF SlabKnown
  <2>3. CASE u.slab[b].owner = t.slab[b].owner /\ u.slab[b].n_used = t.slab[b].n_used
             /\ u.slab[b].n_held <= t.slab[b].n_held
             /\ (t.slab[b].owner = "free" => u.slab[b] = t.slab[b])
    BY <1>10, <2>1, <2>3 DEF SlabKnown
  <2> QED
    BY <1>4, <2>2, <2>3
<1>12. \A a \in Addrs : SlotKnown(u, a)
  <2> TAKE a \in Addrs
  <2>1. u.slot[a].live => Owner(u, a) \in Cls
    BY <1>1, <1>3 DEF SlotKnown, Owner
  <2> QED
    BY <1>3, <2>1 DEF SlotKnown
<1>13. \A b \in Slabs : Needed(u, b) = Left(t, D, b)
  <2> TAKE b \in Slabs
  <2>1. ASSUME NEW a \in Addrs, a[1] = b
        PROVE  a \in Left(t, D, b) <=> u.slot[a].live \/ u.slot[a].refs > 0
    <3>1. a \in Left(t, D, b)
            <=> (t.slot[a].live /\ a \notin D) \/ t.slot[a].refs - Edges(t, D, a) > 0
      BY <2>1, DrainedSlots
    <3> QED
      BY <1>3, <3>1
  <2>2. Left(t, D, b) \subseteq {a \in Addrs : a[1] = b}
    BY DEF Left, Needed
  <2> QED
    BY <2>1, <2>2 DEF Needed
<1>14. \A b \in Slabs : HeldExact(u, {}, b)
  <2> TAKE b \in Slabs
  <2>1. u.slab[b].owner \in Immediate => (IsTail(u, b) <=> IsTail(t, b))
    <3> SUFFICES ASSUME u.slab[b].owner \in Immediate PROVE IsTail(u, b) <=> IsTail(t, b)
      OBVIOUS
    <3>1. t.slab[b].owner = u.slab[b].owner /\ t.slab[b].owner \in Cls
      BY <1>4, <1>7, <1>8
    <3>2. t.cl[t.slab[b].owner] # None
      BY <1>1, <3>1 DEF SlabKnown
    <3> QED
      BY <1>10, <3>1, <3>2 DEF IsTail
  <2>2. Needed(u, b) \union {a \in {} : a[1] = b} = Left(t, D, b)
    BY <1>13
  <2> QED
    BY <1>4, <1>13, <2>1, <2>2 DEF HeldExact
<1>15. RefsExact(u)
  <2> SUFFICES ASSUME NEW a \in Addrs PROVE u.slot[a].refs = Edges(u, Live(u), a)
    BY DEF RefsExact
  <2>1. t.slot[a].refs - Edges(t, D, a) = Edges(t, Live(t) \ D, a)
    BY DrainedSlots
  <2>2. \A s \in Live(u) : u.slot[s].preds = t.slot[s].preds
    BY <1>3 DEF Live
  <2>3. Edges(u, Live(u), a) = Edges(t, Live(u), a)
    BY <2>2, EdgesSame
  <2> QED
    BY <1>3, <1>6, <2>1, <2>3
<1>16. LatestLive(u)
  <2> SUFFICES ASSUME NEW e \in Events, u.latest[e] # None
               PROVE  u.latest[e] \in Live(u) /\ u.slot[u.latest[e]].attr = e
    BY DEF LatestLive
  <2>1. u.latest[e] = t.latest[e] /\ t.latest[e] \notin D
    BY <1>2 DEF Forget
  <2>2. t.latest[e] \in Live(t) /\ t.slot[t.latest[e]].attr = e
    BY <1>1, <2>1 DEF LatestLive
  <2> QED
    BY <1>3, <1>6, <2>1, <2>2 DEF Live
<1>17. u \in Tracers
  <2>1. u.slab \in [Slabs -> SlabRecords]
    BY <1>2, <1>4
  <2>2. u.slot \in [Addrs -> Slots]
    BY <1>2, <1>3
  <2>3. u.cl \in [Cls -> CommandLists \union {None}]
    BY <1>2, <1>10
  <2>4. u.latest \in [Events -> Addrs \union {None}]
    <3>1. t.latest \in [Events -> Addrs \union {None}]
      BY <1>1, TracerTypes
    <3>2. u.latest = [e \in Events |-> IF t.latest[e] \in D THEN None ELSE t.latest[e]]
      BY <1>2 DEF Forget
    <3> QED
      BY <3>1, <3>2
  <2>5. u.kts \in SUBSET Timed
    BY <1>1, <1>2, TracerTypes
  <2> QED
    BY <1>2, <2>1, <2>2, <2>3, <2>4, <2>5 DEF Tracers
<1> QED
  BY <1>6, <1>10, <1>11, <1>12, <1>14, <1>15, <1>16, <1>17 DEF Sound, u

-----------------------------------------------------------------------------
(* Steps that touch no edge and no slab. *)

SameEdges(t, u) ==
  /\ u.slab = t.slab
  /\ \A a \in Addrs : /\ u.slot[a].live = t.slot[a].live
                      /\ u.slot[a].refs = t.slot[a].refs
                      /\ t.slot[a].live => /\ u.slot[a].preds = t.slot[a].preds
                                           /\ u.slot[a].attr = t.slot[a].attr
                      /\ t.slot[a] = NoSlot => u.slot[a] = NoSlot
  /\ \A c \in Cls : /\ u.cl[c] = None <=> t.cl[c] = None
                    /\ t.cl[c] # None => /\ u.cl[c].tail = t.cl[c].tail
                                         /\ u.cl[c].n_live = t.cl[c].n_live
                                         /\ u.cl[c].live_slots = t.cl[c].live_slots
  /\ \A e \in Events : u.latest[e] \in {t.latest[e], None}

LEMMA FrameSound ==
  ASSUME NEW t, NEW X, Sound(t, X), NEW u \in Tracers, SameEdges(t, u)
  PROVE  Sound(u, X) /\ Live(u) = Live(t)
<1>a. u.slab = t.slab
  BY DEF SameEdges
<1>b. \A a \in Addrs : /\ u.slot[a].live = t.slot[a].live
                       /\ u.slot[a].refs = t.slot[a].refs
                       /\ t.slot[a].live => /\ u.slot[a].preds = t.slot[a].preds
                                            /\ u.slot[a].attr = t.slot[a].attr
                       /\ t.slot[a] = NoSlot => u.slot[a] = NoSlot
  BY DEF SameEdges
<1>c. \A c \in Cls : /\ u.cl[c] = None <=> t.cl[c] = None
                     /\ t.cl[c] # None => /\ u.cl[c].tail = t.cl[c].tail
                                          /\ u.cl[c].n_live = t.cl[c].n_live
                                          /\ u.cl[c].live_slots = t.cl[c].live_slots
  BY DEF SameEdges
<1>d. \A e \in Events : u.latest[e] \in {t.latest[e], None}
  BY DEF SameEdges
<1>1. /\ t \in Tracers
      /\ \A a \in Addrs : t.slot[a].refs = Edges(t, Live(t), a)
      /\ \A c \in Cls : t.cl[c] # None => ListExact(t, c)
      /\ \A b \in Slabs : SlabKnown(t, b)
      /\ \A a \in Addrs : SlotKnown(t, a)
      /\ \A b \in Slabs : HeldExact(t, X, b)
      /\ LatestLive(t)
  BY SoundFacts
<1>2. Live(u) = Live(t)
  BY <1>b DEF Live
<1>3. \A a \in Addrs : Owner(u, a) = Owner(t, a)
  BY <1>a DEF Owner
<1>4. \A c \in Cls : LiveOf(u, c) = LiveOf(t, c)
  BY <1>b, <1>2, <1>3 DEF LiveOf, Live
<1>5. \A c \in Cls : u.cl[c] # None => ListExact(u, c)
  <2> SUFFICES ASSUME NEW c \in Cls, u.cl[c] # None PROVE ListExact(u, c)
    OBVIOUS
  <2>1. t.cl[c] # None /\ ListExact(t, c)
    BY <1>c, <1>1
  <2> QED
    BY <1>a, <1>c, <1>4, <2>1 DEF ListExact
<1>6. RefsExact(u)
  <2> SUFFICES ASSUME NEW a \in Addrs PROVE u.slot[a].refs = Edges(u, Live(u), a)
    BY DEF RefsExact
  <2>1. \A s \in Live(t) : u.slot[s].preds = t.slot[s].preds
    BY <1>b DEF Live
  <2>2. Edges(u, Live(t), a) = Edges(t, Live(t), a)
    BY <2>1, EdgesSame
  <2> QED
    BY <1>b, <1>1, <1>2, <2>2
<1>7. \A b \in Slabs : SlabKnown(u, b)
  BY <1>a, <1>c, <1>1 DEF SlabKnown
<1>8. \A a \in Addrs : SlotKnown(u, a)
  BY <1>a, <1>b, <1>1, <1>3 DEF SlotKnown
<1>9. \A b \in Slabs : HeldExact(u, X, b)
  <2> TAKE b \in Slabs
  <2>1. Needed(u, b) = Needed(t, b)
    BY <1>b DEF Needed
  <2>2. t.slab[b].owner \in Immediate => (IsTail(u, b) <=> IsTail(t, b))
    <3>1. t.slab[b].owner \in Immediate => t.cl[t.slab[b].owner] # None
                                           /\ t.slab[b].owner \in Cls
      BY <1>1 DEF SlabKnown, Cls
    <3> QED
      BY <1>a, <1>c, <3>1 DEF IsTail
  <2> QED
    BY <1>a, <1>1, <2>1, <2>2 DEF HeldExact
<1>10. LatestLive(u)
  <2> SUFFICES ASSUME NEW e \in Events, u.latest[e] # None
               PROVE  u.latest[e] \in Live(u) /\ u.slot[u.latest[e]].attr = e
    BY DEF LatestLive
  <2>1. u.latest[e] = t.latest[e] /\ t.latest[e] \in Live(t) /\ t.slot[t.latest[e]].attr = e
    BY <1>d, <1>1 DEF LatestLive
  <2> QED
    BY <1>b, <1>2, <2>1 DEF Live
<1> QED
  BY <1>2, <1>5, <1>6, <1>7, <1>8, <1>9, <1>10 DEF Sound

\* A slot on a list that the tracer does not know is not live.
LEMMA UnknownList ==
  ASSUME NEW t, NEW X, Sound(t, X), NEW c \in Cls, t.cl[c] = None
  PROVE  LiveOf(t, c) = {} /\ \A b \in Slabs : t.slab[b].owner # c
<1>1. \A b \in Slabs : SlabKnown(t, b)
  BY SoundFacts
<1>2. \A b \in Slabs : t.slab[b].owner # c
  BY <1>1 DEF SlabKnown
<1> QED
  BY <1>2, AddrFacts DEF LiveOf, Owner, Live

LEMMA LandSound ==
  ASSUME NEW t, NEW X, Sound(t, X), NEW L, L \subseteq Cls, \A c \in L : t.cl[c] # None
  PROVE  /\ Sound(Land(t, L), X)
         /\ Live(Land(t, L)) = Live(t)
         /\ Land(t, L).slab = t.slab
         /\ Land(t, L).slot = t.slot /\ Land(t, L).latest = t.latest /\ Land(t, L).kts = t.kts
         /\ \A c \in Cls : Land(t, L).cl[c] = None <=> t.cl[c] = None
         /\ \A c \in Cls : t.cl[c] # None => Land(t, L).cl[c].tail = t.cl[c].tail
         /\ \A c \in L : /\ Land(t, L).cl[c].in_flight_q = None
                         /\ Land(t, L).cl[c].in_flight_fence = None
         /\ \A c \in Cls \ L : Land(t, L).cl[c] = t.cl[c]
<1> DEFINE u == Land(t, L)
<1>1. t \in Tracers
  BY SoundFacts
<1>2. /\ t = [cl |-> t.cl, slab |-> t.slab, slot |-> t.slot, latest |-> t.latest,
              kts |-> t.kts]
      /\ t.cl \in [Cls -> CommandLists \union {None}]
      /\ t.slab \in [Slabs -> SlabRecords] /\ t.slot \in [Addrs -> Slots]
      /\ t.latest \in [Events -> Addrs \union {None}] /\ t.kts \in SUBSET Timed
  BY <1>1, TracerTypes
<1> DEFINE cls == [c \in Cls |->
           IF c \in L THEN [t.cl[c] EXCEPT !.in_flight_q = None, !.in_flight_fence = None]
           ELSE t.cl[c]]
<1>a. u = [t EXCEPT !.cl = cls]
  BY DEF Land
<1> HIDE DEF u, cls
<1>b. u = [cl |-> cls, slab |-> t.slab, slot |-> t.slot, latest |-> t.latest, kts |-> t.kts]
  BY <1>2, <1>a
<1>c. u.cl = cls /\ u.slab = t.slab /\ u.slot = t.slot /\ u.latest = t.latest /\ u.kts = t.kts
  BY <1>b
<1>3. /\ \A c \in Cls : u.cl[c] =
           IF c \in L THEN [t.cl[c] EXCEPT !.in_flight_q = None, !.in_flight_fence = None]
           ELSE t.cl[c]
      /\ u.slab = t.slab /\ u.slot = t.slot /\ u.latest = t.latest /\ u.kts = t.kts
  BY <1>c DEF cls
<1>4. \A c \in Cls : /\ u.cl[c] \in CommandLists \union {None}
                     /\ u.cl[c] = None <=> t.cl[c] = None
                     /\ t.cl[c] # None => /\ u.cl[c].tail = t.cl[c].tail
                                          /\ u.cl[c].n_live = t.cl[c].n_live
                                          /\ u.cl[c].live_slots = t.cl[c].live_slots
  <2> TAKE c \in Cls
  <2>1. CASE c \in L
    <3>1. t.cl[c] \in CommandLists
      BY <1>2, <2>1
    <3>2. u.cl[c] = [t.cl[c] EXCEPT !.in_flight_q = None, !.in_flight_fence = None]
      BY <1>3, <2>1
    <3>3. u.cl[c] \in CommandLists /\ u.cl[c].tail = t.cl[c].tail
          /\ u.cl[c].n_live = t.cl[c].n_live /\ u.cl[c].live_slots = t.cl[c].live_slots
      BY <3>1, <3>2 DEF CommandLists
    <3> QED
      BY <2>1, <3>3, NewTypes
  <2>2. CASE c \notin L
    BY <1>2, <1>3, <2>2
  <2> QED
    BY <2>1, <2>2
<1>5. cls \in [Cls -> CommandLists \union {None}]
  <2>1. \A c \in Cls : cls[c] \in CommandLists \union {None}
    BY <1>4, <1>c
  <2> QED
    BY <2>1 DEF cls
<1>6. u \in Tracers
  BY <1>2, <1>b, <1>5 DEF Tracers
<1>7. Sound(u, X) /\ Live(u) = Live(t)
  <2>1. \A x \in Addrs : /\ u.slot[x].live = t.slot[x].live
                         /\ u.slot[x].refs = t.slot[x].refs
                         /\ t.slot[x].live => /\ u.slot[x].preds = t.slot[x].preds
                                              /\ u.slot[x].attr = t.slot[x].attr
                         /\ t.slot[x] = NoSlot => u.slot[x] = NoSlot
    BY <1>c
  <2>2. \A c \in Cls : /\ u.cl[c] = None <=> t.cl[c] = None
                       /\ t.cl[c] # None => /\ u.cl[c].tail = t.cl[c].tail
                                            /\ u.cl[c].n_live = t.cl[c].n_live
                                            /\ u.cl[c].live_slots = t.cl[c].live_slots
    BY <1>4
  <2>3. u.slab = t.slab /\ \A e \in Events : u.latest[e] \in {t.latest[e], None}
    BY <1>c
  <2>4. SameEdges(t, u)
    BY <2>1, <2>2, <2>3 DEF SameEdges
  <2> QED
    BY <1>6, <2>4, FrameSound
<1>8. \A c \in L : u.cl[c].in_flight_q = None /\ u.cl[c].in_flight_fence = None
  <2> TAKE c \in L
  <2>1. t.cl[c] \in CommandLists
    BY <1>2
  <2>2. u.cl[c] = [t.cl[c] EXCEPT !.in_flight_q = None, !.in_flight_fence = None]
    BY <1>3
  <2> QED
    BY <2>1, <2>2 DEF CommandLists
<1>9. \A c \in Cls \ L : u.cl[c] = t.cl[c]
  BY <1>3
<1> QED
  BY <1>3, <1>4, <1>7, <1>8, <1>9 DEF u

LEMMA CreateSound ==
  ASSUME NEW t, Sound(t, {}), NEW c \in Cls, t.cl[c] = None
  PROVE  Sound([t EXCEPT !.cl[c] = NewCl], {})
<1> DEFINE u == [t EXCEPT !.cl[c] = NewCl]
<1>1. /\ t \in Tracers
      /\ \A a \in Addrs : t.slot[a].refs = Edges(t, Live(t), a)
      /\ \A x \in Cls : t.cl[x] # None => ListExact(t, x)
      /\ \A b \in Slabs : SlabKnown(t, b)
      /\ \A a \in Addrs : SlotKnown(t, a)
      /\ \A b \in Slabs : HeldExact(t, {}, b)
      /\ LatestLive(t)
  BY SoundFacts
<1>2. /\ t = [cl |-> t.cl, slab |-> t.slab, slot |-> t.slot, latest |-> t.latest,
              kts |-> t.kts]
      /\ t.cl \in [Cls -> CommandLists \union {None}]
  BY <1>1, TracerTypes
<1>3. /\ u.cl = [t.cl EXCEPT ![c] = NewCl]
      /\ u.slab = t.slab /\ u.slot = t.slot /\ u.latest = t.latest /\ u.kts = t.kts
      /\ u = [cl |-> u.cl, slab |-> t.slab, slot |-> t.slot, latest |-> t.latest, kts |-> t.kts]
  BY <1>2
<1> HIDE DEF u
<1>4. u.cl \in [Cls -> CommandLists \union {None}] /\ u.cl[c] = NewCl /\ NewCl # None
      /\ \A x \in Cls : x # c => u.cl[x] = t.cl[x]
  BY <1>2, <1>3, NewTypes
<1>5. u \in Tracers
  BY <1>1, <1>3, <1>4, TracerTypes DEF Tracers
<1>6. /\ Live(u) = Live(t)
      /\ \A a \in Addrs : Owner(u, a) = Owner(t, a)
  BY <1>3 DEF Live, Owner
<1>7. \A x \in Cls : LiveOf(u, x) = LiveOf(t, x)
  BY <1>6 DEF LiveOf, Live
<1>8. ListExact(u, c)
  <2>1. LiveOf(u, c) = {}
    BY <1>7, UnknownList
  <2>2. NewCl.n_live = 0 /\ NewCl.live_slots = <<>> /\ NewCl.tail = None
    BY DEF NewCl
  <2>3. ToSet(<<>>) = {} /\ Injective(<<>>)
    BY DEF ToSet, Injective
  <2> QED
    BY <1>4, <2>1, <2>2, <2>3, FS_EmptySet DEF ListExact
<1>9. \A x \in Cls : u.cl[x] # None => ListExact(u, x)
  <2> SUFFICES ASSUME NEW x \in Cls, x # c, u.cl[x] # None PROVE ListExact(u, x)
    BY <1>8
  <2>1. ListExact(t, x) /\ u.cl[x] = t.cl[x]
    BY <1>1, <1>4
  <2> QED
    BY <1>3, <1>7, <2>1 DEF ListExact
<1>10. RefsExact(u)
  <2> SUFFICES ASSUME NEW a \in Addrs PROVE u.slot[a].refs = Edges(u, Live(u), a)
    BY DEF RefsExact
  <2>1. Edges(u, Live(t), a) = Edges(t, Live(t), a)
    BY <1>3, EdgesSame
  <2> QED
    BY <1>1, <1>3, <1>6, <2>1
<1>11. \A b \in Slabs : SlabKnown(u, b)
  BY <1>1, <1>3, <1>4 DEF SlabKnown
<1>12. \A a \in Addrs : SlotKnown(u, a)
  BY <1>1, <1>3, <1>6 DEF SlotKnown
<1>13. \A b \in Slabs : HeldExact(u, {}, b)
  <2> TAKE b \in Slabs
  <2>1. Needed(u, b) = Needed(t, b)
    BY <1>3 DEF Needed
  <2>2. t.slab[b].owner \in Immediate => (IsTail(u, b) <=> IsTail(t, b))
    <3>1. t.slab[b].owner # c
      BY UnknownList
    <3> QED
      BY <1>3, <1>4, <3>1 DEF IsTail, Cls
  <2> QED
    BY <1>1, <1>3, <2>1, <2>2 DEF HeldExact
<1>14. LatestLive(u)
  BY <1>1, <1>3, <1>6 DEF LatestLive
<1> QED
  BY <1>5, <1>9, <1>10, <1>11, <1>12, <1>13, <1>14 DEF Sound, u

-----------------------------------------------------------------------------
(* Steps that free, detach or take slabs, and leave the live slots alone. *)

LEMMA QuietSound ==
  ASSUME NEW t, NEW X, Sound(t, X), NEW u \in Tracers, NEW Y,
         \A a \in Addrs : /\ u.slot[a].live = t.slot[a].live
                          /\ u.slot[a].refs = t.slot[a].refs
                          /\ t.slot[a].live => /\ u.slot[a].preds = t.slot[a].preds
                                               /\ u.slot[a].attr = t.slot[a].attr
                                               /\ Owner(u, a) = Owner(t, a)
                          /\ a[2] > u.slab[a[1]].n_used => u.slot[a] = NoSlot,
         \A c \in Cls : u.cl[c] # None =>
           /\ u.cl[c].tail # None => u.slab[u.cl[c].tail].owner = c
           /\ \/ /\ t.cl[c] # None
                 /\ u.cl[c].n_live = t.cl[c].n_live
                 /\ u.cl[c].live_slots = t.cl[c].live_slots
              \/ LiveOf(t, c) = {} /\ u.cl[c].n_live = 0 /\ u.cl[c].live_slots = <<>>,
         \A b \in Slabs : SlabKnown(u, b),
         \A b \in Slabs : HeldExact(u, Y, b),
         \A e \in Events : u.latest[e] \in {t.latest[e], None}
  PROVE  Sound(u, Y) /\ Live(u) = Live(t)
<1>1. /\ t \in Tracers
      /\ \A a \in Addrs : t.slot[a].refs = Edges(t, Live(t), a)
      /\ \A c \in Cls : t.cl[c] # None => ListExact(t, c)
      /\ \A a \in Addrs : SlotKnown(t, a)
      /\ LatestLive(t)
  BY SoundFacts
<1>2. Live(u) = Live(t)
  BY DEF Live
<1>3. \A c \in Cls : LiveOf(u, c) = LiveOf(t, c)
  BY <1>2 DEF LiveOf, Live
<1>4. \A c \in Cls : u.cl[c] # None => ListExact(u, c)
  <2> SUFFICES ASSUME NEW c \in Cls, u.cl[c] # None PROVE ListExact(u, c)
    OBVIOUS
  <2>1. u.cl[c].tail # None => u.slab[u.cl[c].tail].owner = c
    OBVIOUS
  <2>2. CASE /\ t.cl[c] # None
             /\ u.cl[c].n_live = t.cl[c].n_live
             /\ u.cl[c].live_slots = t.cl[c].live_slots
    <3>1. ListExact(t, c)
      BY <1>1, <2>2
    <3> QED
      BY <1>3, <2>1, <2>2, <3>1 DEF ListExact
  <2>3. CASE LiveOf(t, c) = {} /\ u.cl[c].n_live = 0 /\ u.cl[c].live_slots = <<>>
    <3>1. ToSet(<<>>) = {} /\ Injective(<<>>) /\ Cardinality({}) = 0
      BY FS_EmptySet DEF ToSet, Injective
    <3> QED
      BY <1>3, <2>1, <2>3, <3>1 DEF ListExact
  <2> QED
    BY <2>2, <2>3
<1>5. RefsExact(u)
  <2> SUFFICES ASSUME NEW a \in Addrs PROVE u.slot[a].refs = Edges(u, Live(u), a)
    BY DEF RefsExact
  <2>1. \A s \in Live(t) : u.slot[s].preds = t.slot[s].preds
    BY DEF Live
  <2>2. Edges(u, Live(t), a) = Edges(t, Live(t), a)
    BY <2>1, EdgesSame
  <2> QED
    BY <1>1, <1>2, <2>2
<1>6. \A a \in Addrs : SlotKnown(u, a)
  BY <1>1 DEF SlotKnown
<1>7. LatestLive(u)
  <2> SUFFICES ASSUME NEW e \in Events, u.latest[e] # None
               PROVE  u.latest[e] \in Live(u) /\ u.slot[u.latest[e]].attr = e
    BY DEF LatestLive
  <2>1. u.latest[e] = t.latest[e] /\ t.latest[e] \in Live(t) /\ t.slot[t.latest[e]].attr = e
    BY <1>1 DEF LatestLive
  <2> QED
    BY <1>2, <2>1 DEF Live
<1> QED
  BY <1>2, <1>4, <1>5, <1>6, <1>7 DEF Sound

\* A slab has at most SlabSlots slots.
LEMMA SlotsPerSlab ==
  ASSUME NEW b \in Slabs, NEW S, S \subseteq {a \in Addrs : a[1] = b}
  PROVE  IsFiniteSet(S) /\ Cardinality(S) \in 0 .. SlabSlots
<1> DEFINE A == {a \in Addrs : a[1] = b}
           I == 1 .. SlabSlots
           f == [i \in I |-> <<b, i>>]
<1>1. SlabSlots \in Nat
  BY ZeAssumption
<1>2. IsFiniteSet(I) /\ Cardinality(I) = SlabSlots
  BY <1>1, FS_Interval
<1>3. f \in [I -> A]
  BY AddrFacts
<1>4. \A a \in A : \E i \in I : f[i] = a
  BY AddrFacts
<1> HIDE DEF f, A, I
<1>5. f \in Surjection(I, A)
  BY <1>3, <1>4, Fun_IsSurj
<1>6. IsFiniteSet(A) /\ Cardinality(A) <= Cardinality(I)
  BY <1>2, <1>5, FS_Surjection
<1>7. S \subseteq A
  BY DEF A
<1>8. IsFiniteSet(S) /\ Cardinality(S) <= Cardinality(A)
  BY <1>6, <1>7, FS_Subset
<1> QED
  BY <1>1, <1>2, <1>6, <1>8, FS_CardinalityType

\* Beyond what a slab has used there is nothing.
LEMMA SlotUsed ==
  ASSUME NEW t, NEW X, Sound(t, X), NEW a \in Addrs, t.slot[a] # NoSlot
  PROVE  a \in SlotsOf(t, Owner(t, a)) /\ t.slab[a[1]].owner # "free"
<1>1. t \in Tracers /\ SlotKnown(t, a) /\ a[1] \in Slabs /\ a[2] \in 1 .. SlabSlots
  BY SoundFacts, AddrFacts
<1>2. t.slab[a[1]].n_used \in 0 .. SlabSlots /\ SlabSlots \in Nat
  BY <1>1, SlabTypes, ZeAssumption
<1>3. a[2] <= t.slab[a[1]].n_used
  BY <1>1, <1>2 DEF SlotKnown
<1>4. t.slab[a[1]].owner # "free"
  <2>1. SlabKnown(t, a[1])
    BY <1>1, SoundFacts
  <2>2. NoSlab.n_used = 0
    BY DEF NoSlab
  <2> QED
    BY <1>1, <1>3, <2>1, <2>2 DEF SlabKnown
<1> QED
  BY <1>3, <1>4 DEF SlotsOf

LEMMA LiveUsed ==
  ASSUME NEW t, NEW X, Sound(t, X)
  PROVE  /\ \A c \in Cls : LiveOf(t, c) \subseteq SlotsOf(t, c)
         /\ \A a \in Live(t) : a \in SlotsOf(t, Owner(t, a))
         /\ \A b \in Slabs : \A a \in Needed(t, b) : t.slot[a] # NoSlot
<1>1. t \in Tracers /\ NoSlot.live = FALSE /\ NoSlot.refs = 0
  BY SoundFacts DEF NoSlot
<1>2. \A a \in Live(t) : a \in Addrs /\ t.slot[a] # NoSlot
  BY <1>1 DEF Live
<1>3. \A a \in Live(t) : a \in SlotsOf(t, Owner(t, a))
  BY <1>2, SlotUsed
<1>4. \A c \in Cls : LiveOf(t, c) \subseteq SlotsOf(t, c)
  BY <1>3 DEF LiveOf
<1>5. \A b \in Slabs : \A a \in Needed(t, b) : t.slot[a] # NoSlot
  BY <1>1 DEF Needed
<1> QED
  BY <1>3, <1>4, <1>5

Disposed(t, S) ==
  [a \in Addrs |-> IF a \in S THEN [t.slot[a] EXCEPT !.inj = FALSE, !.attr = None,
                                                    !.waits = <<>>, !.preds = {}]
                   ELSE t.slot[a]]

LEMMA DisposeShape ==
  ASSUME NEW t \in Tracers, NEW S
  PROVE  LET d == Dispose(t, S) IN
         /\ d.cl = t.cl /\ d.slab = t.slab /\ d.kts = t.kts /\ d.latest = Forget(t, S)
         /\ d = [cl |-> t.cl, slab |-> t.slab, slot |-> d.slot, latest |-> d.latest,
                 kts |-> t.kts]
         /\ d.slot = Disposed(t, S)
         /\ d.latest \in [Events -> Addrs \union {None}]
         /\ \A e \in Events : d.latest[e] \in {t.latest[e], None}
<1> DEFINE d == Dispose(t, S)
           slots == Disposed(t, S)
           last == Forget(t, S)
<1>1. /\ t = [cl |-> t.cl, slab |-> t.slab, slot |-> t.slot, latest |-> t.latest,
              kts |-> t.kts]
      /\ t.latest \in [Events -> Addrs \union {None}]
  BY TracerTypes
<1>2. d = [t EXCEPT !.slot = slots, !.latest = last]
  BY DEF Dispose, Disposed
<1> HIDE DEF d, slots, last
<1>3. d = [cl |-> t.cl, slab |-> t.slab, slot |-> slots, latest |-> last, kts |-> t.kts]
  BY <1>1, <1>2
<1>4. /\ d.cl = t.cl /\ d.slab = t.slab /\ d.kts = t.kts
      /\ d.slot = slots /\ d.latest = last
  BY <1>3
<1>5. d = [cl |-> t.cl, slab |-> t.slab, slot |-> d.slot, latest |-> d.latest, kts |-> t.kts]
  BY <1>3, <1>4
<1>6. last = [e \in Events |-> IF t.latest[e] \in S THEN None ELSE t.latest[e]]
  BY DEF last, Forget
<1>7. /\ last \in [Events -> Addrs \union {None}]
      /\ \A e \in Events : last[e] \in {t.latest[e], None}
  BY <1>1, <1>6
<1>8. d.slot = Disposed(t, S)
  BY <1>4 DEF slots
<1>9. /\ d.latest \in [Events -> Addrs \union {None}]
      /\ \A e \in Events : d.latest[e] \in {t.latest[e], None}
      /\ d.latest = Forget(t, S)
  BY <1>4, <1>7 DEF last
<1> QED
  BY <1>4, <1>5, <1>8, <1>9 DEF d

LEMMA DisposedSlot ==
  ASSUME NEW t \in Tracers, NEW S, NEW a \in Addrs
  PROVE  LET d == Dispose(t, S) IN
         /\ d.slot[a] \in Slots
         /\ d.slot[a].live = t.slot[a].live
         /\ d.slot[a].refs = t.slot[a].refs
         /\ d.slot[a].device = t.slot[a].device
         /\ t.slot[a] = NoSlot => d.slot[a] = NoSlot
         /\ a \notin S => d.slot[a] = t.slot[a]
<1> DEFINE d == Dispose(t, S)
           s == t.slot[a]
<1>1. d.slot = Disposed(t, S)
  BY DisposeShape
<1> HIDE DEF d
<1>2. d.slot[a] = IF a \in S THEN [s EXCEPT !.inj = FALSE, !.attr = None,
                                            !.waits = <<>>, !.preds = {}]
                  ELSE s
  BY <1>1 DEF Disposed
<1>3. s \in Slots
  BY SlotTypes
<1>4. {} \in SUBSET ((0 .. MaxWaits) \X Addrs) /\ <<>> \in WaitLists
  BY NewTypes DEF NoSlot, Slots
<1> HIDE DEF s
<1>5. CASE a \notin S
  BY <1>2, <1>3, <1>5 DEF d, s
<1>6. CASE a \in S
  <2>1. d.slot[a] = [s EXCEPT !.inj = FALSE, !.attr = None, !.waits = <<>>, !.preds = {}]
    BY <1>2, <1>6
  <2>2. /\ d.slot[a] \in Slots /\ d.slot[a].live = s.live /\ d.slot[a].refs = s.refs
        /\ d.slot[a].device = s.device
    BY <1>3, <1>4, <2>1 DEF Slots
  <2>3. ASSUME s = NoSlot PROVE d.slot[a] = NoSlot
    <3>1. s.inj = FALSE /\ s.attr = None /\ s.waits = <<>> /\ s.preds = {}
      BY <2>3 DEF NoSlot
    <3>2. d.slot[a] = s
      <4>1. [s EXCEPT !.inj = FALSE] = s /\ [s EXCEPT !.attr = None] = s
            /\ [s EXCEPT !.waits = <<>>] = s /\ [s EXCEPT !.preds = {}] = s
        BY <1>3, <3>1 DEF Slots
      <4> QED
        BY ONLY <2>1, <4>1
    <3> QED
      BY <2>3, <3>2
  <2> QED
    BY <1>6, <2>2, <2>3 DEF d, s
<1> QED
  BY <1>5, <1>6

\* A list without live slots is reclaimed; v is what becomes of its record.
Reclaimed(t, c, v) == [Reclaim(t, c) EXCEPT !.cl[c] = v]

LEMMA ReclaimSound ==
  ASSUME NEW t, Sound(t, {}), NEW c \in Cls, t.cl[c] # None, LiveOf(t, c) = {},
         NEW v \in {NewCl, None}
  PROVE  LET u == Reclaimed(t, c, v) IN
         /\ Sound(u, {})
         /\ u.cl[c] = v /\ \A x \in Cls : x # c => u.cl[x] = t.cl[x]
         /\ u.latest = Forget(t, SlotsOf(t, c)) /\ u.kts = t.kts
         /\ \A b \in Slabs : /\ t.slab[b].owner # c => u.slab[b] = t.slab[b]
                             /\ t.slab[b].owner = c => u.slab[b].owner \in {"free", "detached"}
         /\ Live(u) = Live(t)
         /\ \A a \in Addrs : /\ Owner(t, a) # c => u.slot[a] = t.slot[a]
                             /\ u.slot[a].device \in {t.slot[a].device, "recorded"}
<1> DEFINE S == SlotsOf(t, c)
           d == Dispose(t, S)
           mine == {b \in Slabs : t.slab[b].owner = c}
           freed == {b \in mine : Pinned(d, b) = {}}
           slabs == [b \in Slabs |->
                       IF b \in freed THEN NoSlab
                       ELSE IF b \in mine
                            THEN [t.slab[b] EXCEPT !.owner = "detached",
                                                   !.n_pinned = Cardinality(Pinned(d, b))]
                            ELSE t.slab[b]]
           slots == [a \in Addrs |-> IF a[1] \in freed THEN NoSlot ELSE d.slot[a]]
           r == Reclaim(t, c)
           u == [r EXCEPT !.cl[c] = v]
<1>1. /\ t \in Tracers
      /\ \A x \in Cls : t.cl[x] # None => ListExact(t, x)
      /\ \A b \in Slabs : SlabKnown(t, b)
      /\ \A a \in Addrs : SlotKnown(t, a)
      /\ \A b \in Slabs : HeldExact(t, {}, b)
  BY SoundFacts
<1>2. /\ t.cl \in [Cls -> CommandLists \union {None}]
      /\ t.slab \in [Slabs -> SlabRecords]
      /\ t.kts \in SUBSET Timed
  BY <1>1, TracerTypes
<1> DEFINE dslot == d.slot
           dlatest == d.latest
<1>3. /\ d = [cl |-> t.cl, slab |-> t.slab, slot |-> dslot, latest |-> dlatest,
              kts |-> t.kts]
      /\ d.latest \in [Events -> Addrs \union {None}]
      /\ \A e \in Events : d.latest[e] \in {t.latest[e], None}
  BY <1>1, DisposeShape
<1>4. \A a \in Addrs : /\ d.slot[a] \in Slots
                       /\ d.slot[a].live = t.slot[a].live
                       /\ d.slot[a].refs = t.slot[a].refs
                       /\ t.slot[a] = NoSlot => d.slot[a] = NoSlot
                       /\ a \notin S => d.slot[a] = t.slot[a]
  BY <1>1, DisposedSlot
<1>5. r = [d EXCEPT !.slab = slabs, !.slot = slots, !.cl[c] = NewCl]
  BY DEF Reclaim
<1> HIDE DEF d, dslot, dlatest, slabs, slots, r, u, freed
<1>6. r = [cl |-> [t.cl EXCEPT ![c] = NewCl], slab |-> slabs, slot |-> slots,
           latest |-> dlatest, kts |-> t.kts]
  BY <1>3, <1>5
<1>7. u = [cl |-> [t.cl EXCEPT ![c] = v], slab |-> slabs, slot |-> slots,
           latest |-> dlatest, kts |-> t.kts]
  <2>1. u = [r EXCEPT !.cl[c] = v]
    BY DEF u
  <2>2. [[t.cl EXCEPT ![c] = NewCl] EXCEPT ![c] = v] = [t.cl EXCEPT ![c] = v]
    BY <1>2
  <2> QED
    BY <1>6, <2>1, <2>2
<1>8. /\ u.cl = [t.cl EXCEPT ![c] = v] /\ u.slab = slabs /\ u.slot = slots
      /\ u.latest = d.latest /\ u.kts = t.kts
  BY <1>7 DEF dlatest
<1>9. Cls \intersect {"free", "detached"} = {} /\ Immediate \subseteq Cls /\ SlabSlots \in Nat
  BY ZeAssumption DEF Cls
<1>10. \A b \in mine : /\ Pinned(d, b) = Needed(t, b)
                       /\ Cardinality(Pinned(d, b)) \in 0 .. SlabSlots
                       /\ Pinned(d, b) # {} => Cardinality(Pinned(d, b)) > 0
  <2> TAKE b \in mine
  <2>1. \A a \in Addrs : a[1] = b => ~t.slot[a].live
    <3> SUFFICES ASSUME NEW a \in Addrs, a[1] = b, t.slot[a].live PROVE FALSE
      OBVIOUS
    <3>1. a \in LiveOf(t, c)
      BY DEF LiveOf, Live, Owner
    <3> QED
      BY <3>1
  <2>2. Pinned(d, b) = Needed(t, b)
    BY <1>4, <2>1 DEF Pinned, Needed
  <2>3. Pinned(d, b) \subseteq {a \in Addrs : a[1] = b}
    BY DEF Pinned
  <2>4. IsFiniteSet(Pinned(d, b)) /\ Cardinality(Pinned(d, b)) \in 0 .. SlabSlots
    BY <2>3, SlotsPerSlab
  <2>5. Pinned(d, b) # {} => Cardinality(Pinned(d, b)) > 0
    BY <1>9, <2>4, FS_EmptySet
  <2> QED
    BY <2>2, <2>4, <2>5
<1>11. \A b \in freed : b \in mine /\ Needed(t, b) = {}
  BY <1>10 DEF freed
<1>12. \A b \in Slabs :
         /\ b \in freed => slabs[b] = NoSlab
         /\ b \in mine \ freed =>
              slabs[b] = [t.slab[b] EXCEPT !.owner = "detached",
                                           !.n_pinned = Cardinality(Pinned(d, b))]
         /\ b \notin mine => slabs[b] = t.slab[b]
  BY <1>11 DEF slabs
<1>13. \A b \in mine \ freed :
         /\ slabs[b] \in SlabRecords
         /\ slabs[b].owner = "detached" /\ slabs[b].n_pinned = Cardinality(Needed(t, b))
         /\ slabs[b].n_pinned > 0
         /\ slabs[b].n_used = t.slab[b].n_used /\ slabs[b].n_held = t.slab[b].n_held
  <2> TAKE b \in mine \ freed
  <2>1. t.slab[b] \in SlabRecords
    BY <1>1, SlabTypes
  <2>2. Pinned(d, b) = Needed(t, b) /\ Cardinality(Needed(t, b)) \in 0 .. SlabSlots
        /\ Cardinality(Needed(t, b)) > 0
    BY <1>10 DEF freed
  <2>3. slabs[b] = [t.slab[b] EXCEPT !.owner = "detached",
                                     !.n_pinned = Cardinality(Needed(t, b))]
    BY <1>12, <2>2
  <2> QED
    BY <2>1, <2>2, <2>3 DEF SlabRecords
<1>14. \A b \in Slabs : slabs[b] \in SlabRecords /\ slabs[b].owner # c
  <2> TAKE b \in Slabs
  <2>1. t.slab[b] \in SlabRecords
    BY <1>1, SlabTypes
  <2>2. NoSlab \in SlabRecords /\ NoSlab.owner = "free"
    BY NewTypes DEF NoSlab
  <2>3. b \in freed => slabs[b] = NoSlab
    BY <1>12
  <2>4. b \in mine \ freed => slabs[b] \in SlabRecords /\ slabs[b].owner = "detached"
    BY <1>13
  <2>5. b \notin mine => slabs[b] = t.slab[b] /\ t.slab[b].owner # c
    BY <1>12
  <2>6. c # "free" /\ c # "detached"
    BY <1>9
  <2> QED
    BY <1>11, <2>1, <2>2, <2>3, <2>4, <2>5, <2>6
<1>15. u \in Tracers
  <2>1. slabs \in [Slabs -> SlabRecords]
    BY <1>14 DEF slabs
  <2>2. slots \in [Addrs -> Slots]
    BY <1>4, NewTypes DEF slots
  <2>3. [t.cl EXCEPT ![c] = v] \in [Cls -> CommandLists \union {None}]
    BY <1>2, NewTypes
  <2>4. dlatest \in [Events -> Addrs \union {None}]
    BY <1>3 DEF dlatest
  <2> QED
    BY <1>2, <1>7, <2>1, <2>2, <2>3, <2>4 DEF Tracers
<1>16. \A a \in Addrs : slots[a] = IF a[1] \in freed THEN NoSlot ELSE d.slot[a]
  BY DEF slots
<1>17. \A a \in Addrs : /\ u.slot[a].live = t.slot[a].live
                        /\ u.slot[a].refs = t.slot[a].refs
                        /\ t.slot[a].live => /\ u.slot[a].preds = t.slot[a].preds
                                             /\ u.slot[a].attr = t.slot[a].attr
                                             /\ Owner(u, a) = Owner(t, a)
                        /\ a[2] > u.slab[a[1]].n_used => u.slot[a] = NoSlot
  <2> TAKE a \in Addrs
  <2>1. a[1] \in Slabs /\ NoSlot.live = FALSE /\ NoSlot.refs = 0
    BY AddrFacts DEF NoSlot
  <2>2. t.slot[a].live \in BOOLEAN /\ t.slot[a].refs \in Nat
    BY <1>1, SlotTypes
  <2>3. CASE a[1] \in freed
    <3>1. a \notin Needed(t, a[1])
      BY <1>11, <2>3
    <3>2. t.slot[a].live = FALSE /\ t.slot[a].refs = 0
      BY <2>2, <3>1 DEF Needed
    <3>3. u.slot[a] = NoSlot
      BY <1>8, <1>16, <2>3
    <3> QED
      BY <2>1, <3>2, <3>3
  <2>4. CASE a[1] \notin freed
    <3>1. u.slot[a] = d.slot[a]
      BY <1>8, <1>16, <2>4
    <3>2. u.slab[a[1]].n_used = t.slab[a[1]].n_used
      BY <1>8, <1>12, <1>13, <2>1, <2>4
    <3>3. a[2] > t.slab[a[1]].n_used => t.slot[a] = NoSlot
      BY <1>1 DEF SlotKnown
    <3>4. ASSUME t.slot[a].live PROVE a \notin S /\ a[1] \notin mine
      <4>1. a \in Live(t) /\ a \notin LiveOf(t, c)
        BY <3>4 DEF Live
      <4> QED
        BY <4>1 DEF LiveOf, SlotsOf, Owner
    <3>5. ASSUME t.slot[a].live PROVE Owner(u, a) = Owner(t, a)
      BY <1>8, <1>12, <2>1, <3>4, <3>5 DEF Owner
    <3> QED
      BY <1>4, <3>1, <3>2, <3>3, <3>4, <3>5
  <2> QED
    BY <2>3, <2>4
<1>18. \A x \in Cls : u.cl[x] # None =>
         /\ u.cl[x].tail # None => u.slab[u.cl[x].tail].owner = x
         /\ \/ /\ t.cl[x] # None
               /\ u.cl[x].n_live = t.cl[x].n_live
               /\ u.cl[x].live_slots = t.cl[x].live_slots
            \/ LiveOf(t, x) = {} /\ u.cl[x].n_live = 0 /\ u.cl[x].live_slots = <<>>
  <2> SUFFICES ASSUME NEW x \in Cls, u.cl[x] # None
               PROVE  /\ u.cl[x].tail # None => u.slab[u.cl[x].tail].owner = x
                      /\ \/ /\ t.cl[x] # None
                            /\ u.cl[x].n_live = t.cl[x].n_live
                            /\ u.cl[x].live_slots = t.cl[x].live_slots
                         \/ LiveOf(t, x) = {} /\ u.cl[x].n_live = 0 /\ u.cl[x].live_slots = <<>>
    OBVIOUS
  <2>1. CASE x = c
    <3>1. u.cl[x] = NewCl
      BY <1>2, <1>8, <2>1
    <3> QED
      BY <2>1, <3>1 DEF NewCl
  <2>2. CASE x # c
    <3>1. u.cl[x] = t.cl[x]
      BY <1>2, <1>8, <2>2
    <3>2. ASSUME u.cl[x].tail # None PROVE u.slab[u.cl[x].tail].owner = x
      <4>1. t.slab[t.cl[x].tail].owner = x /\ t.cl[x].tail \in Slabs
        BY <1>1, <3>1, <3>2, ListTypes DEF ListExact
      <4>2. t.cl[x].tail \notin mine
        BY <2>2, <4>1
      <4> QED
        BY <1>8, <1>12, <3>1, <4>1, <4>2
    <3> QED
      BY <3>1, <3>2
  <2> QED
    BY <2>1, <2>2
<1>19. \A b \in Slabs : SlabKnown(u, b)
  <2> TAKE b \in Slabs
  <2>1. SlabKnown(t, b)
    BY <1>1
  <2>2. CASE b \notin mine
    <3>1. u.slab[b] = t.slab[b] /\ t.slab[b].owner # c
      BY <1>8, <1>12, <2>2
    <3> QED
      BY <1>2, <1>8, <2>1, <3>1 DEF SlabKnown
  <2>3. CASE b \in freed
    <3>1. u.slab[b] = NoSlab
      BY <1>8, <1>12, <2>3
    <3> QED
      BY <1>9, <3>1 DEF SlabKnown, NoSlab
  <2>4. CASE b \in mine \ freed
    <3>1. u.slab[b].owner = "detached" /\ u.slab[b].n_used = t.slab[b].n_used
          /\ u.slab[b].n_held = t.slab[b].n_held
      BY <1>8, <1>13, <2>4
    <3>2. "detached" \notin Cls
      BY <1>9
    <3> QED
      BY <2>1, <3>1, <3>2 DEF SlabKnown
  <2> QED
    BY <2>2, <2>3, <2>4
<1>20. \A b \in Slabs : HeldExact(u, {}, b)
  <2> TAKE b \in Slabs
  <2>1. Needed(u, b) = Needed(t, b)
    BY <1>17 DEF Needed
  <2>2. CASE b \notin mine
    <3>1. u.slab[b] = t.slab[b] /\ t.slab[b].owner # c
      BY <1>8, <1>12, <2>2
    <3>2. t.slab[b].owner \in Immediate => (IsTail(u, b) <=> IsTail(t, b))
      BY <1>2, <1>8, <1>9, <3>1 DEF IsTail
    <3> QED
      BY <1>1, <2>1, <3>1, <3>2 DEF HeldExact
  <2>3. CASE b \in freed
    <3>1. u.slab[b] = NoSlab
      BY <1>8, <1>12, <2>3
    <3> QED
      BY <1>9, <3>1 DEF HeldExact, NoSlab
  <2>4. CASE b \in mine \ freed
    <3>1. u.slab[b].owner = "detached" /\ u.slab[b].n_pinned = Cardinality(Needed(t, b))
          /\ u.slab[b].n_pinned > 0
      BY <1>8, <1>13, <2>4
    <3>2. "detached" \notin Immediate
      BY <1>9
    <3> QED
      BY <2>1, <3>1, <3>2 DEF HeldExact
  <2> QED
    BY <2>2, <2>3, <2>4
<1>21. \A e \in Events : u.latest[e] \in {t.latest[e], None}
  BY <1>3, <1>8
<1>22. Sound(u, {})
  BY <1>15, <1>17, <1>18, <1>19, <1>20, <1>21, QuietSound
<1>23. u.cl[c] = v /\ \A x \in Cls : x # c => u.cl[x] = t.cl[x]
  BY <1>2, <1>8
<1>24. u.latest = Forget(t, SlotsOf(t, c)) /\ u.kts = t.kts
  <2>1. Dispose(t, S).latest = Forget(t, S)
    BY <1>1, DisposeShape
  <2> QED
    BY <1>8, <2>1 DEF d
<1>25. \A b \in Slabs : /\ t.slab[b].owner # c => u.slab[b] = t.slab[b]
                        /\ t.slab[b].owner = c => u.slab[b].owner \in {"free", "detached"}
  <2>1. NoSlab.owner = "free"
    BY DEF NoSlab
  <2> QED
    BY <1>8, <1>12, <1>13, <2>1
<1>26. \A a \in Addrs : /\ Owner(t, a) # c => u.slot[a] = t.slot[a]
                        /\ u.slot[a].device \in {t.slot[a].device, "recorded"}
  <2> TAKE a \in Addrs
  <2>1. Owner(t, a) # c => a \notin S /\ a[1] \notin freed
    BY <1>11 DEF SlotsOf, Owner
  <2>2. NoSlot.device = "recorded"
    BY DEF NoSlot
  <2>3. d.slot[a].device = t.slot[a].device
    BY <1>1, DisposedSlot DEF d
  <2>4. u.slot[a] = IF a[1] \in freed THEN NoSlot ELSE d.slot[a]
    BY <1>8, <1>16
  <2> QED
    BY <1>4, <2>1, <2>2, <2>3, <2>4
<1>27. Live(u) = Live(t)
  BY <1>17 DEF Live
<1> QED
  BY <1>22, <1>23, <1>24, <1>25, <1>26, <1>27 DEF u, r, Reclaimed

\* Without live slots nothing refers to anything, and no slab is detached.
LEMMA NothingLive ==
  ASSUME NEW t, Sound(t, {}), Live(t) = {}
  PROVE  /\ \A a \in Addrs : t.slot[a].live = FALSE /\ t.slot[a].refs = 0
         /\ \A b \in Slabs : Needed(t, b) = {}
         /\ \A b \in Slabs : t.slab[b].owner \in Cls \union {"free"}
<1>1. /\ t \in Tracers
      /\ \A a \in Addrs : t.slot[a].refs = Edges(t, {}, a)
      /\ \A b \in Slabs : HeldExact(t, {}, b)
  BY SoundFacts
<1>2. \A a \in Addrs : t.slot[a].live \in BOOLEAN
  BY <1>1, SlotTypes
<1>3. \A a \in Addrs : Edges(t, {}, a) = 0
  BY <1>1, NoEdges
<1>4. \A a \in Addrs : t.slot[a].live = FALSE /\ t.slot[a].refs = 0
  BY <1>1, <1>2, <1>3 DEF Live
<1>5. \A b \in Slabs : Needed(t, b) = {}
  BY <1>4 DEF Needed
<1>6. \A b \in Slabs : t.slab[b].owner \in Cls \union {"free"}
  <2> SUFFICES ASSUME NEW b \in Slabs PROVE t.slab[b].owner # "detached"
    BY <1>1, SlabTypes
  <2>1. Cardinality(Needed(t, b)) = 0
    BY <1>5, FS_EmptySet
  <2> QED
    BY <1>1, <2>1 DEF HeldExact
<1> QED
  BY <1>4, <1>5, <1>6

\* One field of the tracer's record at a time.
LEMMA Update ==
  ASSUME NEW k, NEW b, NEW s, NEW l, NEW m, NEW x, NEW r,
         r = [cl |-> k, slab |-> b, slot |-> s, latest |-> l, kts |-> m]
  PROVE  /\ [r EXCEPT !.cl = x] = [cl |-> x, slab |-> b, slot |-> s, latest |-> l, kts |-> m]
         /\ [r EXCEPT !.slab = x] = [cl |-> k, slab |-> x, slot |-> s, latest |-> l, kts |-> m]
         /\ [r EXCEPT !.slot = x] = [cl |-> k, slab |-> b, slot |-> x, latest |-> l, kts |-> m]
         /\ [r EXCEPT !.latest = x] = [cl |-> k, slab |-> b, slot |-> s, latest |-> x, kts |-> m]
         /\ [r EXCEPT !.kts = x] = [cl |-> k, slab |-> b, slot |-> s, latest |-> l, kts |-> x]
OBVIOUS

\* The tracer after zeContextDestroy.
Cleared(t, mine) ==
  [Dispose(t, mine) EXCEPT
     !.cl = [c \in Cls |-> None],
     !.slab = [b \in Slabs |-> IF Dispose(t, mine).slab[b].owner \in Cls THEN NoSlab
                               ELSE Dispose(t, mine).slab[b]],
     !.slot = [a \in Addrs |-> IF a \in mine THEN NoSlot ELSE Dispose(t, mine).slot[a]]]

LEMMA DestroyContextSound ==
  ASSUME NEW t, Sound(t, {}), Live(t) = {}, NEW mine,
         mine = {a \in Addrs : Owner(t, a) \in Cls}
  PROVE  LET u == Cleared(t, mine) IN
         /\ Sound(u, {})
         /\ \A c \in Cls : u.cl[c] = None
         /\ \A b \in Slabs : u.slab[b] = NoSlab
         /\ \A a \in Addrs : u.slot[a] = NoSlot
         /\ \A e \in Events : u.latest[e] \in {t.latest[e], None}
         /\ u.kts = t.kts
<1> DEFINE d == Dispose(t, mine)
           dslot == d.slot
           dlatest == d.latest
           cls == [c \in Cls |-> None]
           slabs == [b \in Slabs |-> IF d.slab[b].owner \in Cls THEN NoSlab ELSE d.slab[b]]
           slots == [a \in Addrs |-> IF a \in mine THEN NoSlot ELSE d.slot[a]]
           u == [d EXCEPT !.cl = cls, !.slab = slabs, !.slot = slots]
<1>1. /\ t \in Tracers
      /\ \A b \in Slabs : SlabKnown(t, b)
      /\ \A a \in Addrs : SlotKnown(t, a)
  BY SoundFacts
<1>2. /\ \A a \in Addrs : t.slot[a].live = FALSE /\ t.slot[a].refs = 0
      /\ \A b \in Slabs : Needed(t, b) = {}
      /\ \A b \in Slabs : t.slab[b].owner \in Cls \union {"free"}
  BY NothingLive
<1>3. /\ d = [cl |-> t.cl, slab |-> t.slab, slot |-> dslot, latest |-> dlatest,
              kts |-> t.kts]
      /\ dlatest \in [Events -> Addrs \union {None}]
      /\ \A e \in Events : dlatest[e] \in {t.latest[e], None}
      /\ d.slab = t.slab
  BY <1>1, DisposeShape
<1>4. \A a \in Addrs : a \notin mine => d.slot[a] = t.slot[a]
  BY <1>1, DisposedSlot
<1>5. \A b \in Slabs : t.slab[b].owner = "free" => t.slab[b] = NoSlab
  BY <1>1 DEF SlabKnown
<1>6. \A b \in Slabs : slabs[b] = NoSlab
  BY <1>2, <1>3, <1>5 DEF slabs
<1>7. \A a \in Addrs : slots[a] = NoSlot
  <2> TAKE a \in Addrs
  <2>1. CASE a \in mine
    BY <2>1
  <2>2. CASE a \notin mine
    <3>1. a[1] \in Slabs /\ a[2] \in 1 .. SlabSlots /\ SlabSlots \in Nat
      BY AddrFacts, ZeAssumption
    <3>2. t.slab[a[1]] = NoSlab /\ NoSlab.n_used = 0
      BY <1>2, <1>5, <2>2, <3>1 DEF Owner, NoSlab
    <3>3. t.slot[a] = NoSlot
      BY <1>1, <3>1, <3>2 DEF SlotKnown
    <3> QED
      BY <1>4, <2>2, <3>3
  <2> QED
    BY <2>1, <2>2
<1>8. /\ cls \in [Cls -> CommandLists \union {None}] /\ slabs \in [Slabs -> SlabRecords]
      /\ slots \in [Addrs -> Slots] /\ t.kts \in SUBSET Timed
  <2>1. slabs \in [Slabs -> SlabRecords]
    BY <1>6, NewTypes
  <2>2. slots \in [Addrs -> Slots]
    BY <1>7, NewTypes
  <2> QED
    BY <1>1, <2>1, <2>2, TracerTypes
<1>a. \A c \in Cls : cls[c] = None
  OBVIOUS
<1> HIDE DEF d, dslot, dlatest, cls, slabs, slots
<1>9. u = [cl |-> cls, slab |-> slabs, slot |-> slots, latest |-> dlatest, kts |-> t.kts]
  <2>1. d = [cl |-> t.cl, slab |-> t.slab, slot |-> dslot, latest |-> dlatest, kts |-> t.kts]
    BY <1>3
  <2> DEFINE d1 == [d EXCEPT !.cl = cls]
             d2 == [d1 EXCEPT !.slab = slabs]
             d3 == [d2 EXCEPT !.slot = slots]
  <2>a. u = d3
    BY DEF u
  <2>2. d1 = [cl |-> cls, slab |-> t.slab, slot |-> dslot, latest |-> dlatest, kts |-> t.kts]
    BY <2>1, Update
  <2> HIDE DEF d1
  <2>3. d2 = [cl |-> cls, slab |-> slabs, slot |-> dslot, latest |-> dlatest, kts |-> t.kts]
    BY <2>2, Update
  <2> HIDE DEF d2
  <2>4. d3 = [cl |-> cls, slab |-> slabs, slot |-> slots, latest |-> dlatest, kts |-> t.kts]
    BY <2>3, Update
  <2> QED
    BY <2>a, <2>4
<1> HIDE DEF u
<1>10. u.cl = cls /\ u.slab = slabs /\ u.slot = slots /\ u.latest = dlatest
  BY <1>9
<1>11. u \in Tracers
  BY <1>3, <1>8, <1>9 DEF Tracers
<1>12. \A a \in Addrs : /\ u.slot[a].live = t.slot[a].live
                        /\ u.slot[a].refs = t.slot[a].refs
                        /\ t.slot[a].live => /\ u.slot[a].preds = t.slot[a].preds
                                             /\ u.slot[a].attr = t.slot[a].attr
                                             /\ Owner(u, a) = Owner(t, a)
                        /\ a[2] > u.slab[a[1]].n_used => u.slot[a] = NoSlot
  <2>1. NoSlot.live = FALSE /\ NoSlot.refs = 0
    BY DEF NoSlot
  <2> QED
    BY <1>2, <1>7, <1>10, <2>1
<1>13. \A c \in Cls : u.cl[c] = None
  BY <1>10, <1>a
<1>14. "free" \notin Cls /\ "free" \notin Immediate /\ NoSlab.owner = "free"
       /\ NoSlab.n_held = 0 /\ NoSlab.n_used = 0
  BY ZeAssumption DEF Cls, NoSlab
<1>15. \A b \in Slabs : SlabKnown(u, b) /\ HeldExact(u, {}, b)
  BY <1>6, <1>10, <1>14 DEF SlabKnown, HeldExact
<1>16. \A e \in Events : u.latest[e] \in {t.latest[e], None}
  BY <1>3, <1>10
<1>17. Sound(u, {})
  BY <1>11, <1>12, <1>13, <1>15, <1>16, QuietSound
<1>18. /\ \A b \in Slabs : u.slab[b] = NoSlab
       /\ \A a \in Addrs : u.slot[a] = NoSlot
       /\ u.kts = t.kts
  BY <1>6, <1>7, <1>9
<1>19. u = Cleared(t, mine)
  BY DEF u, cls, slabs, slots, d, Cleared
<1> QED
  BY <1>13, <1>16, <1>17, <1>18, <1>19

-----------------------------------------------------------------------------
(* A new slot. *)

LEMMA WithRoomSound ==
  ASSUME NEW t, Sound(t, {}), NEW c \in Cls, t.cl[c] # None,
         HasRoom(t, c) \/ (FreeSlabs(t) # {} /\ (c \in Immediate \/ t.cl[c].tail = None))
  PROVE  LET u == WithRoom(t, c) IN
         /\ Sound(u, {})
         /\ u.cl[c] # None
         /\ u.cl[c].tail \in Slabs
         /\ u.slab[u.cl[c].tail].owner = c
         /\ u.slab[u.cl[c].tail].n_used < SlabSlots
         /\ u.latest = t.latest /\ u.kts = t.kts
         /\ \A x \in Cls : x # c => u.cl[x] = t.cl[x]
         /\ u.cl[c].in_flight_q = t.cl[c].in_flight_q
         /\ u.cl[c].in_flight_fence = t.cl[c].in_flight_fence
         /\ c \in Regular => t.cl[c].tail \in {None, u.cl[c].tail}
         /\ \A x \in Slabs : \/ u.slab[x] = t.slab[x]
                             \/ u.slab[x] = NoSlab
                             \/ x = u.cl[c].tail /\ u.slab[x].n_used = 0
         /\ \A a \in Addrs : \/ /\ u.slot[a] = t.slot[a]
                                /\ t.slot[a].live => Owner(u, a) = Owner(t, a)
                             \/ /\ u.slot[a] = NoSlot /\ u.slab[a[1]] = NoSlab
                                /\ a \notin Live(t)
<1>1. /\ t \in Tracers
      /\ \A x \in Cls : t.cl[x] # None => ListExact(t, x)
      /\ \A b \in Slabs : SlabKnown(t, b)
      /\ \A a \in Addrs : SlotKnown(t, a)
      /\ \A b \in Slabs : HeldExact(t, {}, b)
  BY SoundFacts
<1>2. /\ t.cl[c] \in CommandLists /\ t.cl[c].tail \in Slabs \union {None}
      /\ t.cl[c].tail # None => t.slab[t.cl[c].tail].owner = c
  BY <1>1, ListTypes DEF ListExact
<1>3. CASE HasRoom(t, c)
  <2>1. WithRoom(t, c) = t
    BY <1>3 DEF WithRoom
  <2>2. t.cl[c].tail # None /\ t.slab[t.cl[c].tail].n_used < SlabSlots
    BY <1>3 DEF HasRoom
  <2> QED
    BY <1>2, <2>1, <2>2, Zenon
<1>4. CASE ~HasRoom(t, c)
  <2> DEFINE l == t.cl[c]
             old == l.tail
             b == CHOOSE x \in FreeSlabs(t) : TRUE
             gone == IF old # None /\ t.slab[old].n_held = 0 THEN {old} ELSE {}
             lnew == [l EXCEPT !.tail = b]
             bnew == [NoSlab EXCEPT !.owner = c]
             cls == [t.cl EXCEPT ![c] = lnew]
             slabs == [x \in Slabs |-> IF x = b THEN bnew
                                       ELSE IF x \in gone THEN NoSlab ELSE t.slab[x]]
             slots == [a \in Addrs |-> IF a[1] \in gone THEN NoSlot ELSE t.slot[a]]
             u == WithRoom(t, c)
  <2>1. b \in Slabs /\ t.slab[b] = NoSlab
    <3>1. b \in FreeSlabs(t)
      BY <1>4
    <3> QED
      BY <3>1 DEF FreeSlabs
  <2>2. /\ t = [cl |-> t.cl, slab |-> t.slab, slot |-> t.slot, latest |-> t.latest,
                kts |-> t.kts]
        /\ t.cl \in [Cls -> CommandLists \union {None}]
        /\ t.latest \in [Events -> Addrs \union {None}] /\ t.kts \in SUBSET Timed
    BY <1>1, TracerTypes
  <2>3. u = [t EXCEPT !.cl[c].tail = b, !.slab = slabs, !.slot = slots]
    BY <1>4 DEF WithRoom
  <2>4. /\ Cls \intersect {"free", "detached"} = {} /\ Immediate \subseteq Cls
        /\ SlabSlots \in Nat \ {0}
        /\ None \notin Slabs
    BY ZeAssumption DEF Cls
  <2>5. /\ NoSlab.owner = "free" /\ NoSlab.n_used = 0 /\ NoSlab.n_held = 0 /\ NoSlab.n_pinned = 0
        /\ NoSlab = [owner |-> "free", n_used |-> 0, n_held |-> 0, n_pinned |-> 0]
    BY DEF NoSlab
  <2>6. /\ bnew \in SlabRecords /\ bnew.owner = c /\ bnew.n_used = 0 /\ bnew.n_held = 0
    BY <2>4, <2>5 DEF SlabRecords
  <2>7. /\ lnew \in CommandLists /\ lnew.tail = b /\ lnew # None
        /\ lnew.n_live = l.n_live /\ lnew.live_slots = l.live_slots
        /\ lnew.in_flight_q = l.in_flight_q /\ lnew.in_flight_fence = l.in_flight_fence
    <3>1. /\ lnew \in CommandLists /\ lnew.tail = b
          /\ lnew.n_live = l.n_live /\ lnew.live_slots = l.live_slots
          /\ lnew.in_flight_q = l.in_flight_q /\ lnew.in_flight_fence = l.in_flight_fence
      BY <1>2, <2>1 DEF CommandLists
    <3> QED
      BY <3>1, NewTypes
  <2>8. /\ b \notin gone
        /\ \A x \in gone : x \in Slabs /\ t.slab[x].owner = c /\ t.slab[x].n_held = 0
                           /\ c \in Immediate
    <3>1. gone \subseteq {old} /\ (gone # {} => old # None /\ t.slab[old].n_held = 0)
      OBVIOUS
    <3>2. gone # {} => old \in Slabs /\ t.slab[old].owner = c /\ c \in Immediate
      BY <1>2, <1>4, <3>1
    <3>3. gone # {} => old # b
      BY <2>1, <2>4, <2>5, <3>2
    <3> QED
      BY <3>1, <3>2, <3>3
  <2> DEFINE clsx == [t.cl EXCEPT ![c] = [t.cl[c] EXCEPT !.tail = b]]
             t1 == [t EXCEPT !.cl = clsx]
             t2 == [t1 EXCEPT !.slab = slabs]
             t3 == [t2 EXCEPT !.slot = slots]
  <2> HIDE DEF slabs, slots, b, gone, bnew
  <2>9. u = t3
    BY <2>3
  <2>a. clsx = cls
    OBVIOUS
  <2> HIDE DEF u, clsx
  <2>10. t1 = [cl |-> clsx, slab |-> t.slab, slot |-> t.slot, latest |-> t.latest, kts |-> t.kts]
    BY <2>2, Update
  <2> HIDE DEF t1
  <2>11. t2 = [cl |-> clsx, slab |-> slabs, slot |-> t.slot, latest |-> t.latest, kts |-> t.kts]
    BY <2>10, Update
  <2> HIDE DEF t2
  <2>12. t3 = [cl |-> clsx, slab |-> slabs, slot |-> slots, latest |-> t.latest, kts |-> t.kts]
    BY <2>11, Update
  <2> HIDE DEF t3, cls, lnew
  <2>13. u = [cl |-> cls, slab |-> slabs, slot |-> slots, latest |-> t.latest, kts |-> t.kts]
    BY <2>9, <2>a, <2>12
  <2>14. u.cl = cls /\ u.slab = slabs /\ u.slot = slots /\ u.latest = t.latest /\ u.kts = t.kts
    BY <2>13
  <2>15. /\ cls \in [Cls -> CommandLists \union {None}] /\ cls[c] = lnew
         /\ \A x \in Cls : x # c => cls[x] = t.cl[x]
    BY <2>2, <2>7 DEF cls
  <2>16. \A x \in Slabs : /\ x = b => slabs[x] = bnew
                          /\ x \in gone => slabs[x] = NoSlab
                          /\ x # b /\ x \notin gone => slabs[x] = t.slab[x]
    BY <2>8 DEF slabs
  <2>17. \A a \in Addrs : slots[a] = IF a[1] \in gone THEN NoSlot ELSE t.slot[a]
    BY DEF slots
  <2>18. u \in Tracers
    <3>1. \A x \in Slabs : slabs[x] \in SlabRecords
      BY <1>1, <2>6, <2>16, NewTypes, SlabTypes
    <3>2. slabs \in [Slabs -> SlabRecords]
      BY <3>1 DEF slabs
    <3>3. \A a \in Addrs : slots[a] \in Slots
      BY <1>1, <2>17, NewTypes, SlotTypes
    <3>4. slots \in [Addrs -> Slots]
      BY <3>3 DEF slots
    <3> QED
      BY <2>2, <2>13, <2>15, <3>2, <3>4 DEF Tracers
  <2>19. \A x \in gone : Needed(t, x) = {}
    <3> TAKE x \in gone
    <3>1. x \in Slabs /\ t.slab[x].owner \in Immediate /\ t.slab[x].n_held = 0
      BY <2>8
    <3>2. Needed(t, x) \union {a \in {} : a[1] = x} = Needed(t, x)
      OBVIOUS
    <3>3. Cardinality(Needed(t, x)) = 0
      BY <1>1, <3>1, <3>2 DEF HeldExact
    <3> QED
      BY <3>3, NeededFinite, FS_EmptySet
  <2>20. \A a \in Addrs : a[1] = b => t.slot[a] = NoSlot
    <3> SUFFICES ASSUME NEW a \in Addrs, a[1] = b PROVE t.slot[a] = NoSlot
      OBVIOUS
    <3>1. a[2] \in 1 .. SlabSlots /\ SlotKnown(t, a)
      BY <1>1, AddrFacts
    <3>2. a[2] > t.slab[a[1]].n_used
      BY <2>1, <2>4, <2>5, <3>1
    <3> QED
      BY <3>1, <3>2 DEF SlotKnown
  <2>21. \A a \in Addrs : /\ u.slot[a].live = t.slot[a].live
                          /\ u.slot[a].refs = t.slot[a].refs
                          /\ t.slot[a].live => /\ u.slot[a].preds = t.slot[a].preds
                                               /\ u.slot[a].attr = t.slot[a].attr
                                               /\ Owner(u, a) = Owner(t, a)
                          /\ a[2] > u.slab[a[1]].n_used => u.slot[a] = NoSlot
    <3> TAKE a \in Addrs
    <3>1. a[1] \in Slabs /\ NoSlot.live = FALSE /\ NoSlot.refs = 0
      BY AddrFacts DEF NoSlot
    <3>2. t.slot[a].live \in BOOLEAN /\ t.slot[a].refs \in Nat
      BY <1>1, SlotTypes
    <3>3. CASE a[1] \in gone
      <4>1. a \notin Needed(t, a[1])
        BY <2>19, <3>3
      <4>2. t.slot[a].live = FALSE /\ t.slot[a].refs = 0
        BY <3>2, <4>1 DEF Needed
      <4>3. u.slot[a] = NoSlot
        BY <2>14, <2>17, <3>3
      <4> QED
        BY <3>1, <4>2, <4>3
    <3>4. CASE a[1] \notin gone /\ a[1] # b
      <4>1. u.slot[a] = t.slot[a] /\ u.slab[a[1]] = t.slab[a[1]]
        BY <2>14, <2>16, <2>17, <3>1, <3>4
      <4>2. SlotKnown(t, a)
        BY <1>1
      <4> QED
        BY <4>1, <4>2 DEF SlotKnown, Owner
    <3>5. CASE a[1] = b
      <4>1. u.slot[a] = NoSlot /\ t.slot[a] = NoSlot
        BY <2>14, <2>8, <2>17, <2>20, <3>5
      <4> QED
        BY <3>1, <4>1
    <3> QED
      BY <3>3, <3>4, <3>5
  <2>22. \A x \in Cls : u.cl[x] # None =>
           /\ u.cl[x].tail # None => u.slab[u.cl[x].tail].owner = x
           /\ \/ /\ t.cl[x] # None
                 /\ u.cl[x].n_live = t.cl[x].n_live
                 /\ u.cl[x].live_slots = t.cl[x].live_slots
              \/ LiveOf(t, x) = {} /\ u.cl[x].n_live = 0 /\ u.cl[x].live_slots = <<>>
    <3> SUFFICES ASSUME NEW x \in Cls, u.cl[x] # None
                 PROVE  /\ u.cl[x].tail # None => u.slab[u.cl[x].tail].owner = x
                        /\ t.cl[x] # None
                        /\ u.cl[x].n_live = t.cl[x].n_live
                        /\ u.cl[x].live_slots = t.cl[x].live_slots
      OBVIOUS
    <3>1. CASE x = c
      <4>1. u.cl[x] = lnew
        BY <2>14, <2>15, <3>1
      <4>2. u.slab[b] = bnew
        BY <2>1, <2>14, <2>16
      <4> QED
        BY <2>6, <2>7, <3>1, <4>1, <4>2
    <3>2. CASE x # c
      <4>1. u.cl[x] = t.cl[x]
        BY <2>14, <2>15, <3>2
      <4>2. ASSUME u.cl[x].tail # None PROVE u.slab[u.cl[x].tail].owner = x
        <5>1. t.slab[t.cl[x].tail].owner = x /\ t.cl[x].tail \in Slabs
          BY <1>1, <4>1, <4>2, ListTypes DEF ListExact
        <5>2. t.cl[x].tail # b /\ t.cl[x].tail \notin gone
          BY <2>1, <2>4, <2>5, <2>8, <3>2, <5>1
        <5> QED
          BY <2>14, <2>16, <4>1, <5>1, <5>2
      <4> QED
        BY <4>1, <4>2
    <3> QED
      BY <3>1, <3>2
  <2>23. \A x \in Slabs : SlabKnown(u, x)
    <3> TAKE x \in Slabs
    <3>1. CASE x = b
      <4>1. u.slab[x] = bnew
        BY <2>14, <2>16, <3>1
      <4>2. u.cl[c] # None /\ c # "free"
        BY <2>4, <2>7, <2>14, <2>15
      <4> QED
        BY <2>6, <4>1, <4>2 DEF SlabKnown
    <3>2. CASE x \in gone
      <4>1. u.slab[x] = NoSlab
        BY <2>14, <2>16, <3>2
      <4> QED
        BY <2>4, <2>5, <4>1 DEF SlabKnown
    <3>3. CASE x # b /\ x \notin gone
      <4>1. u.slab[x] = t.slab[x] /\ SlabKnown(t, x)
        BY <1>1, <2>14, <2>16, <3>3
      <4>2. \A y \in Cls : t.cl[y] # None => u.cl[y] # None
        BY <2>7, <2>14, <2>15
      <4> QED
        BY <4>1, <4>2 DEF SlabKnown
    <3> QED
      BY <3>1, <3>2, <3>3
  <2>24. \A x \in Slabs : HeldExact(u, {}, x)
    <3> TAKE x \in Slabs
    <3>1. Needed(u, x) = Needed(t, x)
      BY <2>21 DEF Needed
    <3>2. Needed(t, x) \union {a \in {} : a[1] = x} = Needed(t, x)
      OBVIOUS
    <3>3. CASE x = b
      <4>1. u.slab[x] = bnew
        BY <2>14, <2>16, <3>3
      <4>2. Needed(t, x) = {}
        <5>1. \A a \in Needed(t, x) : t.slot[a] # NoSlot
          BY LiveUsed
        <5>2. \A a \in Needed(t, x) : a \in Addrs /\ a[1] = x
          BY DEF Needed
        <5> QED
          BY <2>20, <3>3, <5>1, <5>2
      <4>3. IsTail(u, x) /\ c # "detached"
        BY <2>4, <2>6, <2>7, <2>14, <2>15, <3>3, <4>1 DEF IsTail
      <4> QED
        BY <2>6, <3>1, <3>2, <4>1, <4>2, <4>3, FS_EmptySet DEF HeldExact
    <3>4. CASE x \in gone
      <4>1. u.slab[x] = NoSlab
        BY <2>14, <2>16, <3>4
      <4> QED
        BY <2>4, <2>5, <4>1 DEF HeldExact
    <3>5. CASE x # b /\ x \notin gone
      <4>1. u.slab[x] = t.slab[x] /\ HeldExact(t, {}, x)
        BY <1>1, <2>14, <2>16, <3>5
      <4>2. ASSUME t.slab[x].owner \in Immediate PROVE t.slab[x].n_held > 0 \/ IsTail(u, x)
        <5>1. CASE t.slab[x].owner # c
          <6>1. u.cl[t.slab[x].owner] = t.cl[t.slab[x].owner]
            BY <2>4, <2>14, <2>15, <4>2, <5>1
          <6> QED
            BY <4>1, <4>2, <6>1 DEF HeldExact, IsTail
        <5>2. CASE t.slab[x].owner = c /\ x # old
          BY <4>1, <4>2, <5>2 DEF HeldExact, IsTail
        <5>3. CASE t.slab[x].owner = c /\ x = old
          <6>1. t.slab[x].n_held # 0
            BY <2>4, <3>5, <5>3 DEF gone
          <6>2. t.slab[x].n_held \in 0 .. SlabSlots
            BY <1>1, SlabTypes
          <6> QED
            BY <2>4, <6>1, <6>2
        <5> QED
          BY <5>1, <5>2, <5>3
      <4> QED
        BY <3>1, <3>2, <4>1, <4>2 DEF HeldExact
    <3> QED
      BY <3>3, <3>4, <3>5
  <2>25. \A e \in Events : u.latest[e] \in {t.latest[e], None}
    BY <2>14
  <2>26. Sound(u, {})
    BY <2>18, <2>21, <2>22, <2>23, <2>24, <2>25, QuietSound
  <2>27. /\ u.cl[c] # None /\ u.cl[c].tail \in Slabs
         /\ u.slab[u.cl[c].tail].owner = c /\ u.slab[u.cl[c].tail].n_used < SlabSlots
    BY <2>1, <2>4, <2>6, <2>7, <2>14, <2>15, <2>16
  <2>28. /\ u.latest = t.latest /\ u.kts = t.kts
         /\ \A x \in Cls : x # c => u.cl[x] = t.cl[x]
         /\ u.cl[c].in_flight_q = t.cl[c].in_flight_q
         /\ u.cl[c].in_flight_fence = t.cl[c].in_flight_fence
    BY <2>7, <2>14, <2>15
  <2>29. c \in Regular => t.cl[c].tail = None
    BY <1>4, ZeAssumption
  <2>30. \A x \in Slabs : \/ u.slab[x] = t.slab[x]
                          \/ u.slab[x] = NoSlab
                          \/ x = u.cl[c].tail /\ u.slab[x].n_used = 0
    BY <2>6, <2>7, <2>14, <2>15, <2>16
  <2>31. \A a \in Addrs : \/ /\ u.slot[a] = t.slot[a]
                             /\ t.slot[a].live => Owner(u, a) = Owner(t, a)
                          \/ /\ u.slot[a] = NoSlot /\ u.slab[a[1]] = NoSlab
                             /\ a \notin Live(t)
    <3> TAKE a \in Addrs
    <3>1. CASE a[1] \in gone
      <4>1. a \notin Needed(t, a[1]) /\ t.slot[a].live \in BOOLEAN
        BY <1>1, <2>19, <3>1, SlotTypes
      <4>2. u.slab[a[1]] = NoSlab
        BY <2>8, <2>14, <2>16, <3>1
      <4> QED
        BY <2>14, <2>17, <3>1, <4>1, <4>2 DEF Needed, Live
    <3>2. CASE a[1] \notin gone
      BY <2>14, <2>17, <2>21, <3>2
    <3> QED
      BY <3>1, <3>2
  <2> QED
    BY <2>26, <2>27, <2>28, <2>29, <2>30, <2>31 DEF u
<1> QED
  BY <1>3, <1>4

NewSlot(c, attr, waits) ==
  [NoSlot EXCEPT !.inj = TRUE, !.attr = attr, !.waits = waits,
                 !.device = IF c \in Immediate THEN "running" ELSE "recorded"]

FillFacts(t, u, c, a, attr, waits) ==
  /\ Sound(u, {a})
  /\ u.cl[c] # None
  /\ a \in SlotsOf(u, c)
  /\ t.slot[a] = NoSlot
  /\ u.slot[a] = NewSlot(c, attr, waits)
  /\ \A x \in Addrs : x # a => u.slot[x] = t.slot[x]
  /\ u.cl = t.cl /\ u.latest = t.latest /\ u.kts = t.kts
  /\ \A x \in Slabs : u.slab[x].owner = t.slab[x].owner
  /\ u.slab[a[1]].n_used = a[2]
  /\ \A x \in Slabs : x # a[1] => u.slab[x].n_used = t.slab[x].n_used

LEMMA FilledShape ==
  ASSUME NEW t, Sound(t, {}), NEW c \in Cls, t.cl[c] # None, NEW a,
         a = NextSlot(t, c), t.cl[c].tail \in Slabs, t.slab[t.cl[c].tail].owner = c,
         t.slab[t.cl[c].tail].n_used < SlabSlots,
         NEW attr \in Events \union {None}, NEW waits \in WaitLists
  PROVE  FillFacts(t, Filled(t, c, a, attr, waits), c, a, attr, waits)
<1> DEFINE b == t.cl[c].tail
           s == t.slab[b]
           bnew == [s EXCEPT !.n_used = s.n_used + 1, !.n_held = s.n_held + 1]
           snew == [NoSlot EXCEPT !.inj = TRUE, !.attr = attr, !.waits = waits,
                                  !.device = IF c \in Immediate THEN "running" ELSE "recorded"]
           slabs == [t.slab EXCEPT ![b] = bnew]
           slots == [t.slot EXCEPT ![a] = snew]
           u == Filled(t, c, a, attr, waits)
<1>1. /\ t \in Tracers
      /\ \A x \in Cls : t.cl[x] # None => ListExact(t, x)
      /\ \A x \in Slabs : SlabKnown(t, x)
      /\ \A x \in Addrs : SlotKnown(t, x)
      /\ \A x \in Slabs : HeldExact(t, {}, x)
  BY SoundFacts
<1>2. /\ t = [cl |-> t.cl, slab |-> t.slab, slot |-> t.slot, latest |-> t.latest,
              kts |-> t.kts]
      /\ t.cl \in [Cls -> CommandLists \union {None}]
      /\ t.slab \in [Slabs -> SlabRecords] /\ t.slot \in [Addrs -> Slots]
      /\ t.latest \in [Events -> Addrs \union {None}] /\ t.kts \in SUBSET Timed
  BY <1>1, TracerTypes
<1>3. SlabSlots \in Nat /\ Cls \intersect {"free", "detached"} = {} /\ Immediate \subseteq Cls
  BY ZeAssumption DEF Cls
<1>4. /\ s \in SlabRecords /\ s.n_used \in 0 .. SlabSlots /\ s.n_held \in 0 .. SlabSlots
      /\ s.n_held <= s.n_used /\ s.n_used < SlabSlots /\ s.owner = c
  BY <1>1, SlabTypes DEF SlabKnown
<1>5. a = <<b, s.n_used + 1>> /\ a[1] = b /\ a[2] = s.n_used + 1 /\ a \in Addrs
  <2>1. a = <<b, s.n_used + 1>>
    BY DEF NextSlot
  <2>2. s.n_used + 1 \in 1 .. SlabSlots
    BY <1>3, <1>4
  <2> QED
    BY <2>1, <2>2, AddrFacts
<1>6. t.slot[a] = NoSlot
  <2>1. PICK k \in Nat : k = s.n_used
    BY <1>4
  <2>4. t.slab[a[1]].n_used = k /\ a[2] = k + 1
    BY <1>5, <2>1
  <2>2. a[2] > t.slab[a[1]].n_used
    BY <2>4
  <2>3. SlotKnown(t, a)
    BY <1>1, <1>5
  <2> QED
    BY <2>2, <2>3 DEF SlotKnown
<1>7. /\ bnew \in SlabRecords /\ bnew.owner = c /\ bnew.n_used = s.n_used + 1
      /\ bnew.n_held = s.n_held + 1
  <2>1. s.n_used + 1 \in 0 .. SlabSlots /\ s.n_held + 1 \in 0 .. SlabSlots
    BY <1>3, <1>4
  <2>2. PICK r \in SlabRecords, i \in 0 .. SlabSlots, j \in 0 .. SlabSlots :
          r = s /\ i = s.n_used + 1 /\ j = s.n_held + 1
    BY <1>4, <2>1
  <2>3. bnew = [r EXCEPT !.n_used = i, !.n_held = j]
    BY <2>2
  <2> HIDE DEF bnew
  <2>4. bnew \in SlabRecords /\ bnew.owner = r.owner /\ bnew.n_used = i /\ bnew.n_held = j
    BY <2>3 DEF SlabRecords
  <2> QED
    BY <1>4, <2>2, <2>4
<1>8. /\ snew \in Slots /\ snew.live = FALSE /\ snew.refs = 0
      /\ NoSlot.live = FALSE /\ NoSlot.refs = 0
  <2>1. NoSlot \in Slots /\ NoSlot.live = FALSE /\ NoSlot.refs = 0
    BY NewTypes DEF NoSlot
  <2> DEFINE dev == IF c \in Immediate THEN "running" ELSE "recorded"
  <2>2. dev \in {"recorded", "running", "done"}
    OBVIOUS
  <2> HIDE DEF dev
  <2>3. [NoSlot EXCEPT !.inj = TRUE, !.attr = attr, !.waits = waits, !.device = dev] \in Slots
    BY <2>1, <2>2 DEF Slots
  <2>4. /\ [NoSlot EXCEPT !.inj = TRUE, !.attr = attr, !.waits = waits, !.device = dev].live
             = NoSlot.live
        /\ [NoSlot EXCEPT !.inj = TRUE, !.attr = attr, !.waits = waits, !.device = dev].refs
             = NoSlot.refs
    BY <2>1 DEF Slots
  <2> QED
    BY <2>1, <2>3, <2>4 DEF dev
<1> HIDE DEF snew
<1>9. u = [cl |-> t.cl, slab |-> slabs, slot |-> slots, latest |-> t.latest, kts |-> t.kts]
  <2> DEFINE t1 == [t EXCEPT !.slab[a[1]].n_used = @ + 1]
             t2 == [t1 EXCEPT !.slab[a[1]].n_held = t.slab[a[1]].n_held + 1]
             t3 == [t2 EXCEPT !.slot[a] = snew]
             s1 == [t.slab EXCEPT ![b].n_used = @ + 1]
             s2 == [s1 EXCEPT ![b].n_held = s.n_held + 1]
  <2>1. u = t3
    BY DEF Filled, snew
  <2>2. t1 = [t EXCEPT !.slab = s1]
    BY <1>5
  <2>9. s2 = slabs
    BY <1>2, <1>4 DEF SlabRecords
  <2> HIDE DEF u, s1, t1, slots, slabs
  <2>3. t1 = [cl |-> t.cl, slab |-> s1, slot |-> t.slot, latest |-> t.latest, kts |-> t.kts]
    BY <1>2, <2>2, Update
  <2>4. t2 = [t1 EXCEPT !.slab = s2]
    BY <1>5, <2>3
  <2> HIDE DEF s2, t2
  <2>5. t2 = [cl |-> t.cl, slab |-> s2, slot |-> t.slot, latest |-> t.latest, kts |-> t.kts]
    BY <2>3, <2>4, Update
  <2>6. t3 = [t2 EXCEPT !.slot = slots]
    BY <2>5 DEF slots
  <2> HIDE DEF t3
  <2>7. t3 = [cl |-> t.cl, slab |-> s2, slot |-> slots, latest |-> t.latest, kts |-> t.kts]
    BY <2>5, <2>6, Update
  <2> QED
    BY <2>1, <2>7, <2>9
<1> HIDE DEF u, bnew
<1>10. u.cl = t.cl /\ u.slab = slabs /\ u.slot = slots /\ u.latest = t.latest /\ u.kts = t.kts
  BY <1>9
<1>11. /\ slabs \in [Slabs -> SlabRecords] /\ slabs[b] = bnew
       /\ \A x \in Slabs : x # b => slabs[x] = t.slab[x]
       /\ slots \in [Addrs -> Slots] /\ slots[a] = snew
       /\ \A x \in Addrs : x # a => slots[x] = t.slot[x]
  BY <1>2, <1>5, <1>7, <1>8
<1> HIDE DEF slabs, slots
<1>12. u \in Tracers
  BY <1>2, <1>9, <1>11 DEF Tracers
<1>13. \A x \in Slabs : u.slab[x].owner = t.slab[x].owner
  BY <1>4, <1>7, <1>10, <1>11
<1>14. \A x \in Addrs : /\ u.slot[x].live = t.slot[x].live
                        /\ u.slot[x].refs = t.slot[x].refs
                        /\ t.slot[x].live => /\ u.slot[x].preds = t.slot[x].preds
                                             /\ u.slot[x].attr = t.slot[x].attr
                                             /\ Owner(u, x) = Owner(t, x)
                        /\ x[2] > u.slab[x[1]].n_used => u.slot[x] = NoSlot
  <2> TAKE x \in Addrs
  <2>1. x[1] \in Slabs /\ x[2] \in 1 .. SlabSlots /\ SlotKnown(t, x) /\ x = <<x[1], x[2]>>
    BY <1>1, AddrFacts
  <2>2. Owner(u, x) = Owner(t, x)
    BY <1>13, <2>1 DEF Owner
  <2>3. CASE x = a
    <3>1. ~(x[2] > u.slab[x[1]].n_used)
      <4>1. x[1] = b /\ x[2] = s.n_used + 1
        BY <1>5, <2>3
      <4>2. u.slab[b].n_used = s.n_used + 1
        BY <1>7, <1>10, <1>11
      <4>3. u.slab[x[1]].n_used = x[2] /\ x[2] \in Int
        BY <2>1, <4>1, <4>2
      <4> QED
        BY <4>3
    <3> QED
      BY <1>6, <1>8, <1>10, <1>11, <2>3, <3>1
  <2>4. CASE x # a
    <3>1. u.slot[x] = t.slot[x]
      BY <1>10, <1>11, <2>4
    <3>2. x[2] > u.slab[x[1]].n_used => x[2] > t.slab[x[1]].n_used
      <4>1. CASE x[1] # b
        BY <1>10, <1>11, <2>1, <4>1
      <4>2. CASE x[1] = b
        <5>1. u.slab[x[1]].n_used = t.slab[x[1]].n_used + 1
          BY <1>7, <1>10, <1>11, <4>2
        <5>2. t.slab[x[1]].n_used \in Nat
          BY <1>4, <4>2
        <5> QED
          BY <1>3, <2>1, <5>1, <5>2
      <4> QED
        BY <4>1, <4>2
    <3> QED
      BY <2>1, <2>2, <3>1, <3>2 DEF SlotKnown
  <2> QED
    BY <2>3, <2>4
<1>15. \A x \in Cls : u.cl[x] # None =>
         /\ u.cl[x].tail # None => u.slab[u.cl[x].tail].owner = x
         /\ \/ /\ t.cl[x] # None
               /\ u.cl[x].n_live = t.cl[x].n_live
               /\ u.cl[x].live_slots = t.cl[x].live_slots
            \/ LiveOf(t, x) = {} /\ u.cl[x].n_live = 0 /\ u.cl[x].live_slots = <<>>
  <2> SUFFICES ASSUME NEW x \in Cls, t.cl[x] # None, t.cl[x].tail # None
               PROVE  u.slab[t.cl[x].tail].owner = x
    BY <1>10
  <2>1. t.cl[x].tail \in Slabs /\ t.slab[t.cl[x].tail].owner = x
    BY <1>1, ListTypes DEF ListExact
  <2> QED
    BY <1>13, <2>1
<1>16. \A x \in Slabs : SlabKnown(u, x)
  <2> TAKE x \in Slabs
  <2>1. CASE x # b
    BY <1>1, <1>10, <1>11, <2>1 DEF SlabKnown
  <2>2. CASE x = b
    <3>1. u.slab[x] = bnew
      BY <1>10, <1>11, <2>2
    <3>2. s.n_held + 1 <= s.n_used + 1 /\ c # "free"
      BY <1>3, <1>4
    <3> QED
      BY <1>7, <1>10, <3>1, <3>2 DEF SlabKnown
  <2> QED
    BY <2>1, <2>2
<1>17. \A x \in Slabs : HeldExact(u, {a}, x)
  <2> TAKE x \in Slabs
  <2>1. Needed(u, x) = Needed(t, x)
    BY <1>14 DEF Needed
  <2>2. Needed(t, x) \union {y \in {} : y[1] = x} = Needed(t, x)
    OBVIOUS
  <2>3. IsTail(u, x) <=> IsTail(t, x)
    BY <1>10, <1>13 DEF IsTail
  <2>4. CASE x # b
    <3>1. {y \in {a} : y[1] = x} = {} /\ u.slab[x] = t.slab[x]
      BY <1>5, <1>10, <1>11, <2>4
    <3>2. Needed(u, x) \union {y \in {a} : y[1] = x} = Needed(t, x)
      BY <2>1, <3>1
    <3> QED
      BY <1>1, <2>1, <2>2, <2>3, <3>1, <3>2 DEF HeldExact
  <2>5. CASE x = b
    <3>1. u.slab[x] = bnew /\ c # "detached"
      BY <1>3, <1>10, <1>11, <2>5
    <3>2. a \notin Needed(t, x)
      BY <1>6, LiveUsed
    <3>3. Needed(u, x) \union {y \in {a} : y[1] = x} = Needed(t, x) \union {a}
      BY <1>5, <2>1, <2>5
    <3>4. Cardinality(Needed(t, x) \union {a}) = Cardinality(Needed(t, x)) + 1
      BY <3>2, NeededFinite, FS_AddElement
    <3>5. c \in Immediate => s.n_held = Cardinality(Needed(t, x))
      BY <1>1, <1>4, <2>2, <2>5 DEF HeldExact
    <3>6. s.n_held + 1 > 0
      BY <1>3, <1>4
    <3> QED
      BY <1>7, <3>1, <3>3, <3>4, <3>5, <3>6 DEF HeldExact
  <2> QED
    BY <2>4, <2>5
<1>18. \A e \in Events : u.latest[e] \in {t.latest[e], None}
  BY <1>10
<1>19. Sound(u, {a})
  BY <1>12, <1>14, <1>15, <1>16, <1>17, <1>18, QuietSound
<1>20. u.cl[c] # None /\ u.slot[a].live = FALSE
  BY <1>8, <1>10, <1>11
<1>21. a \in SlotsOf(u, c)
  <2>1. u.slab[b].owner = c /\ u.slab[b].n_used = s.n_used + 1
    BY <1>4, <1>7, <1>10, <1>11
  <2>2. u.slab[a[1]].owner = c /\ u.slab[a[1]].n_used = a[2]
    BY <1>5, <2>1
  <2>3. a \in Addrs /\ a[2] \in Int
    BY <1>5, AddrFacts
  <2>4. a[2] <= u.slab[a[1]].n_used
    BY <2>2, <2>3
  <2> QED
    BY <2>2, <2>3, <2>4 DEF SlotsOf, Owner
<1>22. /\ u.slot[a] = NewSlot(c, attr, waits)
       /\ \A x \in Addrs : x # a => u.slot[x] = t.slot[x]
  BY <1>10, <1>11 DEF snew, NewSlot
<1>23. /\ u.slab[a[1]].n_used = a[2]
       /\ \A x \in Slabs : x # a[1] => u.slab[x].n_used = t.slab[x].n_used
  BY <1>5, <1>7, <1>10, <1>11
<1> QED
  BY <1>6, <1>10, <1>13, <1>19, <1>20, <1>21, <1>22, <1>23 DEF u, FillFacts

LEMMA FilledSound ==
  ASSUME NEW t, Sound(t, {}), NEW c \in Cls, t.cl[c] # None, NEW a,
         a = NextSlot(t, c), t.cl[c].tail \in Slabs, t.slab[t.cl[c].tail].owner = c,
         t.slab[t.cl[c].tail].n_used < SlabSlots,
         NEW attr \in Events \union {None}, NEW waits \in WaitLists
  PROVE  LET u == Filled(t, c, a, attr, waits) IN
         /\ Sound(u, {a})
         /\ u.cl[c] # None
         /\ a \in SlotsOf(u, c)
         /\ u.slot[a].live = FALSE
<1> DEFINE u == Filled(t, c, a, attr, waits)
<1> HIDE DEF u
<1>1. FillFacts(t, u, c, a, attr, waits)
  BY FilledShape DEF u
<1>2. NewSlot(c, attr, waits).live = FALSE
  BY NewTypes DEF NewSlot, NoSlot
<1> QED
  BY <1>1, <1>2 DEF u, FillFacts

\* The new edges lead to live slots.
LEMMA NewPredsLive ==
  ASSUME NEW t, NEW X, Sound(t, X), NEW c \in Cls, t.cl[c] # None, NEW a \in Addrs
  PROVE  NewPreds(t, c, a) \subseteq (0 .. MaxWaits) \X Live(t)
<1> DEFINE waits == t.slot[a].waits
           chain == t.cl[c].live_slots
           W == {<<i, t.latest[waits[i]]>> :
                   i \in {i \in DOMAIN waits : t.latest[waits[i]] \in Live(t)}}
           P == IF c \in InOrder /\ chain # <<>> THEN {<<0, Last(chain)>>} ELSE {}
<1>1. t \in Tracers /\ ListExact(t, c)
  BY SoundFacts
<1>2. NewPreds(t, c, a) = W \union P
  BY DEF NewPreds
<1>3. MaxWaits \in Nat
  BY ZeAssumption
<1>4. W \subseteq (0 .. MaxWaits) \X Live(t)
  <2>1. waits \in WaitLists
    BY <1>1, SlotTypes
  <2>2. PICK n \in 0 .. MaxWaits : waits \in [1 .. n -> Events]
    BY <2>1 DEF WaitLists
  <2>3. DOMAIN waits \subseteq 0 .. MaxWaits
    BY <1>3, <2>2
  <2> QED
    BY <2>3
<1>5. P \subseteq (0 .. MaxWaits) \X Live(t)
  <2> SUFFICES ASSUME c \in InOrder, chain # <<>>
               PROVE  Last(chain) \in Live(t)
    BY <1>3
  <2>1. chain \in Seq(Addrs) /\ ToSet(chain) = LiveOf(t, c)
    BY <1>1, ListTypes DEF ListExact
  <2>2. Last(chain) \in ToSet(chain)
    <3>1. Len(chain) \in Nat /\ Len(chain) # 0
      BY <2>1
    <3>2. Len(chain) \in DOMAIN chain
      BY <2>1, <3>1
    <3> QED
      BY <3>2 DEF Last, ToSet
  <2> QED
    BY <2>1, <2>2 DEF LiveOf
<1> QED
  BY <1>2, <1>4, <1>5

MadeLive(t, c, a) == [t.slot[a] EXCEPT !.live = TRUE, !.preds = NewPreds(t, c, a),
                                       !.refs = t.slot[a].refs + Taken(NewPreds(t, c, a), a)]
Referred(t, c, a, x) ==
  [t.slot[x] EXCEPT !.refs = t.slot[x].refs + Taken(NewPreds(t, c, a), x)]
Lengthened(t, c, a) ==
  [t.cl[c] EXCEPT !.n_live = t.cl[c].n_live + 1,
                  !.live_slots = IF c \in InOrder THEN Append(t.cl[c].live_slots, a)
                                 ELSE t.cl[c].live_slots]
Published(t, a) == IF t.slot[a].attr = None THEN t.latest
                   ELSE [t.latest EXCEPT ![t.slot[a].attr] = a]

Instantiated(t, u, c, a) ==
  /\ u = [cl |-> u.cl, slab |-> t.slab, slot |-> u.slot, latest |-> u.latest,
          kts |-> t.kts]
  /\ u.slab = t.slab /\ u.kts = t.kts
  /\ u.slot \in [Addrs -> {u.slot[x] : x \in Addrs}]
  /\ u.slot[a] = MadeLive(t, c, a)
  /\ \A x \in Addrs : x # a => u.slot[x] = Referred(t, c, a, x)
  /\ u.cl = [t.cl EXCEPT ![c] = Lengthened(t, c, a)]
  /\ u.latest = Published(t, a)

LEMMA InstantiateShape ==
  ASSUME NEW t \in Tracers, NEW c \in Cls, t.cl[c] # None, NEW a \in Addrs
  PROVE  Instantiated(t, Instantiate(t, c, a), c, a)
<1> DEFINE u == Instantiate(t, c, a)
           preds == NewPreds(t, c, a)
           l == t.cl[c]
           attr == t.slot[a].attr
           made == [t.slot EXCEPT ![a].live = TRUE, ![a].preds = preds]
           slots == [x \in Addrs |-> [made[x] EXCEPT !.refs = made[x].refs + Taken(preds, x)]]
           chain == IF c \in InOrder THEN Append(l.live_slots, a) ELSE l.live_slots
           lnew == [l EXCEPT !.n_live = l.n_live + 1, !.live_slots = chain]
           cls == [t.cl EXCEPT ![c] = lnew]
           last == IF attr = None THEN t.latest ELSE [t.latest EXCEPT ![attr] = a]
<1>1. /\ t = [cl |-> t.cl, slab |-> t.slab, slot |-> t.slot, latest |-> t.latest,
              kts |-> t.kts]
      /\ t.cl \in [Cls -> CommandLists \union {None}] /\ t.slot \in [Addrs -> Slots]
      /\ l \in CommandLists
  BY TracerTypes, ListTypes
<1>2. u = [cl |-> cls, slab |-> t.slab, slot |-> slots, latest |-> last, kts |-> t.kts]
  <2> DEFINE t1 == [t EXCEPT !.slot = slots]
             t2 == [t1 EXCEPT !.cl[c].n_live = t.cl[c].n_live + 1]
             t3 == [t2 EXCEPT !.cl[c].live_slots = IF c \in InOrder
                                                   THEN Append(t.cl[c].live_slots, a)
                                                   ELSE t.cl[c].live_slots]
             t4 == [t3 EXCEPT !.latest = last]
             c1 == [t.cl EXCEPT ![c].n_live = l.n_live + 1]
             c2 == [c1 EXCEPT ![c].live_slots = chain]
  <2>1. u = t4
    BY DEF Instantiate
  <2>2. c2 = cls
    BY <1>1 DEF CommandLists
  <2> HIDE DEF u, slots, last, cls, chain
  <2>3. t1 = [cl |-> t.cl, slab |-> t.slab, slot |-> slots, latest |-> t.latest, kts |-> t.kts]
    BY <1>1, Update
  <2> HIDE DEF t1
  <2>4. t2 = [t1 EXCEPT !.cl = c1]
    BY <2>3
  <2> HIDE DEF t2, c1
  <2>5. t2 = [cl |-> c1, slab |-> t.slab, slot |-> slots, latest |-> t.latest, kts |-> t.kts]
    BY <2>3, <2>4, Update
  <2>6. t3 = [t2 EXCEPT !.cl = c2]
    BY <2>5 DEF chain
  <2> HIDE DEF t3, c2
  <2>7. t3 = [cl |-> c2, slab |-> t.slab, slot |-> slots, latest |-> t.latest, kts |-> t.kts]
    BY <2>5, <2>6, Update
  <2> HIDE DEF t4
  <2>8. t4 = [cl |-> c2, slab |-> t.slab, slot |-> slots, latest |-> last, kts |-> t.kts]
    BY <2>7, Update DEF t4
  <2> QED
    BY <2>1, <2>2, <2>8
<1> HIDE DEF u, cls, slots, last, preds
<1>3. u.cl = cls /\ u.slab = t.slab /\ u.slot = slots /\ u.latest = last /\ u.kts = t.kts
  BY <1>2
<1>4. u = [cl |-> u.cl, slab |-> t.slab, slot |-> u.slot, latest |-> u.latest, kts |-> t.kts]
  BY <1>2, <1>3
<1>5. slots \in [Addrs -> {slots[x] : x \in Addrs}]
  BY DEF slots
<1>6. \A x \in Addrs : slots[x] = [made[x] EXCEPT !.refs = made[x].refs + Taken(preds, x)]
  BY DEF slots
<1>7. \A x \in Addrs : x # a => made[x] = t.slot[x]
  BY <1>1
<1>8. \A x \in Addrs : x # a =>
        slots[x] = [t.slot[x] EXCEPT !.refs = t.slot[x].refs + Taken(preds, x)]
  BY <1>6, <1>7
<1>9. slots[a] = [t.slot[a] EXCEPT !.live = TRUE, !.preds = preds,
                                   !.refs = t.slot[a].refs + Taken(preds, a)]
  <2>1. made[a] = [t.slot[a] EXCEPT !.live = TRUE, !.preds = preds]
    BY <1>1
  <2>2. made[a].refs = t.slot[a].refs
    BY <1>1, <2>1 DEF Slots
  <2> HIDE DEF made
  <2> QED
    BY <1>6, <2>1, <2>2
<1> HIDE DEF made
<1>10. cls = [t.cl EXCEPT ![c] = Lengthened(t, c, a)]
  BY DEF cls, Lengthened
<1>11. last = Published(t, a)
  BY DEF last, Published
<1>12. slots[a] = MadeLive(t, c, a) /\ \A x \in Addrs : x # a => slots[x] = Referred(t, c, a, x)
  BY <1>8, <1>9 DEF MadeLive, Referred, preds
<1> QED
  BY <1>3, <1>4, <1>5, <1>10, <1>11, <1>12 DEF u, Instantiated

\* _slot_instantiate makes a slot of a known list live; an immediate list
\* holds the slot already.
LEMMA InstantiateSound ==
  ASSUME NEW t, NEW X, Sound(t, X), NEW c \in Cls, t.cl[c] # None, NEW a \in SlotsOf(t, c),
         t.slot[a].live = FALSE, X \subseteq {a}, c \in Immediate => X = {a}
  PROVE  LET u == Instantiate(t, c, a) IN
         /\ Sound(u, {})
         /\ u.slab = t.slab
         /\ u.cl[c] # None /\ u.cl[c].tail = t.cl[c].tail
<1> DEFINE u == Instantiate(t, c, a)
           preds == NewPreds(t, c, a)
           l == t.cl[c]
           s == t.slot[a]
           chain == IF c \in InOrder THEN Append(l.live_slots, a) ELSE l.live_slots
<1>1. /\ t \in Tracers
      /\ \A x \in Addrs : t.slot[x].refs = Edges(t, Live(t), x)
      /\ \A x \in Cls : t.cl[x] # None => ListExact(t, x)
      /\ \A b \in Slabs : SlabKnown(t, b)
      /\ \A x \in Addrs : SlotKnown(t, x)
      /\ \A b \in Slabs : HeldExact(t, X, b)
      /\ LatestLive(t)
  BY SoundFacts
<1>2. /\ t.cl \in [Cls -> CommandLists \union {None}]
      /\ t.slab \in [Slabs -> SlabRecords] /\ t.slot \in [Addrs -> Slots]
      /\ t.latest \in [Events -> Addrs \union {None}] /\ t.kts \in SUBSET Timed
  BY <1>1, TracerTypes
<1>3. /\ a \in Addrs /\ Owner(t, a) = c /\ a[2] <= t.slab[a[1]].n_used /\ a[1] \in Slabs
      /\ a \notin Live(t)
  BY AddrFacts DEF SlotsOf, Live
<1>4. preds \subseteq (0 .. MaxWaits) \X Live(t)
  BY <1>3, NewPredsLive
<1>5. Live(t) \subseteq Addrs /\ IsFiniteSet(Live(t))
  BY <1>1, LiveFacts
<1>a. /\ u = [cl |-> u.cl, slab |-> t.slab, slot |-> u.slot, latest |-> u.latest,
              kts |-> t.kts]
      /\ u.slab = t.slab /\ u.kts = t.kts
      /\ u.slot \in [Addrs -> {u.slot[x] : x \in Addrs}]
      /\ u.slot[a] = MadeLive(t, c, a)
      /\ \A x \in Addrs : x # a => u.slot[x] = Referred(t, c, a, x)
      /\ u.cl = [t.cl EXCEPT ![c] = Lengthened(t, c, a)]
      /\ u.latest = Published(t, a)
  <2>1. Instantiated(t, u, c, a)
    BY <1>1, <1>3, InstantiateShape
  <2> HIDE DEF u
  <2> QED
    BY <2>1 DEF Instantiated
<1> HIDE DEF u
<1>6. /\ u = [cl |-> u.cl, slab |-> t.slab, slot |-> u.slot, latest |-> u.latest,
              kts |-> t.kts]
      /\ u.slab = t.slab /\ u.kts = t.kts
      /\ u.slot \in [Addrs -> {u.slot[x] : x \in Addrs}]
      /\ u.slot[a] = [t.slot[a] EXCEPT !.live = TRUE, !.preds = preds,
                                       !.refs = t.slot[a].refs + Taken(preds, a)]
      /\ \A x \in Addrs : x # a =>
           u.slot[x] = [t.slot[x] EXCEPT !.refs = t.slot[x].refs + Taken(preds, x)]
      /\ u.cl = [t.cl EXCEPT ![c] =
           [l EXCEPT !.n_live = l.n_live + 1,
                     !.live_slots = IF c \in InOrder THEN Append(l.live_slots, a)
                                    ELSE l.live_slots]]
      /\ u.latest = IF t.slot[a].attr = None THEN t.latest
                    ELSE [t.latest EXCEPT ![t.slot[a].attr] = a]
  <2>1. u.slot[a] = [t.slot[a] EXCEPT !.live = TRUE, !.preds = preds,
                                      !.refs = t.slot[a].refs + Taken(preds, a)]
    BY <1>a DEF MadeLive
  <2>2. \A x \in Addrs : x # a =>
          u.slot[x] = [t.slot[x] EXCEPT !.refs = t.slot[x].refs + Taken(preds, x)]
    BY <1>a DEF Referred
  <2>3. u.cl = [t.cl EXCEPT ![c] =
          [l EXCEPT !.n_live = l.n_live + 1,
                    !.live_slots = IF c \in InOrder THEN Append(l.live_slots, a)
                                   ELSE l.live_slots]]
    BY <1>a DEF Lengthened
  <2>4. u.latest = IF t.slot[a].attr = None THEN t.latest
                   ELSE [t.latest EXCEPT ![t.slot[a].attr] = a]
    BY <1>a DEF Published
  <2> HIDE DEF preds, l
  <2> QED
    BY <1>a, <2>1, <2>2, <2>3, <2>4
<1> HIDE DEF preds
<1>7. \A p : Taken(preds, p) \in Nat
  <2> TAKE p
  <2>1. MaxWaits \in Nat
    BY ZeAssumption
  <2>2. IsFiniteSet(0 .. MaxWaits)
    BY <2>1, FS_Interval
  <2>3. IsFiniteSet({i \in 0 .. MaxWaits : <<i, p>> \in preds})
    BY <2>2, FS_Subset
  <2> QED
    BY <2>3, FS_CardinalityType DEF Taken
<1>8. \A p \in Addrs : p \notin Live(t) => Taken(preds, p) = 0
  <2> SUFFICES ASSUME NEW p \in Addrs, p \notin Live(t) PROVE Taken(preds, p) = 0
    OBVIOUS
  <2>1. {i \in 0 .. MaxWaits : <<i, p>> \in preds} = {}
    BY <1>4
  <2> QED
    BY <2>1, FS_EmptySet DEF Taken
<1>9. /\ u.slot[a] \in Slots
      /\ u.slot[a].live = TRUE /\ u.slot[a].preds = preds /\ u.slot[a].attr = s.attr
      /\ u.slot[a].refs = s.refs + Taken(preds, a)
  <2>1. s \in Slots /\ s.refs \in Nat
    BY <1>1, <1>3, SlotTypes
  <2>2. preds \in SUBSET ((0 .. MaxWaits) \X Addrs)
    BY <1>4, <1>5
  <2>3. s.refs + Taken(preds, a) \in Nat
    BY <1>7, <2>1
  <2>4. u.slot[a] = [s EXCEPT !.live = TRUE, !.preds = preds,
                              !.refs = s.refs + Taken(preds, a)]
    BY <1>6
  <2> HIDE DEF s
  <2> QED
    BY <2>1, <2>2, <2>3, <2>4 DEF Slots
<1>10. \A x \in Addrs : x # a =>
         /\ u.slot[x] \in Slots
         /\ u.slot[x].live = t.slot[x].live /\ u.slot[x].preds = t.slot[x].preds
         /\ u.slot[x].attr = t.slot[x].attr
         /\ u.slot[x].refs = t.slot[x].refs + Taken(preds, x)
         /\ x \notin Live(t) => u.slot[x] = t.slot[x]
  <2> SUFFICES ASSUME NEW x \in Addrs, x # a
               PROVE  /\ u.slot[x] \in Slots
                      /\ u.slot[x].live = t.slot[x].live /\ u.slot[x].preds = t.slot[x].preds
                      /\ u.slot[x].attr = t.slot[x].attr
                      /\ u.slot[x].refs = t.slot[x].refs + Taken(preds, x)
                      /\ x \notin Live(t) => u.slot[x] = t.slot[x]
    OBVIOUS
  <2>1. t.slot[x] \in Slots /\ t.slot[x].refs \in Nat
    BY <1>1, SlotTypes
  <2>2. t.slot[x].refs + Taken(preds, x) \in Nat
    BY <1>7, <2>1
  <2>3. u.slot[x] = [t.slot[x] EXCEPT !.refs = t.slot[x].refs + Taken(preds, x)]
    BY <1>6
  <2>4. /\ u.slot[x] \in Slots
        /\ u.slot[x].live = t.slot[x].live /\ u.slot[x].preds = t.slot[x].preds
        /\ u.slot[x].attr = t.slot[x].attr
        /\ u.slot[x].refs = t.slot[x].refs + Taken(preds, x)
    BY <2>1, <2>2, <2>3 DEF Slots
  <2>5. ASSUME x \notin Live(t) PROVE u.slot[x] = t.slot[x]
    <3>1. t.slot[x].refs + Taken(preds, x) = t.slot[x].refs
      BY <1>8, <2>1, <2>5
    <3> QED
      BY <2>1, <2>3, <3>1 DEF Slots
  <2> QED
    BY <2>4, <2>5
<1>11. Live(u) = Live(t) \union {a}
  BY <1>3, <1>9, <1>10 DEF Live
<1>12. \A x \in Addrs : Owner(u, x) = Owner(t, x)
  BY <1>6 DEF Owner
<1>13. /\ LiveOf(u, c) = LiveOf(t, c) \union {a} /\ a \notin LiveOf(t, c)
       /\ IsFiniteSet(LiveOf(t, c))
       /\ \A x \in Cls : x # c => LiveOf(u, x) = LiveOf(t, x)
  <2>1. IsFiniteSet(LiveOf(t, c))
    BY <1>5, FS_Subset DEF LiveOf
  <2>2. \A y \in Live(t) \union {a} : Owner(u, y) = Owner(t, y)
    BY <1>3, <1>5, <1>12
  <2> QED
    BY <1>3, <1>11, <2>1, <2>2 DEF LiveOf
<1>14. /\ u.cl \in [Cls -> CommandLists \union {None}]
       /\ u.cl[c] # None /\ u.cl[c].tail = l.tail
       /\ u.cl[c].n_live = l.n_live + 1 /\ u.cl[c].live_slots = chain
       /\ \A x \in Cls : x # c => u.cl[x] = t.cl[x]
  <2> DEFINE k == l.n_live + 1
             lnew == [l EXCEPT !.n_live = k, !.live_slots = chain]
  <2>1. l \in CommandLists /\ l.n_live \in Nat /\ l.live_slots \in Seq(Addrs)
    BY <1>1, ListTypes
  <2>2. chain \in Seq(Addrs) /\ k \in Nat
    BY <1>3, <2>1
  <2>3. u.cl = [t.cl EXCEPT ![c] = lnew]
    BY <1>6
  <2> HIDE DEF chain, k
  <2>4. /\ lnew \in CommandLists /\ lnew.tail = l.tail
        /\ lnew.n_live = k /\ lnew.live_slots = chain
    BY <2>1, <2>2 DEF CommandLists
  <2> HIDE DEF lnew
  <2> QED
    BY <1>2, <2>3, <2>4, NewTypes DEF k
<1>15. u.latest \in [Events -> Addrs \union {None}]
       /\ \A e \in Events : u.latest[e] = t.latest[e] \/ (u.latest[e] = a /\ e = s.attr)
  <2>1. s.attr \in Events \union {None}
    BY <1>1, <1>3, SlotTypes
  <2> QED
    BY <1>2, <1>3, <1>6, <2>1
<1>16. u \in Tracers
  <2> DEFINE cl == u.cl
             slot == u.slot
             latest == u.latest
  <2>1. \A x \in Addrs : u.slot[x] \in Slots
    BY <1>9, <1>10
  <2>2. slot \in [Addrs -> Slots]
    BY <1>6, <2>1
  <2>3. u = [cl |-> cl, slab |-> t.slab, slot |-> slot, latest |-> latest, kts |-> t.kts]
    BY <1>6
  <2>4. cl \in [Cls -> CommandLists \union {None}] /\ latest \in [Events -> Addrs \union {None}]
    BY <1>14, <1>15
  <2> HIDE DEF cl, slot, latest
  <2> QED
    BY <1>2, <2>2, <2>3, <2>4 DEF Tracers
<1>17. RefsExact(u)
  <2> SUFFICES ASSUME NEW p \in Addrs PROVE u.slot[p].refs = Edges(u, Live(u), p)
    BY DEF RefsExact
  <2>1. u.slot[p].refs = t.slot[p].refs + Taken(preds, p)
    BY <1>9, <1>10
  <2>2. Edges(u, Live(t) \union {a}, p) = Edges(u, Live(t), p) + Taken(u.slot[a].preds, p)
    BY <1>3, <1>5, EdgesPlus
  <2>3. \A x \in Live(t) : u.slot[x].preds = t.slot[x].preds
    BY <1>3, <1>5, <1>10
  <2>4. Edges(u, Live(t), p) = Edges(t, Live(t), p)
    BY <2>3, EdgesSame
  <2>5. t.slot[p].refs = Edges(t, Live(t), p)
    BY <1>1
  <2>6. Edges(u, Live(u), p) = Edges(t, Live(t), p) + Taken(preds, p)
    BY <1>9, <1>11, <2>2, <2>4
  <2> QED
    BY <2>1, <2>5, <2>6
<1>18. ListExact(u, c)
  <2>1. ListExact(t, c)
    BY <1>1
  <2>2. u.cl[c].n_live = Cardinality(LiveOf(u, c))
    <3>1. Cardinality(LiveOf(t, c) \union {a}) = Cardinality(LiveOf(t, c)) + 1
      BY <1>13, FS_AddElement
    <3>2. l.n_live = Cardinality(LiveOf(t, c))
      BY <2>1 DEF ListExact
    <3> QED
      BY <1>13, <1>14, <3>1, <3>2
  <2>3. ASSUME c \in InOrder
        PROVE  ToSet(u.cl[c].live_slots) = LiveOf(u, c) /\ Injective(u.cl[c].live_slots)
    <3> DEFINE q == l.live_slots
               w == Append(q, a)
    <3>1. u.cl[c].live_slots = w
      BY <1>14, <2>3
    <3>2. q \in Seq(Addrs) /\ ToSet(q) = LiveOf(t, c) /\ Injective(q)
      BY <1>1, <2>1, <2>3, ListTypes DEF ListExact
    <3> HIDE DEF q
    <3>3. /\ DOMAIN q = 1 .. Len(q) /\ Len(q) \in Nat
          /\ DOMAIN w = 1 .. (Len(q) + 1)
          /\ \A i \in 1 .. Len(q) : w[i] = q[i]
          /\ w[Len(q) + 1] = a
      BY <1>3, <3>2
    <3> HIDE DEF w
    <3>4. \A i \in 1 .. Len(q) : q[i] # a
      BY <1>13, <3>2, <3>3 DEF ToSet
    <3>5. \A i \in DOMAIN w : i \in 1 .. Len(q) \/ i = Len(q) + 1
      BY <3>3
    <3>6. ToSet(w) = ToSet(q) \union {a}
      <4>1. ASSUME NEW x \in ToSet(w) PROVE x \in ToSet(q) \union {a}
        BY <3>3, <3>5 DEF ToSet
      <4>2. ASSUME NEW x \in ToSet(q) \union {a} PROVE x \in ToSet(w)
        <5>1. 1 .. Len(q) \subseteq DOMAIN w /\ Len(q) + 1 \in DOMAIN w
          BY <3>3
        <5> QED
          BY <3>3, <5>1 DEF ToSet
      <4> QED
        BY <4>1, <4>2
    <3>7. Injective(w)
      <4> SUFFICES ASSUME NEW i \in DOMAIN w, NEW j \in DOMAIN w, w[i] = w[j] PROVE i = j
        BY DEF Injective
      <4> QED
        BY <3>2, <3>3, <3>4, <3>5 DEF Injective
    <3> QED
      BY <1>13, <3>1, <3>2, <3>6, <3>7
  <2>4. u.cl[c].tail # None => u.slab[u.cl[c].tail].owner = c
    BY <1>6, <1>14, <2>1 DEF ListExact
  <2> QED
    BY <2>2, <2>3, <2>4 DEF ListExact
<1>19. \A x \in Cls : u.cl[x] # None => ListExact(u, x)
  <2> SUFFICES ASSUME NEW x \in Cls, x # c, u.cl[x] # None PROVE ListExact(u, x)
    BY <1>18
  <2>1. ListExact(t, x) /\ u.cl[x] = t.cl[x] /\ LiveOf(u, x) = LiveOf(t, x)
    BY <1>1, <1>13, <1>14
  <2> QED
    BY <1>6, <2>1 DEF ListExact
<1>20. \A b \in Slabs : SlabKnown(u, b)
  <2> TAKE b \in Slabs
  <2>1. \A x \in Cls : t.cl[x] # None => u.cl[x] # None
    BY <1>14
  <2> QED
    BY <1>1, <1>6, <2>1 DEF SlabKnown
<1>21. \A x \in Addrs : SlotKnown(u, x)
  <2> TAKE x \in Addrs
  <2>1. x[2] \in Nat /\ t.slab[x[1]].n_used \in Nat
    <3>1. SlabSlots \in Nat /\ x[1] \in Slabs /\ x[2] \in 1 .. SlabSlots
      BY AddrFacts, ZeAssumption
    <3>2. t.slab[x[1]].n_used \in 0 .. SlabSlots
      BY <1>1, <3>1, SlabTypes
    <3> QED
      BY <3>1, <3>2
  <2>2. CASE x = a
    <3>1. ~(x[2] > u.slab[x[1]].n_used)
      BY <1>3, <1>6, <2>1, <2>2
    <3> QED
      BY <1>3, <1>12, <2>2, <3>1 DEF SlotKnown
  <2>3. CASE x # a
    <3>1. SlotKnown(t, x)
      BY <1>1
    <3>2. x[2] > t.slab[x[1]].n_used => u.slot[x] = NoSlot
      <4>1. NoSlot.live = FALSE
        BY DEF NoSlot
      <4> QED
        BY <1>10, <2>3, <3>1, <4>1 DEF SlotKnown, Live
    <3> QED
      BY <1>6, <1>10, <1>12, <2>3, <3>1, <3>2 DEF SlotKnown
  <2> QED
    BY <2>2, <2>3
<1>22. \A b \in Slabs : Needed(u, b) = Needed(t, b) \union {x \in {a} : x[1] = b}
  <2> TAKE b \in Slabs
  <2>1. ASSUME NEW x \in Addrs, x # a
        PROVE  (u.slot[x].live \/ u.slot[x].refs > 0) <=> (t.slot[x].live \/ t.slot[x].refs > 0)
    <3>1. CASE x \in Live(t)
      BY <1>10, <2>1, <3>1 DEF Live
    <3>2. CASE x \notin Live(t)
      BY <1>10, <2>1, <3>2
    <3> QED
      BY <3>1, <3>2
  <2>2. u.slot[a].live
    BY <1>9
  <2> QED
    BY <1>3, <2>1, <2>2 DEF Needed
<1>23. \A b \in Slabs : HeldExact(u, {}, b)
  <2> TAKE b \in Slabs
  <2>1. Needed(u, b) \union {x \in {} : x[1] = b} = Needed(u, b)
    OBVIOUS
  <2>2. Immediate \subseteq Cls /\ "detached" \notin Cls
    BY ZeAssumption DEF Cls
  <2>3. t.slab[b].owner \in Immediate => (IsTail(u, b) <=> IsTail(t, b))
    <3>1. \A x \in Cls : u.cl[x].tail = t.cl[x].tail
      BY <1>14
    <3> QED
      BY <1>6, <2>2, <3>1 DEF IsTail
  <2>4. t.slab[b].owner \in Immediate =>
          Needed(u, b) = Needed(t, b) \union {x \in X : x[1] = b}
    <3>1. CASE a[1] = b
      <4>1. t.slab[b].owner = c
        BY <1>3, <3>1 DEF Owner
      <4> QED
        BY <1>22, <4>1
    <3>2. CASE a[1] # b
      <4>1. {x \in X : x[1] = b} = {} /\ {x \in {a} : x[1] = b} = {}
        BY <3>2
      <4> QED
        BY <1>22, <4>1
    <3> QED
      BY <3>1, <3>2
  <2>5. t.slab[b].owner = "detached" => Needed(u, b) = Needed(t, b)
    <3> SUFFICES ASSUME t.slab[b].owner = "detached" PROVE Needed(u, b) = Needed(t, b)
      OBVIOUS
    <3>1. a[1] # b
      BY <1>3, <2>2 DEF Owner
    <3> QED
      BY <1>22, <3>1
  <2>6. HeldExact(t, X, b)
    BY <1>1
  <2> QED
    BY <1>6, <2>1, <2>3, <2>4, <2>5, <2>6 DEF HeldExact
<1>24. LatestLive(u)
  <2> SUFFICES ASSUME NEW e \in Events, u.latest[e] # None
               PROVE  u.latest[e] \in Live(u) /\ u.slot[u.latest[e]].attr = e
    BY DEF LatestLive
  <2>1. CASE u.latest[e] = a /\ e = s.attr
    BY <1>9, <1>11, <2>1
  <2>2. CASE u.latest[e] = t.latest[e]
    <3>1. t.latest[e] \in Live(t) /\ t.slot[t.latest[e]].attr = e
      BY <1>1, <2>2 DEF LatestLive
    <3>2. t.latest[e] # a /\ t.latest[e] \in Addrs
      BY <1>3, <1>5, <3>1
    <3> QED
      BY <1>10, <1>11, <2>2, <3>1, <3>2
  <2> QED
    BY <1>15, <2>1, <2>2
<1>25. Sound(u, {})
  BY <1>16, <1>17, <1>19, <1>20, <1>21, <1>23, <1>24 DEF Sound
<1> QED
  BY <1>6, <1>14, <1>25 DEF u

-----------------------------------------------------------------------------
(* Resubmitted: induction over the slots of a slab, on sets of indices. *)

LEMMA Upward ==
  ASSUME NEW n \in Nat, NEW S, 0 \in S, \A i \in 0 .. n : i \in S /\ i < n => i + 1 \in S
  PROVE  \A i \in 0 .. n : i \in S
<1> DEFINE T == {i \in 0 .. n : i \notin S}
<1> SUFFICES ASSUME T # {} PROVE FALSE
  OBVIOUS
<1>1. T \in SUBSET Nat
  OBVIOUS
<1>2. PICK m \in T : \A k \in T : m <= k
  <2> DEFINE R == OpToRel(<, Nat)
  <2>1. \A x, y \in Nat : y < x => <<y, x>> \in R
    BY DEF OpToRel
  <2> HIDE DEF R, T
  <2>2. \E x \in T : \A y \in T : ~(<<y, x>> \in R)
    BY <1>1, WFMin, NatLessThanWellFounded DEF R
  <2>3. PICK m \in T : \A y \in T : ~(<<y, m>> \in R)
    BY <2>2
  <2>4. \A y \in T : m <= y
    <3> TAKE y \in T
    <3>1. y \in Nat /\ m \in Nat
      BY <1>1
    <3>2. ~(y < m)
      BY <2>1, <2>3, <3>1, Zenon
    <3> QED
      BY <3>1, <3>2
  <2> QED
    BY <2>4
<1>3. m # 0 /\ m \in 0 .. n /\ m \notin S
  OBVIOUS
<1>4. m - 1 \in 0 .. n /\ m - 1 < n /\ (m - 1) + 1 = m
  BY <1>3
<1>5. m - 1 \in S
  <2>1. m - 1 \notin T
    BY <1>2, <1>3, <1>4
  <2> QED
    BY <1>4, <2>1
<1> QED
  BY <1>3, <1>4, <1>5

Upto(t, c, b, m, f) ==
  f = [i \in 0 .. m |-> IF i = 0 THEN t ELSE Reinstantiate(f[i - 1], c, <<b, i>>)]

LEMMA UptoExists ==
  ASSUME NEW t, NEW c, NEW b, NEW n \in Nat
  PROVE  \E f : Upto(t, c, b, n, f)
<1> DEFINE R(x, i) == Reinstantiate(x, c, <<b, i>>)
           S == {m \in 0 .. n : \E f : Upto(t, c, b, m, f)}
<1>1. 0 \in S
  <2> DEFINE f == [i \in 0 .. 0 |-> t]
  <2>1. f = [i \in 0 .. 0 |-> IF i = 0 THEN t ELSE R(f[i - 1], i)]
    <3>1. \A i \in 0 .. 0 : i = 0
      OBVIOUS
    <3> QED
      BY <3>1
  <2>2. Upto(t, c, b, 0, f)
    BY <2>1 DEF Upto
  <2> QED
    BY <2>2
<1>2. ASSUME NEW m \in 0 .. n, m \in S, m < n PROVE m + 1 \in S
  <2>1. PICK f : Upto(t, c, b, m, f)
    BY <1>2
  <2> DEFINE g == [i \in 0 .. (m + 1) |-> IF i <= m THEN f[i] ELSE R(f[m], m + 1)]
             h == [i \in 0 .. (m + 1) |-> IF i = 0 THEN t ELSE R(g[i - 1], i)]
  <2>2. \A i \in 0 .. m : f[i] = IF i = 0 THEN t ELSE R(f[i - 1], i)
    <3> HIDE DEF R
    <3>1. f = [i \in 0 .. m |-> IF i = 0 THEN t ELSE R(f[i - 1], i)]
      BY <2>1 DEF Upto, R
    <3> QED
      BY <3>1
  <2> HIDE DEF R
  <2>3. \A i \in 0 .. (m + 1) : g[i] = h[i]
    <3> TAKE i \in 0 .. (m + 1)
    <3>1. CASE i = 0
      BY <2>2, <3>1
    <3>2. CASE i # 0 /\ i <= m
      <4>1. i - 1 \in 0 .. (m + 1) /\ i - 1 <= m /\ i \in 0 .. m
        BY <3>2
      <4>2. g[i - 1] = f[i - 1] /\ g[i] = f[i]
        BY <3>2, <4>1
      <4>3. f[i] = R(f[i - 1], i)
        BY <2>2, <3>2, <4>1
      <4> HIDE DEF g
      <4>4. h[i] = R(g[i - 1], i)
        BY <3>2
      <4> QED
        BY <4>2, <4>3, <4>4
    <3>3. CASE i = m + 1
      <4>1. i - 1 = m /\ m \in 0 .. (m + 1) /\ ~(i <= m) /\ i # 0
        BY <3>3
      <4>2. g[i - 1] = f[m] /\ g[i] = R(f[m], i)
        BY <3>3, <4>1
      <4> HIDE DEF g
      <4>3. h[i] = R(g[i - 1], i)
        BY <4>1
      <4> QED
        BY <4>2, <4>3
    <3> QED
      BY <3>1, <3>2, <3>3
  <2>4. g = h
    <3>1. DOMAIN g = 0 .. (m + 1) /\ DOMAIN h = 0 .. (m + 1)
      OBVIOUS
    <3>2. g = [i \in 0 .. (m + 1) |-> g[i]] /\ h = [i \in 0 .. (m + 1) |-> h[i]]
      OBVIOUS
    <3> HIDE DEF g, h
    <3> QED
      BY <2>3, <3>2
  <2> HIDE DEF g
  <2>5. Upto(t, c, b, m + 1, g)
    BY <2>4 DEF Upto, R
  <2> QED
    BY <1>2, <2>5
<1> HIDE DEF S
<1>3. n \in S
  BY <1>1, <1>2, Upward
<1> QED
  BY <1>3 DEF S

LEMMA ReinstantiateSound ==
  ASSUME NEW t, Sound(t, {}), NEW c \in Regular, t.cl[c] # None, NEW a \in SlotsOf(t, c)
  PROVE  LET u == Reinstantiate(t, c, a) IN
         /\ Sound(u, {})
         /\ u.slab = t.slab
         /\ u.cl[c] # None /\ u.cl[c].tail = t.cl[c].tail
<1> DEFINE u == Reinstantiate(t, c, a)
<1>1. CASE t.slot[a].inj /\ ~t.slot[a].live
  <2>1. u = Instantiate(t, c, a)
    BY <1>1 DEF Reinstantiate
  <2>2. c \in Cls /\ c \notin Immediate
    BY ZeAssumption DEF Cls
  <2>3. t.slot[a].live = FALSE
    <3>1. a \in Addrs /\ t \in Tracers
      BY SoundFacts DEF SlotsOf
    <3>2. t.slot[a].live \in BOOLEAN
      BY <3>1, SlotTypes
    <3> QED
      BY <1>1, <3>2
  <2> DEFINE X == {}
  <2>a. Sound(t, X) /\ X \subseteq {a} /\ (c \in Immediate => X = {a})
    BY <2>2
  <2> HIDE DEF X
  <2> HIDE DEF u
  <2>4. /\ Sound(Instantiate(t, c, a), {})
        /\ Instantiate(t, c, a).slab = t.slab
        /\ Instantiate(t, c, a).cl[c] # None
        /\ Instantiate(t, c, a).cl[c].tail = t.cl[c].tail
    BY <2>2, <2>3, <2>a, InstantiateSound
  <2> QED
    BY <2>1, <2>4 DEF u
<1>2. CASE ~(t.slot[a].inj /\ ~t.slot[a].live)
  BY <1>2 DEF Reinstantiate
<1> QED
  BY <1>1, <1>2

\* The slots of the list's slab, in order.
LEMMA ResubmittedSound ==
  ASSUME NEW t, Sound(t, {}), NEW c \in Regular, t.cl[c] # None
  PROVE  Sound(Resubmitted(t, c), {}) /\ Resubmitted(t, c).cl[c] # None
<1> DEFINE b == t.cl[c].tail
           n == IF b = None THEN 0 ELSE t.slab[b].n_used
           f == CHOOSE f : Upto(t, c, b, n, f)
           Good(x) == /\ Sound(x, {})
                      /\ x.slab = t.slab
                      /\ x.cl[c] # None /\ x.cl[c].tail = b
           S == {i \in 0 .. n : Good(f[i])}
<1>1. t \in Tracers /\ c \in Cls /\ ListExact(t, c)
  BY SoundFacts DEF Cls
<1>2. b \in Slabs \union {None} /\ SlabSlots \in Nat /\ None \notin Slabs
  BY <1>1, ListTypes, ZeAssumption
<1>3. b # None => t.slab[b].owner = c /\ t.slab[b].n_used \in 0 .. SlabSlots
  BY <1>1, <1>2, SlabTypes DEF ListExact
<1>4. n \in Nat /\ (n > 0 => b \in Slabs /\ n = t.slab[b].n_used /\ n <= SlabSlots)
  BY <1>2, <1>3
<1>5. Resubmitted(t, c) = f[n]
  BY DEF Resubmitted, Upto
<1> HIDE DEF b, n
<1>6. Upto(t, c, b, n, f)
  BY <1>4, UptoExists
<1> HIDE DEF f
<1>7. \A i \in 0 .. n : f[i] = IF i = 0 THEN t ELSE Reinstantiate(f[i - 1], c, <<b, i>>)
  <2>1. f = [i \in 0 .. n |-> IF i = 0 THEN t ELSE Reinstantiate(f[i - 1], c, <<b, i>>)]
    BY <1>6 DEF Upto
  <2> QED
    BY <2>1
<1>8. 0 \in S
  <2>1. 0 \in 0 .. n
    BY <1>4
  <2>2. f[0] = t
    BY <1>7, <2>1, Zenon
  <2> QED
    BY <2>1, <2>2 DEF b
<1>9. ASSUME NEW i \in 0 .. n, i \in S, i < n PROVE i + 1 \in S
  <2> DEFINE x == f[i]
             a == <<b, i + 1>>
  <2>1. Good(x)
    BY <1>9
  <2>2. i + 1 \in 0 .. n /\ (i + 1) - 1 = i /\ i + 1 # 0 /\ i + 1 \in 1 .. n
    BY <1>4, <1>9
  <2>3. f[i + 1] = Reinstantiate(x, c, a)
    <3>1. f[i + 1] = Reinstantiate(f[(i + 1) - 1], c, <<b, i + 1>>)
      BY <1>7, <2>2
    <3> QED
      BY <2>2, <3>1
  <2>4. a \in SlotsOf(x, c)
    <3>1. n > 0 /\ i + 1 \in 1 .. SlabSlots /\ i + 1 <= t.slab[b].n_used /\ b \in Slabs
      BY <1>2, <1>4, <2>2
    <3>2. a \in Addrs /\ a[1] = b /\ a[2] = i + 1
      BY <3>1, AddrFacts
    <3>3. t.slab[b].owner = c
      BY <1>2, <1>3, <3>1
    <3> HIDE DEF a, x
    <3> QED
      BY <2>1, <3>1, <3>2, <3>3 DEF SlotsOf, Owner
  <2> HIDE DEF x, a
  <2>5. /\ Sound(Reinstantiate(x, c, a), {})
        /\ Reinstantiate(x, c, a).slab = x.slab
        /\ Reinstantiate(x, c, a).cl[c] # None
        /\ Reinstantiate(x, c, a).cl[c].tail = x.cl[c].tail
    BY <2>1, <2>4, ReinstantiateSound
  <2>6. Good(f[i + 1])
    BY <2>1, <2>3, <2>5
  <2> QED
    BY <2>2, <2>6
<1> HIDE DEF S
<1>10. n \in S
  BY <1>4, <1>8, <1>9, Upward
<1>11. Good(f[n])
  BY <1>10 DEF S
<1> QED
  BY <1>5, <1>11

Submits(t, u, c, q, f) ==
  /\ u.slab = t.slab /\ u.latest = t.latest /\ u.kts = t.kts
  /\ \A x \in Cls : x # c => u.cl[x] = t.cl[x]
  /\ u.cl[c] = [t.cl[c] EXCEPT !.in_flight_q = q, !.in_flight_fence = f]
  /\ \A a \in Addrs : u.slot[a] = IF a \in SlotsOf(t, c) /\ t.slot[a].inj
                                  THEN [t.slot[a] EXCEPT !.device = "running"]
                                  ELSE t.slot[a]

LEMMA SubmittedSound ==
  ASSUME NEW t, Sound(t, {}), NEW c \in Cls, t.cl[c] # None,
         NEW q \in Queues, NEW f \in Fences \union {None}
  PROVE  LET u == Submitted(t, c, q, f) IN
         Sound(u, {}) /\ Submits(t, u, c, q, f)
<1> DEFINE slots == [a \in Addrs |->
                       IF a \in SlotsOf(t, c) /\ t.slot[a].inj
                       THEN [t.slot[a] EXCEPT !.device = "running"] ELSE t.slot[a]]
           l == t.cl[c]
           lnew == [l EXCEPT !.in_flight_q = q, !.in_flight_fence = f]
           cls == [t.cl EXCEPT ![c] = lnew]
           u == Submitted(t, c, q, f)
<1>1. t \in Tracers
  BY SoundFacts
<1>2. /\ t = [cl |-> t.cl, slab |-> t.slab, slot |-> t.slot, latest |-> t.latest,
              kts |-> t.kts]
      /\ t.cl \in [Cls -> CommandLists \union {None}]
      /\ t.slab \in [Slabs -> SlabRecords] /\ t.slot \in [Addrs -> Slots]
      /\ t.latest \in [Events -> Addrs \union {None}] /\ t.kts \in SUBSET Timed
      /\ l \in CommandLists
  BY <1>1, TracerTypes, ListTypes
<1>3. u = [cl |-> cls, slab |-> t.slab, slot |-> slots, latest |-> t.latest, kts |-> t.kts]
  <2> DEFINE t1 == [t EXCEPT !.cl[c].in_flight_q = q]
             t2 == [t1 EXCEPT !.cl[c].in_flight_fence = f]
             t3 == [t2 EXCEPT !.slot = slots]
             c1 == [t.cl EXCEPT ![c].in_flight_q = q]
             c2 == [c1 EXCEPT ![c].in_flight_fence = f]
  <2>1. u = t3
    BY DEF Submitted
  <2>2. t1 = [t EXCEPT !.cl = c1]
    OBVIOUS
  <2>3. c2 = cls
    BY <1>2 DEF CommandLists
  <2> HIDE DEF u, slots, cls, t1, c1
  <2>4. t1 = [cl |-> c1, slab |-> t.slab, slot |-> t.slot, latest |-> t.latest, kts |-> t.kts]
    BY <1>2, <2>2, Update
  <2>5. t2 = [t1 EXCEPT !.cl = c2]
    BY <2>4
  <2> HIDE DEF t2, c2
  <2>6. t2 = [cl |-> c2, slab |-> t.slab, slot |-> t.slot, latest |-> t.latest, kts |-> t.kts]
    BY <2>4, <2>5, Update
  <2>7. t3 = [cl |-> c2, slab |-> t.slab, slot |-> slots, latest |-> t.latest, kts |-> t.kts]
    BY <2>6, Update
  <2> QED
    BY <2>1, <2>3, <2>7
<1> HIDE DEF u
<1>4. u.cl = cls /\ u.slab = t.slab /\ u.slot = slots /\ u.latest = t.latest /\ u.kts = t.kts
  BY <1>3
<1>5. /\ lnew \in CommandLists /\ lnew.tail = l.tail /\ lnew.n_live = l.n_live
      /\ lnew.live_slots = l.live_slots
  <2> HIDE DEF l
  <2> QED
    BY <1>2 DEF CommandLists
<1> HIDE DEF lnew
<1>6. /\ cls \in [Cls -> CommandLists \union {None}] /\ cls[c] = lnew /\ lnew # None
      /\ \A x \in Cls : x # c => cls[x] = t.cl[x]
  BY <1>2, <1>5, NewTypes
<1>7. \A a \in Addrs : /\ slots[a] \in Slots
                       /\ slots[a].live = t.slot[a].live
                       /\ slots[a].refs = t.slot[a].refs
                       /\ slots[a].preds = t.slot[a].preds
                       /\ slots[a].attr = t.slot[a].attr
                       /\ t.slot[a] = NoSlot => slots[a] = NoSlot
  <2> TAKE a \in Addrs
  <2>1. t.slot[a] \in Slots
    BY <1>2
  <2>2. CASE a \in SlotsOf(t, c) /\ t.slot[a].inj
    <3>1. slots[a] = [t.slot[a] EXCEPT !.device = "running"]
      BY <2>2
    <3>2. NoSlot.inj = FALSE
      BY DEF NoSlot
    <3> HIDE DEF slots
    <3>3. t.slot[a] # NoSlot
      BY <2>2, <3>2
    <3> QED
      BY <2>1, <3>1, <3>3 DEF Slots
  <2>3. CASE ~(a \in SlotsOf(t, c) /\ t.slot[a].inj)
    <3>1. slots[a] = t.slot[a]
      BY <2>3
    <3> HIDE DEF slots
    <3> QED
      BY <2>1, <3>1
  <2> QED
    BY <2>2, <2>3
<1>8. slots \in [Addrs -> Slots]
  BY <1>7
<1> HIDE DEF slots, cls
<1>9. u \in Tracers
  BY <1>2, <1>3, <1>6, <1>8 DEF Tracers
<1>10. \A x \in Cls : /\ u.cl[x] = None <=> t.cl[x] = None
                      /\ t.cl[x] # None => /\ u.cl[x].tail = t.cl[x].tail
                                           /\ u.cl[x].n_live = t.cl[x].n_live
                                           /\ u.cl[x].live_slots = t.cl[x].live_slots
  BY <1>4, <1>5, <1>6
<1>11. Sound(u, {})
  <2>1. u.slab = t.slab /\ \A e \in Events : u.latest[e] \in {t.latest[e], None}
    BY <1>4
  <2>2. SameEdges(t, u)
    BY <1>4, <1>7, <1>10, <2>1 DEF SameEdges
  <2> QED
    BY <1>9, <2>2, FrameSound
<1>12. u.cl[c] = lnew /\ \A x \in Cls : x # c => u.cl[x] = t.cl[x]
  BY <1>4, <1>6
<1>13. \A a \in Addrs : u.slot[a] = IF a \in SlotsOf(t, c) /\ t.slot[a].inj
                                   THEN [t.slot[a] EXCEPT !.device = "running"]
                                   ELSE t.slot[a]
  BY <1>4 DEF slots
<1>14. u.cl[c] = [t.cl[c] EXCEPT !.in_flight_q = q, !.in_flight_fence = f]
  BY <1>12 DEF lnew
<1>15. Submits(t, u, c, q, f)
  BY <1>4, <1>12, <1>13, <1>14 DEF Submits
<1> QED
  BY <1>11, <1>15 DEF u

-----------------------------------------------------------------------------
(* The handlers, from a state t of the tracer. *)

LEMMA ReachedFacts ==
  ASSUME NEW t, NEW S
  PROVE  Reached(t, S) \subseteq Live(t) /\ S \intersect Live(t) \subseteq Reached(t, S)
BY DEF Reached

LEMMA DrainClsSound ==
  ASSUME NEW t, Sound(t, {}), NEW L, L \subseteq Cls, \A c \in L : t.cl[c] # None
  PROVE  LET u == DrainCls(t, L) IN
         /\ Sound(u, {})
         /\ \A c \in Cls : u.cl[c] = None <=> t.cl[c] = None
         /\ \A c \in L : LiveOf(u, c) = {}
<1> DEFINE D == Reached(t, UNION {SlotsOf(t, c) : c \in L})
           v == DrainAll(t, D)
           u == DrainCls(t, L)
<1>1. D \subseteq Live(t) /\ (UNION {SlotsOf(t, c) : c \in L}) \intersect Live(t) \subseteq D
  BY ReachedFacts
<1>2. u = Land(v, L)
  BY DEF DrainCls
<1> HIDE DEF D, u
<1>3. /\ Sound(v, {})
      /\ Live(v) = Live(t) \ D
      /\ \A c \in Cls : (v.cl[c] = None) <=> (t.cl[c] = None)
  BY <1>1, DrainSound
<1>4. \A a \in Addrs : v.slot[a].live => v.slab[a[1]].owner = t.slab[a[1]].owner
  <2> TAKE a \in Addrs
  <2> QED
    BY <1>1, DrainedSlot
<1> HIDE DEF v
<1>5. /\ Sound(u, {}) /\ Live(u) = Live(v) /\ u.slab = v.slab
      /\ \A c \in Cls : u.cl[c] = None <=> v.cl[c] = None
  BY <1>2, <1>3, LandSound
<1>6. \A c \in L : LiveOf(u, c) = {}
  <2> SUFFICES ASSUME NEW c \in L, NEW a \in LiveOf(u, c) PROVE FALSE
    OBVIOUS
  <2>1. a \in Live(v) /\ a \in Live(t) /\ a \notin D /\ v.slab[a[1]].owner = c
    BY <1>3, <1>5 DEF LiveOf, Owner
  <2>2. a \in Addrs /\ v.slot[a].live
    BY <2>1 DEF Live
  <2>3. a \in LiveOf(t, c)
    BY <1>4, <2>1, <2>2 DEF LiveOf, Owner
  <2>4. a \in SlotsOf(t, c)
    BY <2>3, LiveUsed
  <2> QED
    BY <1>1, <2>1, <2>4
<1> QED
  BY <1>3, <1>5, <1>6 DEF u

LEMMA AppendSound ==
  ASSUME NEW t, Sound(t, {}), NEW c \in Cls, t.cl[c] # None,
         HasRoom(t, c) \/ (FreeSlabs(t) # {} /\ (c \in Immediate \/ t.cl[c].tail = None)),
         NEW attr \in Events \union {None}, NEW waits \in WaitLists
  PROVE  LET r == WithRoom(t, c)
             a == NextSlot(r, c)
         IN Sound(Instantiate(Filled(r, c, a, attr, waits), c, a), {})
<1> DEFINE r == WithRoom(t, c)
           a == NextSlot(r, c)
           f == Filled(r, c, a, attr, waits)
<1>1. /\ Sound(r, {}) /\ r.cl[c] # None /\ r.cl[c].tail \in Slabs
      /\ r.slab[r.cl[c].tail].owner = c /\ r.slab[r.cl[c].tail].n_used < SlabSlots
  BY WithRoomSound
<1> HIDE DEF r
<1>2. /\ Sound(f, {a}) /\ f.cl[c] # None /\ a \in SlotsOf(f, c) /\ f.slot[a].live = FALSE
  <2>1. a = NextSlot(r, c)
    OBVIOUS
  <2> HIDE DEF f, a
  <2>2. Filled(r, c, a, attr, waits) = f
    BY DEF f
  <2> QED
    BY <1>1, <2>1, <2>2, FilledSound
<1> HIDE DEF f, a
<1> DEFINE X == {a}
<1>3. Sound(f, X) /\ X \subseteq {a} /\ (c \in Immediate => X = {a})
  BY <1>2
<1> HIDE DEF X
<1>4. Sound(Instantiate(f, c, a), {})
  BY <1>2, <1>3, InstantiateSound
<1> QED
  BY <1>4 DEF f, a, r

\* A list that is reset is as good as new.
LEMMA ReclaimedNew ==
  ASSUME NEW u \in Tracers, NEW c \in Cls
  PROVE  Reclaimed(u, c, NewCl) = Reclaim(u, c)
<1> DEFINE r == Reclaim(u, c)
           d == Dispose(u, SlotsOf(u, c))
           cl == u.cl
           dl == d.latest
           ds == d.slot
<1>1. /\ d = [cl |-> cl, slab |-> u.slab, slot |-> ds, latest |-> dl, kts |-> u.kts]
      /\ cl \in [Cls -> CommandLists \union {None}]
  BY DisposeShape, TracerTypes
<1>2. PICK sb, st : r = [d EXCEPT !.slab = sb, !.slot = st, !.cl[c] = NewCl]
  BY DEF Reclaim
<1> HIDE DEF d, dl, ds, r, cl
<1>3. r = [cl |-> [cl EXCEPT ![c] = NewCl], slab |-> sb, slot |-> st, latest |-> dl,
           kts |-> u.kts]
  BY <1>1, <1>2
<1>4. [[cl EXCEPT ![c] = NewCl] EXCEPT ![c] = NewCl] = [cl EXCEPT ![c] = NewCl]
  BY <1>1
<1>5. [r EXCEPT !.cl[c] = NewCl] = r
  BY <1>3, <1>4
<1> QED
  BY <1>5 DEF r, Reclaimed

LEMMA ResetSound ==
  ASSUME NEW t, Sound(t, {}), NEW c \in Cls, t.cl[c] # None
  PROVE  Sound(Reclaim(DrainCls(t, {c}), c), {})
<1> DEFINE u == DrainCls(t, {c})
<1>1. Sound(u, {}) /\ u.cl[c] # None /\ LiveOf(u, c) = {}
  BY DrainClsSound
<1> HIDE DEF u
<1>2. Sound(Reclaimed(u, c, NewCl), {})
  BY <1>1, ReclaimSound
<1> QED
  BY <1>1, <1>2, ReclaimedNew, SoundFacts DEF u

-----------------------------------------------------------------------------
(* The inductive invariant and the steps of the system. *)

State ==
  /\ Sound(tr, {})
  /\ closed \subseteq Regular
  /\ fired \subseteq Events
  /\ holder \in Handlers \union {None}
  /\ used \subseteq Timed
  /\ hook # None /\ hook[1] = "event" => hook[2] \in Events

\* A handler that waits changes nothing but the holder of the mutex.
LEMMA HandlerSound ==
  ASSUME Sound(tr, {}), NEW h \in Handlers, NEW W, NEW done, Sound(done, {}),
         Waits(h, W) \/ (Proceeds(h, W) /\ tr' = done)
  PROVE  Sound(tr', {}) /\ holder' \in Handlers \union {None}
<1>1. CASE Waits(h, W)
  <2>1. tr' = tr /\ holder' = h
    BY <1>1 DEF Waits
  <2> QED
    BY <2>1
<1>2. CASE Proceeds(h, W) /\ tr' = done
  <2>1. tr' = done /\ holder' = None
    BY <1>2 DEF Proceeds
  <2> QED
    BY <2>1
<1> QED
  BY <1>1, <1>2

LEMMA ListSteps ==
  ASSUME State, "sync_first" \in Rules, NEW c \in Cls,
         \/ CreateCommandList(c)
         \/ DestroyCommandList(c)
         \/ \E e \in Events \union {None}, w \in WaitLists : AppendCommand(c, e, w)
  PROVE  State'
<1> USE DEF State
<1>1. CASE CreateCommandList(c)
  <2>1. Sound(tr', {})
    BY <1>1, CreateSound DEF CreateCommandList
  <2> QED
    BY <1>1, <2>1 DEF CreateCommandList
<1>2. CASE DestroyCommandList(c)
  <2>1. /\ tr.cl[c] # None /\ tr.cl[c].n_live = 0
        /\ tr' = [Reclaim(tr, c) EXCEPT !.cl[c] = None]
    BY <1>2 DEF DestroyCommandList, Registered
  <2>2. Cardinality(LiveOf(tr, c)) = 0 /\ LiveOf(tr, c) \subseteq Live(tr)
    BY <2>1, SoundFacts DEF ListExact, LiveOf
  <2>3. IsFiniteSet(LiveOf(tr, c))
    BY <2>2, SoundFacts, LiveFacts, FS_Subset
  <2>4. LiveOf(tr, c) = {}
    BY <2>2, <2>3, FS_EmptySet
  <2>5. Sound(tr', {})
    BY <2>1, <2>4, ReclaimSound DEF Reclaimed
  <2> QED
    BY <1>2, <2>5 DEF DestroyCommandList
<1>3. ASSUME NEW e \in Events \union {None}, NEW w \in WaitLists, AppendCommand(c, e, w)
      PROVE  State'
  <2>1. /\ tr.cl[c] # None
        /\ HasRoom(tr, c) \/ (FreeSlabs(tr) # {} /\ (c \in Immediate \/ tr.cl[c].tail = None))
    BY <1>3 DEF AppendCommand, Registered
  <2>2. tr' = LET r == WithRoom(tr, c)
                  a == NextSlot(r, c)
              IN Instantiate(Filled(r, c, a, e, w), c, a)
    BY <1>3 DEF AppendCommand
  <2>3. Sound(tr', {})
    BY <2>1, <2>2, AppendSound
  <2> QED
    BY <1>3, <2>3 DEF AppendCommand
<1> QED
  BY <1>1, <1>2, <1>3

LEMMA RegularSteps ==
  ASSUME State, NEW c \in Regular,
         \/ ResetCommandList(c)
         \/ \E q \in Queues, f \in Fences \union {None} : Execute(c, q, f)
  PROVE  State'
<1> USE DEF State
<1>a. c \in Cls
  BY DEF Cls
<1>1. CASE ResetCommandList(c)
  <2>1. tr.cl[c] # None
    BY <1>1 DEF ResetCommandList, Registered
  <2>2. Sound(Reclaim(DrainCls(tr, {c}), c), {})
    BY <1>a, <2>1, ResetSound
  <2> DEFINE h == <<"reset", c>>
             D == Reached(tr, SlotsOf(tr, c))
             done == Reclaim(DrainCls(tr, {c}), c)
  <2>3. /\ \/ Waits(h, D)
           \/ Proceeds(h, D) /\ tr' = done /\ closed' = closed \ {c} /\ UNCHANGED hook
        /\ UNCHANGED <<fired, used>>
    BY <1>1 DEF ResetCommandList
  <2>4. h \in Handlers
    BY DEF Handlers
  <2>5. closed' \subseteq Regular /\ hook' = hook
    BY <2>3 DEF Waits
  <2> HIDE DEF done, h, D
  <2>6. Sound(tr', {}) /\ holder' \in Handlers \union {None}
    BY <2>2, <2>3, <2>4, HandlerSound DEF done
  <2> QED
    BY <2>3, <2>5, <2>6
<1>2. ASSUME NEW q \in Queues, NEW f \in Fences \union {None}, Execute(c, q, f)
      PROVE  State'
  <2> DEFINE inFlight == tr.cl[c].in_flight_q # None
             t == IF inFlight THEN DrainCls(tr, {c}) ELSE tr
             D == Outstanding(c)
             h == <<"execute", c, q, f>>
             r == Resubmitted(t, c)
  <2>1. tr.cl[c] # None
    BY <1>2 DEF Execute, Registered
  <2>2. Sound(t, {}) /\ t.cl[c] # None
    <3> DEFINE u == DrainCls(tr, {c})
    <3>1. Sound(u, {}) /\ u.cl[c] # None
      BY <1>a, <2>1, DrainClsSound
    <3> HIDE DEF u
    <3>2. t = IF inFlight THEN u ELSE tr
      BY DEF u
    <3> HIDE DEF t
    <3> QED
      BY <2>1, <3>1, <3>2
  <2>3. /\ \/ Waits(h, D)
           \/ /\ Proceeds(h, D) /\ tr' = Submitted(r, c, q, f)
              /\ closed' = closed \union {c} /\ UNCHANGED hook
        /\ UNCHANGED <<fired, used>>
    <3>1. t = IF tr.cl[c].in_flight_q = None THEN tr ELSE DrainCls(tr, {c})
      OBVIOUS
    <3> HIDE DEF t
    <3> QED
      BY <1>2, <3>1 DEF Execute
  <2>a. h \in Handlers
    BY DEF Handlers
  <2> HIDE DEF t, D, h
  <2>4. Sound(r, {}) /\ r.cl[c] # None
    BY <2>2, ResubmittedSound
  <2> HIDE DEF r
  <2>5. Sound(Submitted(r, c, q, f), {})
    BY <1>a, <2>4, SubmittedSound
  <2> DEFINE done == Submitted(r, c, q, f)
  <2>6. Sound(tr', {}) /\ holder' \in Handlers \union {None}
    <3>1. Sound(done, {}) /\ (Waits(h, D) \/ (Proceeds(h, D) /\ tr' = done))
      BY <2>3, <2>5
    <3> HIDE DEF done
    <3> QED
      BY <2>a, <3>1, HandlerSound
  <2>7. closed' \subseteq Regular /\ hook' = hook
    BY <2>3 DEF Waits
  <2> QED
    BY <2>3, <2>6, <2>7
<1> QED
  BY <1>1, <1>2

LEMMA ContextStep ==
  ASSUME State, "sync_first" \in Rules, DestroyContext
  PROVE  State'
<1> DEFINE mine == {a \in Addrs : Owner(tr, a) \in Cls}
<1>1. /\ Live(tr) = {} /\ tr' = Cleared(tr, mine)
      /\ closed' = {} /\ UNCHANGED <<fired, hook, holder, used>>
  BY DEF DestroyContext, Cleared
<1>2. mine = {a \in Addrs : Owner(tr, a) \in Cls}
  OBVIOUS
<1> HIDE DEF mine
<1>3. Sound(tr', {})
  BY <1>1, <1>2, DestroyContextSound DEF State
<1> QED
  BY <1>1, <1>3 DEF State

LEMMA EventSteps ==
  ASSUME State, NEW e \in Events, DestroyEvent(e) \/ HostSignal(e) \/ HostReset(e)
  PROVE  State'
<1> USE DEF State
<1>1. CASE DestroyEvent(e)
  <2> DEFINE latest == tr.latest
             gone == [latest EXCEPT ![e] = None]
             kts == tr.kts
             u == [tr EXCEPT !.latest[e] = None, !.kts = @ \ {e}]
  <2>1. /\ tr = [cl |-> tr.cl, slab |-> tr.slab, slot |-> tr.slot, latest |-> latest, kts |-> kts]
        /\ tr.cl \in [Cls -> CommandLists \union {None}]
        /\ tr.slab \in [Slabs -> SlabRecords] /\ tr.slot \in [Addrs -> Slots]
        /\ latest \in [Events -> Addrs \union {None}] /\ kts \in SUBSET Timed
    BY SoundFacts, TracerTypes
  <2>2. /\ tr' = u /\ fired' = fired \ {e} /\ used' = used \ {e}
        /\ UNCHANGED <<closed, hook, holder>>
    BY <1>1 DEF DestroyEvent, Evicted
  <2>3. u = [[tr EXCEPT !.latest = gone] EXCEPT !.kts = kts \ {e}]
    OBVIOUS
  <2>4. gone \in [Events -> Addrs \union {None}] /\ \A x \in Events : gone[x] \in {latest[x], None}
    BY <2>1
  <2> HIDE DEF gone
  <2>5. u = [cl |-> tr.cl, slab |-> tr.slab, slot |-> tr.slot, latest |-> gone, kts |-> kts \ {e}]
    <3> DEFINE w == [tr EXCEPT !.latest = gone]
               cls == tr.cl
               slabs == tr.slab
               slots == tr.slot
    <3>a. tr = [cl |-> cls, slab |-> slabs, slot |-> slots, latest |-> latest, kts |-> kts]
      BY <2>1
    <3> HIDE DEF cls, slabs, slots, latest, kts
    <3>1. w = [cl |-> cls, slab |-> slabs, slot |-> slots, latest |-> gone, kts |-> kts]
      BY <3>a, Update
    <3> DEFINE left == kts \ {e}
    <3> HIDE DEF w, left
    <3>2. [w EXCEPT !.kts = left]
            = [cl |-> cls, slab |-> slabs, slot |-> slots, latest |-> gone, kts |-> left]
      BY <3>1, Update
    <3> QED
      BY <2>3, <3>2 DEF w, cls, slabs, slots, left
  <2> HIDE DEF u
  <2>6. u.cl = tr.cl /\ u.slab = tr.slab /\ u.slot = tr.slot /\ u.latest = gone
    BY <2>5
  <2>7. u \in Tracers
    BY <2>1, <2>4, <2>5 DEF Tracers
  <2>8. Sound(u, {})
    <3>1. SameEdges(tr, u)
      BY <2>4, <2>6 DEF SameEdges
    <3> QED
      BY <2>7, <3>1, FrameSound
  <2> QED
    BY <2>2, <2>8
<1>2. CASE HostSignal(e)
  BY <1>2 DEF HostSignal
<1>3. CASE HostReset(e)
  BY <1>3 DEF HostReset
<1> QED
  BY <1>1, <1>2, <1>3

LEMMA CompleteStep ==
  ASSUME State, NEW a \in Addrs, Complete(a)
  PROVE  State'
<1> USE DEF State
<1> DEFINE slot == tr.slot
           s == slot[a]
           done == [s EXCEPT !.device = "done"]
           slots == [slot EXCEPT ![a] = done]
           u == [tr EXCEPT !.slot[a].device = "done"]
<1>1. /\ tr = [cl |-> tr.cl, slab |-> tr.slab, slot |-> slot, latest |-> tr.latest, kts |-> tr.kts]
      /\ tr.cl \in [Cls -> CommandLists \union {None}]
      /\ tr.slab \in [Slabs -> SlabRecords] /\ slot \in [Addrs -> Slots]
      /\ tr.latest \in [Events -> Addrs \union {None}] /\ tr.kts \in SUBSET Timed
  BY SoundFacts, TracerTypes
<1>2. /\ tr' = u /\ fired' = fired \union ({s.attr} \ {None}) /\ s.device = "running"
      /\ UNCHANGED <<closed, hook, holder, used>>
  BY DEF Complete
<1>3. s \in Slots /\ s.attr \in Events \union {None}
  BY SoundFacts, SlotTypes
<1>4. /\ done \in Slots /\ done.live = s.live /\ done.refs = s.refs
      /\ done.preds = s.preds /\ done.attr = s.attr
  BY <1>3 DEF Slots
<1>5. s # NoSlot
  BY <1>2 DEF NoSlot
<1>6. u = [tr EXCEPT !.slot = slots]
  OBVIOUS
<1> HIDE DEF done
<1>7. slots \in [Addrs -> Slots] /\ slots[a] = done /\ \A x \in Addrs : x # a => slots[x] = slot[x]
  BY <1>1, <1>4
<1> HIDE DEF slots
<1>8. u = [cl |-> tr.cl, slab |-> tr.slab, slot |-> slots, latest |-> tr.latest, kts |-> tr.kts]
  <2> DEFINE cls == tr.cl
             slabs == tr.slab
             latest == tr.latest
             kts == tr.kts
  <2>1. tr = [cl |-> cls, slab |-> slabs, slot |-> slot, latest |-> latest, kts |-> kts]
    BY <1>1
  <2> HIDE DEF cls, slabs, slot, latest, kts, u
  <2>2. u = [cl |-> cls, slab |-> slabs, slot |-> slots, latest |-> latest, kts |-> kts]
    BY <1>6, <2>1, Update
  <2> QED
    BY <2>2 DEF cls, slabs, latest, kts
<1> HIDE DEF u
<1>9. u.cl = tr.cl /\ u.slab = tr.slab /\ u.slot = slots /\ u.latest = tr.latest
  BY <1>8
<1>10. u \in Tracers
  BY <1>1, <1>7, <1>8 DEF Tracers
<1>11. \A x \in Addrs : /\ u.slot[x].live = slot[x].live
                        /\ u.slot[x].refs = slot[x].refs
                        /\ slot[x].live => /\ u.slot[x].preds = slot[x].preds
                                           /\ u.slot[x].attr = slot[x].attr
                        /\ slot[x] = NoSlot => u.slot[x] = NoSlot
  BY <1>4, <1>5, <1>7, <1>9
<1>12. Sound(u, {})
  <2>1. SameEdges(tr, u)
    BY <1>9, <1>11 DEF SameEdges
  <2> QED
    BY <1>10, <2>1, FrameSound
<1> QED
  BY <1>2, <1>3, <1>12

LEMMA SyncClsSound ==
  ASSUME State, NEW L, L \subseteq Registered, OnSyncCls(L)
  PROVE  /\ Sound(tr', {}) /\ holder' \in Handlers \union {None}
         /\ hook' \in {hook, None}
<1> DEFINE h == <<"sync">>
           D == Reached(tr, UNION {SlotsOf(tr, c) : c \in L})
           done == DrainCls(tr, L)
<1>1. L \subseteq Cls /\ \A c \in L : tr.cl[c] # None
  BY DEF Registered
<1>2. Sound(tr, {}) /\ h \in Handlers
  BY DEF State, Handlers
<1>3. Sound(done, {})
  BY <1>1, <1>2, DrainClsSound
<1>4. Waits(h, D) \/ (Proceeds(h, D) /\ tr' = done /\ hook' = None)
  BY DEF OnSyncCls
<1> HIDE DEF D, h, done
<1>5. hook' \in {hook, None}
  BY <1>4 DEF Waits
<1> QED
  BY <1>2, <1>3, <1>4, <1>5, HandlerSound

LEMMA SyncEventSound ==
  ASSUME State, NEW e \in Events, OnSyncEvent(e)
  PROVE  /\ Sound(tr', {}) /\ holder' \in Handlers \union {None}
         /\ hook' \in {hook, None}
<1> DEFINE s == tr.latest[e]
           D == Reached(tr, {s})
           t == DrainAll(tr, D)
           c == Owner(tr, s)
           h == <<"sync">>
           done == IF t.cl[c].n_live = 0 THEN Land(t, {c}) ELSE t
<1>1. Sound(tr, {}) /\ holder \in Handlers \union {None} /\ h \in Handlers
  BY DEF State, Handlers
<1>2. CASE s # None /\ c \in Cls
  <2>1. s \in Addrs
    BY <1>1, <1>2, SoundFacts, TracerTypes
  <2>2. tr.cl[c] # None
    BY <1>1, <1>2, <2>1, SoundFacts, AddrFacts DEF SlabKnown, Owner
  <2>3. Waits(h, D) \/ (Proceeds(h, D) /\ tr' = done /\ hook' = None)
    BY <1>2 DEF OnSyncEvent
  <2>4. D \subseteq Live(tr)
    BY ReachedFacts
  <2> HIDE DEF D
  <2>5. Sound(t, {}) /\ t.cl[c] # None
    BY <1>1, <1>2, <2>2, <2>4, DrainSound
  <2> HIDE DEF t, c
  <2>6. Sound(Land(t, {c}), {})
    <3> DEFINE L == {c}
    <3>1. L \subseteq Cls /\ \A x \in L : t.cl[x] # None
      BY <1>2, <2>5
    <3> HIDE DEF L
    <3>2. Sound(Land(t, L), {})
      BY <2>5, <3>1, LandSound
    <3> QED
      BY <3>2 DEF L
  <2>7. Sound(done, {})
    BY <2>5, <2>6
  <2> HIDE DEF done, h
  <2>8. hook' \in {hook, None}
    BY <2>3 DEF Waits
  <2> QED
    BY <1>1, <2>3, <2>7, <2>8, HandlerSound
<1>3. CASE ~(s # None /\ c \in Cls)
  <2>1. UNCHANGED <<tr, holder>> /\ hook' = None
    BY <1>3 DEF OnSyncEvent
  <2> QED
    BY <1>1, <2>1
<1> QED
  BY <1>2, <1>3

LEMMA SyncSteps ==
  ASSUME State,
         \/ OnSync
         \/ \E k \in {"event", "cl", "queue", "fence"},
               h \in Events \union Cls \union Queues \union Fences : SyncReturns(k, h)
  PROVE  State'
<1>1. CASE OnSync
  <2> DEFINE Good == /\ Sound(tr', {}) /\ holder' \in Handlers \union {None}
                     /\ hook' \in {hook, None}
  <2>1. Good
    <3>1. CASE hook[1] = "event" /\ OnSyncEvent(hook[2])
      BY <1>1, <3>1, SyncEventSound DEF State, OnSync
    <3>2. CASE OnSyncCls({hook[2]} \intersect Registered)
      BY <3>2, SyncClsSound
    <3>3. CASE OnSyncCls(InFlightOn(hook[2]))
      <4>1. InFlightOn(hook[2]) \subseteq Registered
        BY DEF InFlightOn
      <4> QED
        BY <3>3, <4>1, SyncClsSound
    <3>4. CASE OnSyncCls(InFlightUnder(hook[2]))
      <4>1. InFlightUnder(hook[2]) \subseteq Registered
        BY DEF InFlightUnder
      <4> QED
        BY <3>4, <4>1, SyncClsSound
    <3> QED
      BY <1>1, <3>1, <3>2, <3>3, <3>4 DEF OnSync
  <2>2. UNCHANGED <<closed, fired, used>>
    BY <1>1 DEF OnSync
  <2> QED
    BY <2>1, <2>2 DEF State
<1>2. ASSUME NEW k, NEW h, SyncReturns(k, h)
      PROVE  State'
  <2>1. hook' = <<k, h>> /\ UNCHANGED <<tr, closed, fired, holder, used>> /\ (k = "event" => h \in fired)
    BY <1>2 DEF SyncReturns
  <2> QED
    BY <2>1 DEF State
<1> QED
  BY <1>1, <1>2

LEMMA InitState == Init => State
<1> SUFFICES ASSUME Init PROVE State
  OBVIOUS
<1> DEFINE cls == [c \in Cls |-> None]
           slabs == [b \in Slabs |-> NoSlab]
           slots == [a \in Addrs |-> NoSlot]
           latest == [e \in Events |-> None]
<1>1. /\ tr = [cl |-> cls, slab |-> slabs, slot |-> slots, latest |-> latest, kts |-> {}]
      /\ closed = {} /\ fired = {} /\ hook = None /\ holder = None /\ used = {}
  BY DEF Init
<1>2. /\ \A c \in Cls : cls[c] = None
      /\ \A b \in Slabs : slabs[b] = NoSlab
      /\ \A a \in Addrs : slots[a] = NoSlot
      /\ \A e \in Events : latest[e] = None
  OBVIOUS
<1>3. /\ cls \in [Cls -> CommandLists \union {None}] /\ slabs \in [Slabs -> SlabRecords]
      /\ slots \in [Addrs -> Slots] /\ latest \in [Events -> Addrs \union {None}]
  BY NewTypes
<1> HIDE DEF cls, slabs, slots, latest
<1>4. tr.cl = cls /\ tr.slab = slabs /\ tr.slot = slots /\ tr.latest = latest
  BY <1>1
<1>5. tr \in Tracers
  BY <1>1, <1>3 DEF Tracers
<1>6. NoSlot.live = FALSE /\ NoSlot.refs = 0 /\ NoSlab.owner = "free" /\ NoSlab.n_held = 0
      /\ NoSlab.n_used = 0 /\ "free" \notin Cls /\ "free" \notin Immediate
  BY ZeAssumption DEF NoSlot, NoSlab, Cls
<1>7. \A a \in Addrs : tr.slot[a].live = FALSE
  BY <1>2, <1>4, <1>6
<1>8. Live(tr) = {}
  BY <1>7 DEF Live
<1>9. RefsExact(tr)
  <2> SUFFICES ASSUME NEW a \in Addrs PROVE tr.slot[a].refs = Edges(tr, {}, a)
    BY <1>8 DEF RefsExact
  <2>1. Edges(tr, {}, a) = 0
    BY <1>5, NoEdges
  <2> QED
    BY <1>2, <1>4, <1>6, <2>1
<1>10. \A b \in Slabs : SlabKnown(tr, b) /\ HeldExact(tr, {}, b)
  BY <1>2, <1>4, <1>6 DEF SlabKnown, HeldExact
<1>11. \A a \in Addrs : SlotKnown(tr, a)
  BY <1>2, <1>4, <1>7 DEF SlotKnown
<1>12. LatestLive(tr) /\ \A c \in Cls : tr.cl[c] # None => ListExact(tr, c)
  BY <1>2, <1>4 DEF LatestLive
<1> QED
  BY <1>1, <1>5, <1>9, <1>10, <1>11, <1>12 DEF State, Sound

LEMMA StateStep ==
  ASSUME "sync_first" \in Rules, State, [Next]_vars
  PROVE  State'
<1>1. CASE UNCHANGED vars
  BY <1>1 DEF vars, State
<1> QED
  BY <1>1, ListSteps, RegularSteps, ContextStep, EventSteps, CompleteStep, SyncSteps DEF Next

LEMMA StateInvariant ==
  ASSUME "sync_first" \in Rules
  PROVE  Spec => []State
<1>1. State /\ [Next]_vars => State'
  BY StateStep
<1> QED
  BY <1>1, InitState, PTL DEF Spec

-----------------------------------------------------------------------------
(* What the invariant implies. *)

LEMMA NoDanglingPredInv == State => NoDanglingPred
<1> SUFFICES ASSUME State, NEW s \in Live(tr), NEW p \in PredsOf(tr, s)
             PROVE  Owner(tr, p) # "free" /\ p[2] <= tr.slab[p[1]].n_used
  BY DEF NoDanglingPred
<1>1. Sound(tr, {})
  BY DEF State
<1>2. tr \in Tracers /\ Live(tr) \subseteq Addrs
  BY <1>1, SoundFacts, LiveFacts
<1>3. p \in Addrs
  BY <1>2, SlotTypes DEF PredsOf
<1>4. tr.slot[p].refs # 0
  BY <1>1, <1>2, <1>3, NoEdges, SoundFacts
<1>5. tr.slot[p] # NoSlot
  BY <1>4 DEF NoSlot
<1> QED
  BY <1>1, <1>3, <1>5, SlotUsed DEF SlotsOf, Owner

LEMMA CountsExactInv == State => CountsExact
<1> SUFFICES ASSUME State PROVE CountsExact
  OBVIOUS
<1>1. Sound(tr, {})
  BY DEF State
<1>2. \A a \in Addrs : tr.slot[a].refs = Edges(tr, Live(tr), a)
  BY <1>1, SoundFacts
<1>3. ASSUME NEW c \in Registered
      PROVE  /\ tr.cl[c].n_live = Cardinality(LiveOf(tr, c))
             /\ c \in InOrder => /\ ToSet(tr.cl[c].live_slots) = LiveOf(tr, c)
                                 /\ Len(tr.cl[c].live_slots) = Cardinality(LiveOf(tr, c))
  <2> DEFINE q == tr.cl[c].live_slots
  <2>1. c \in Cls /\ tr.cl[c] # None
    BY DEF Registered
  <2>2. ListExact(tr, c)
    BY <1>1, <2>1, SoundFacts
  <2>3. ASSUME c \in InOrder
        PROVE  ToSet(q) = LiveOf(tr, c) /\ Len(q) = Cardinality(LiveOf(tr, c))
    <3>1. ToSet(q) = LiveOf(tr, c) /\ Injective(q)
      BY <2>2, <2>3 DEF ListExact
    <3>2. q \in Seq(Addrs)
      BY <1>1, <2>1, SoundFacts, ListTypes
    <3> HIDE DEF q
    <3>3. Len(q) \in Nat /\ DOMAIN q = 1 .. Len(q) /\ q \in [1 .. Len(q) -> Addrs]
      BY <3>2
    <3>4. q \in Bijection(1 .. Len(q), ToSet(q))
      BY <3>1, <3>3 DEF Bijection, Injection, Surjection, IsInjective, ToSet, Injective
    <3>5. IsFiniteSet(1 .. Len(q)) /\ Cardinality(1 .. Len(q)) = Len(q)
      BY <3>3, FS_Interval
    <3>6. Cardinality(ToSet(q)) = Len(q)
      BY <3>4, <3>5, FS_Bijection DEF ExistsBijection
    <3> QED
      BY <3>1, <3>6
  <2> QED
    BY <2>2, <2>3 DEF ListExact
<1> QED
  BY <1>2, <1>3 DEF CountsExact, LiveOf

LEMMA SlabsNeededInv == State => SlabsNeeded
<1> SUFFICES ASSUME State, NEW b \in Slabs
             PROVE  /\ tr.slab[b].owner \in Immediate /\ ~IsTail(tr, b) => tr.slab[b].n_held > 0
                    /\ tr.slab[b].owner = "detached" =>
                         \E s \in Live(tr) : \E p \in PredsOf(tr, s) : p[1] = b /\ s[1] # b
  BY DEF SlabsNeeded
<1>1. Sound(tr, {})
  BY DEF State
<1>2. HeldExact(tr, {}, b) /\ tr \in Tracers /\ Live(tr) \subseteq Addrs
  BY <1>1, SoundFacts, LiveFacts
<1>3. ASSUME tr.slab[b].owner = "detached"
      PROVE  \E s \in Live(tr) : \E p \in PredsOf(tr, s) : p[1] = b /\ s[1] # b
  <2>1. Cardinality(Needed(tr, b)) # 0
    BY <1>2, <1>3 DEF HeldExact
  <2>2. PICK p : p \in Needed(tr, b)
    <3>1. Cardinality({}) = 0
      BY FS_EmptySet
    <3> QED
      BY <2>1, <3>1
  <2>3. p \in Addrs /\ p[1] = b
    BY <2>2 DEF Needed
  <2>4. "detached" \notin Cls
    BY ZeAssumption
  <2>5. \A a \in Live(tr) : a[1] # b
    BY <1>1, <1>2, <1>3, <2>4, SoundFacts DEF SlotKnown, Live, Owner
  <2>6. p \notin Live(tr)
    BY <2>3, <2>5
  <2>7. tr.slot[p].refs # 0
    BY <2>2, <2>3, <2>6 DEF Needed, Live
  <2>8. PICK s : s \in Live(tr) /\ p \in PredsOf(tr, s)
    BY <1>1, <1>2, <2>3, <2>7, NoEdges, SoundFacts
  <2> QED
    BY <2>3, <2>5, <2>8
<1> QED
  BY <1>2, <1>3 DEF HeldExact

\* The tracer's state keeps its types: no counter of a slab exceeds the slots
\* it has, n_live never goes below zero, and every edge leads to a slot.
THEOREM TypesKept ==
  ASSUME "sync_first" \in Rules
  PROVE  Spec => []TypeOK
<1>1. State => TypeOK
  BY SoundFacts DEF State, TypeOK
<1> QED
  BY <1>1, StateInvariant, PTL

\* A live slot's edges lead to slots whose slab is still there, whatever the
\* lists that owned them went through: _slot_drain never follows a pointer into
\* memory that _cl_slab_reclaim, a drain or zeContextDestroy has freed.
THEOREM NoPredDangles ==
  ASSUME "sync_first" \in Rules
  PROVE  Spec => []NoDanglingPred
BY NoDanglingPredInv, StateInvariant, PTL

\* refs, n_live and live_slots, which the handlers keep up one step at a time
\* and the drains rely on, are at all times the edges to a slot, the number of
\* the list's live slots and those slots.
THEOREM CountsStayExact ==
  ASSUME "sync_first" \in Rules
  PROVE  Spec => []CountsExact
BY CountsExactInv, StateInvariant, PTL

\* When the program destroys a list only after its commands are drained, every
\* slab is freed in time: one an immediate list has moved on from, or that
\* outlived its list, goes with the last slot that somebody needs.  Of a list
\* destroyed with live commands this says nothing: the references those hold
\* are never given back (_slot_dispose_resources), so their slabs may stay.
THEOREM DrainedSlabsAreFreed ==
  ASSUME "sync_first" \in Rules
  PROVE  Spec => []SlabsNeeded
BY SlabsNeededInv, StateInvariant, PTL

\* _ze_obj_state of an event names a live slot that signals it, or none: a
\* drained, disposed or re-executed slot is never taken for the signaler.
THEOREM LatestStaysLive ==
  ASSUME "sync_first" \in Rules
  PROVE  Spec => []LatestIsLive
<1>1. State => LatestIsLive
  BY SoundFacts DEF State, LatestIsLive, LatestLive
<1> QED
  BY <1>1, StateInvariant, PTL
=============================================================================
