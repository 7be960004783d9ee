-------------------------- MODULE ZeEventPool_proofs --------------------------
(* Injected events are never shared, the program's events never early, and   *)
(* timings never another command's, for any lists, threads and events.       *)
EXTENDS ZeEventPool, FiniteSetTheorems, FunctionTheorems, SequenceTheorems, TLAPS

-----------------------------------------------------------------------------
(* Who holds which event: this part needs no more than that no call runs     *)
(* while a failed Append gives its event back.                               *)

CallRecords == [at : {"none", "append", "record", "chain", "failed", "write"},
                list : Lists \union {None}, inj : Events \union {None},
                id : Ids \union {0}, seen : Seq(Events)]

ByCall(t, e) == call[t].inj = e /\ call[t].at # "chain"
BySlot(c, e) == /\ cmds[c].inj = e
                /\ \/ cmds[c].slot = "live"
                   \/ cmds[c].slot = "drained" /\ cmds[c].list \in Regular
Free(e) == e \in ToSet(freelist) \union fresh
Unheld(e) == /\ \A t \in Threads : ~ByCall(t, e)
             /\ \A c \in DOMAIN cmds : ~BySlot(c, e)

Owned ==
  /\ ToSet(freelist) \intersect fresh = {}
  /\ \A e \in Events :
       /\ \A t, u \in Threads : ByCall(t, e) /\ ByCall(u, e) => t = u
       /\ \A c, d \in DOMAIN cmds : BySlot(c, e) /\ BySlot(d, e) => c = d
       /\ \A t \in Threads : \A c \in DOMAIN cmds : ~(ByCall(t, e) /\ BySlot(c, e))
       /\ Free(e) => Unheld(e)

\* The calls and the commands they are about.
Overfull(l) == Cardinality(Of(l)) > Cap
Appending == {u \in Threads : call[u].at = "append"}

CallOk(t) ==
  /\ call[t].at = "none" <=> call[t] = Idle
  /\ call[t].at # "none" => call[t].list # None /\ call[t].inj # None
  /\ call[t].list \in Regular => state[call[t].list] = "open"
  /\ call[t].at \in {"record", "chain"} =>
       /\ call[t].id \in DOMAIN cmds
       /\ cmds[call[t].id].list = call[t].list
       /\ cmds[call[t].id].inj = call[t].inj
       /\ cmds[call[t].id].slot = "none"
       /\ cmds[call[t].id].chain = "none"
  /\ call[t].at = "chain" => call[t].list \in Regular /\ Overfull(call[t].list)

Calls ==
  /\ \A t \in Threads : CallOk(t)
  /\ \A t, u \in Threads : call[t].list = call[u].list => t = u \/ call[t].list = None
  /\ appended + Cardinality(Appending) <= MaxCommands
  /\ \A c \in DOMAIN cmds : c <= appended

\* What a failed Append has read of the free list is still nobody's.
Seen == \A t \in Threads : call[t].at = "write" =>
          /\ Distinct(call[t].seen)
          /\ \A e \in ToSet(call[t].seen) : e \notin fresh /\ Unheld(e)

OwnInv == TypeOK /\ Owned /\ Calls /\ Seen

-----------------------------------------------------------------------------
(* Putting events back. *)

\* Listing a set of numbers from the last one takes each once.
LEMMA LastFirstFacts ==
  ASSUME NEW D, IsFiniteSet(D), \A c \in D : c \in Nat
  PROVE  /\ Cardinality(D) \in Nat
         /\ LastFirst(D) \in Bijection(1 .. Cardinality(D), D)
<1> DEFINE n == Cardinality(D)
           N == 1 .. n
           Above(c) == {d \in D : d >= c}
           rank == [c \in D |-> Cardinality(Above(c))]
           Down(q) == \A i, j \in 1 .. Cardinality(D) : i < j => q[i] > q[j]
<1>1. n \in Nat /\ IsFiniteSet(N) /\ Cardinality(N) = n
  BY FS_CardinalityType, FS_Interval
<1>2. \A c \in D : IsFiniteSet(Above(c)) /\ rank[c] \in N
  <2> TAKE c \in D
  <2>1. IsFiniteSet(Above(c)) /\ Cardinality(Above(c)) <= n /\ Cardinality(Above(c)) \in Nat
    BY FS_Subset, FS_CardinalityType
  <2>2. c \in Above(c)
    OBVIOUS
  <2>3. Cardinality(Above(c)) # 0
    BY <2>1, <2>2, FS_EmptySet
  <2> QED
    BY <1>1, <2>1, <2>3
<1>3. \A c, d \in D : c < d => rank[c] > rank[d]
  <2> SUFFICES ASSUME NEW c \in D, NEW d \in D, c < d PROVE rank[c] > rank[d]
    OBVIOUS
  <2>1. Above(d) \subseteq Above(c) /\ c \notin Above(d) /\ c \in Above(c)
    OBVIOUS
  <2>2. /\ Cardinality(Above(d)) <= Cardinality(Above(c))
        /\ Cardinality(Above(d)) # Cardinality(Above(c))
    BY <1>2, <2>1, FS_Subset
  <2>3. Cardinality(Above(c)) \in Nat /\ Cardinality(Above(d)) \in Nat
    BY <1>2, FS_CardinalityType
  <2>4. Cardinality(Above(c)) > Cardinality(Above(d))
    BY <2>2, <2>3
  <2> QED
    BY <2>4
<1>a. rank \in [D -> N]
  BY <1>2
<1> HIDE DEF rank, Above
<1>4. rank \in Bijection(D, N)
  <2>1. \A c \in D : rank[c] \in Int
    BY <1>1, <1>a
  <2>2. \A c, d \in D : rank[c] = rank[d] => c = d
    BY <1>3, <2>1
  <2>3. rank \in Injection(D, N)
    BY <1>a, <2>2, Fun_IsInj
  <2>4. rank \in Surjection(D, N)
    BY <1>1, <2>3, FS_Injection
  <2> QED
    BY <2>3, <2>4, Fun_IsBij
<1>5. \E q \in [N -> D] : Down(q)
  <2> DEFINE q == [i \in N |-> CHOOSE c \in D : rank[c] = i]
  <2>1. \A i \in N : \E c \in D : rank[c] = i
    BY <1>4 DEF Bijection, Surjection
  <2>2. \A i \in N : q[i] \in D /\ rank[q[i]] = i
    BY <2>1
  <2>a. q \in [N -> D]
    BY <2>1
  <2> HIDE DEF q
  <2>3. Down(q)
    <3> SUFFICES ASSUME NEW i \in N, NEW j \in N, i < j PROVE q[i] > q[j]
      OBVIOUS
    <3>1. q[i] \in Nat /\ q[j] \in Nat /\ q[i] # q[j]
      BY <1>1, <2>2
    <3>2. ~(q[i] < q[j])
      BY <1>1, <1>3, <2>2
    <3> QED
      BY <3>1, <3>2
  <2> QED
    BY <2>a, <2>3
<1>6. LastFirst(D) \in [N -> D] /\ Down(LastFirst(D))
  BY <1>5 DEF LastFirst
<1> HIDE DEF Down
<1>7. \A i, j \in N : LastFirst(D)[i] = LastFirst(D)[j] => i = j
  <2> SUFFICES ASSUME NEW i \in N, NEW j \in N, LastFirst(D)[i] = LastFirst(D)[j], i # j
               PROVE  FALSE
    OBVIOUS
  <2>1. LastFirst(D)[i] \in Nat /\ (i < j \/ j < i)
    BY <1>1, <1>6
  <2> QED
    BY <1>6, <2>1 DEF Down
<1>8. LastFirst(D) \in Injection(N, D)
  BY <1>6, <1>7, Fun_IsInj
<1>9. LastFirst(D) \in Surjection(N, D)
  BY <1>1, <1>8, FS_Injection
<1> QED
  BY <1>1, <1>8, <1>9, Fun_IsBij

\* Events put back join the free list, and none is in it twice.
LEMMA PutFacts ==
  ASSUME NEW D, IsFiniteSet(D), \A c \in D : c \in Nat,
         freelist \in Seq(Events), Distinct(freelist),
         \A c \in D : cmds[c].inj \in Events \ ToSet(freelist),
         \A c, d \in D : cmds[c].inj = cmds[d].inj => c = d,
         Put(D)
  PROVE  /\ freelist' \in Seq(Events) /\ Distinct(freelist')
         /\ ToSet(freelist') = ToSet(freelist) \union {cmds[c].inj : c \in D}
<1> DEFINE n == Cardinality(D)
           q == LastFirst(D)
           s == InjsOf(D)
           m == Len(freelist)
<1>1. /\ n \in Nat
      /\ q \in [1 .. n -> D]
      /\ \A i, j \in 1 .. n : q[i] = q[j] => i = j
      /\ \A c \in D : \E i \in 1 .. n : q[i] = c
  <2>1. n \in Nat /\ q \in Bijection(1 .. n, D)
    BY LastFirstFacts
  <2> HIDE DEF n, q
  <2>2. q \in [1 .. n -> D] /\ \A c \in D : \E i \in 1 .. n : q[i] = c
    BY <2>1 DEF Bijection, Surjection
  <2>3. \A i, j \in 1 .. n : q[i] = q[j] => i = j
    BY <2>1, <2>2 DEF Bijection, Injection, IsInjective
  <2> QED
    BY <2>1, <2>2, <2>3
<1>2. \A i \in 1 .. n : s[i] = cmds[q[i]].inj /\ s[i] \in Events
  BY <1>1 DEF InjsOf
<1>3. s \in Seq(Events) /\ Len(s) = n
  BY <1>1, <1>2 DEF InjsOf
<1>b. freelist' = s \o freelist
  BY DEF Put
<1> HIDE DEF s, n, q
<1>4. /\ freelist' \in Seq(Events)
      /\ Len(freelist') = n + m
      /\ \A i \in 1 .. n + m : freelist'[i] = IF i <= n THEN s[i] ELSE freelist[i - n]
  <2>1. /\ s \o freelist \in Seq(Events) /\ Len(s \o freelist) = Len(s) + Len(freelist)
        /\ \A i \in 1 .. Len(s) + Len(freelist) :
             (s \o freelist)[i] = IF i <= Len(s) THEN s[i] ELSE freelist[i - Len(s)]
    BY <1>3
  <2> QED
    BY <1>3, <1>b, <2>1
<1>5. m \in Nat /\ \A i \in 1 .. m : freelist[i] \in ToSet(freelist)
  BY DEF ToSet
<1>c. ToSet(freelist') = {freelist'[i] : i \in 1 .. n + m}
  BY <1>4 DEF ToSet
<1>6. Distinct(freelist')
  <2> SUFFICES ASSUME NEW i \in 1 .. n + m, NEW j \in 1 .. n + m, freelist'[i] = freelist'[j],
                      i <= j
               PROVE  i = j
    BY <1>1, <1>4, <1>5 DEF Distinct
  <2>1. CASE j <= n
    <3>1. i \in 1 .. n /\ j \in 1 .. n
      BY <1>1, <1>5, <2>1
    <3>2. cmds[q[i]].inj = cmds[q[j]].inj
      BY <1>2, <1>4, <2>1, <3>1
    <3> QED
      BY <1>1, <3>1, <3>2
  <2>2. CASE i <= n /\ j > n
    <3>1. i \in 1 .. n /\ j - n \in 1 .. m
      BY <1>1, <1>5, <2>2
    <3>2. s[i] = freelist[j - n]
      BY <1>1, <1>4, <1>5, <2>2
    <3>3. s[i] \notin ToSet(freelist)
      BY <1>1, <1>2, <3>1
    <3> QED
      BY <1>5, <3>1, <3>2, <3>3
  <2>3. CASE i > n
    <3>1. i - n \in 1 .. m /\ j - n \in 1 .. m
      BY <1>1, <1>5, <2>3
    <3>2. freelist[i - n] = freelist[j - n]
      BY <1>1, <1>4, <1>5, <2>3
    <3>3. i - n = j - n
      BY <3>1, <3>2 DEF Distinct
    <3> QED
      BY <1>1, <1>5, <3>3
  <2>4. i \in Int /\ j \in Int /\ n \in Nat
    BY <1>1, <1>5
  <2>5. j <= n \/ (i <= n /\ j > n) \/ i > n
    BY <2>4
  <2> QED
    BY <2>1, <2>2, <2>3, <2>5
<1>7. ToSet(freelist') \subseteq ToSet(freelist) \union {cmds[c].inj : c \in D}
  <2> SUFFICES ASSUME NEW i \in 1 .. n + m
               PROVE  freelist'[i] \in ToSet(freelist) \union {cmds[c].inj : c \in D}
    BY <1>c
  <2>1. CASE i <= n
    BY <1>1, <1>2, <1>4, <1>5, <2>1
  <2>2. CASE i > n
    <3>1. i - n \in 1 .. m
      BY <1>1, <1>5, <2>2
    <3> QED
      BY <1>1, <1>4, <1>5, <2>2, <3>1
  <2> QED
    BY <1>1, <1>5, <2>1, <2>2
<1>8. ToSet(freelist) \subseteq ToSet(freelist')
  <2> SUFFICES ASSUME NEW i \in 1 .. m PROVE freelist[i] \in ToSet(freelist')
    BY <1>5 DEF ToSet
  <2>1. i + n \in 1 .. n + m /\ ~(i + n <= n) /\ (i + n) - n = i
    BY <1>1, <1>5
  <2>2. freelist'[i + n] = freelist[i]
    BY <1>4, <2>1
  <2> QED
    BY <1>c, <2>1, <2>2
<1>9. {cmds[c].inj : c \in D} \subseteq ToSet(freelist')
  <2> SUFFICES ASSUME NEW c \in D PROVE cmds[c].inj \in ToSet(freelist')
    OBVIOUS
  <2>1. PICK i \in 1 .. n : q[i] = c
    BY <1>1
  <2>2. i \in 1 .. n + m /\ i <= n
    BY <1>1, <1>5
  <2>3. freelist'[i] = cmds[c].inj
    BY <1>2, <1>4, <2>1, <2>2
  <2> QED
    BY <1>c, <2>2, <2>3
<1> QED
  BY <1>4, <1>6, <1>7, <1>8, <1>9
-----------------------------------------------------------------------------
(* Steps and the holders. *)

\* Only finitely many commands have been appended.
LEMMA CommandsFinite ==
  ASSUME TypeOK
  PROVE  \A D : D \subseteq DOMAIN cmds =>
           /\ IsFiniteSet(D) /\ Cardinality(D) \in Nat
           /\ \A c \in D : c \in Nat
<1> SUFFICES ASSUME NEW D, D \subseteq DOMAIN cmds
             PROVE  /\ IsFiniteSet(D) /\ Cardinality(D) \in Nat
                    /\ \A c \in D : c \in Nat
  OBVIOUS
<1>1. D \subseteq 1 .. MaxCommands
  BY DEF TypeOK, Ids
<1>2. IsFiniteSet(1 .. MaxCommands)
  BY FS_Interval, PoolAssumption
<1> QED
  BY <1>1, <1>2, FS_Subset, FS_CardinalityType, PoolAssumption

\* Whether a list is over its cap depends on which commands are on it.
LEMMA SameLists ==
  ASSUME DOMAIN cmds' = DOMAIN cmds, \A c \in DOMAIN cmds : cmds'[c].list = cmds[c].list
  PROVE  \A l : Overfull(l)' <=> Overfull(l)
<1> TAKE l
<1>1. Of(l)' = Of(l)
  BY DEF Of
<1> QED
  BY <1>1 DEF Overfull

\* One more command does not bring a list below its cap.
LEMMA MoreCommands ==
  ASSUME DOMAIN cmds \subseteq DOMAIN cmds', DOMAIN cmds' \subseteq Ids,
         \A c \in DOMAIN cmds : cmds'[c].list = cmds[c].list
  PROVE  \A l : Overfull(l) => Overfull(l)'
<1> TAKE l
<1>1. Of(l) \subseteq Of(l)' /\ Of(l)' \subseteq 1 .. MaxCommands
  BY DEF Of, Ids
<1>2. IsFiniteSet(Of(l)') /\ IsFiniteSet(Of(l))
  BY <1>1, FS_Interval, FS_Subset, PoolAssumption
<1>3. /\ Cardinality(Of(l)) \in Nat /\ Cardinality(Of(l)') \in Nat
      /\ Cardinality(Of(l)) <= Cardinality(Of(l)')
  BY <1>1, <1>2, FS_Subset, FS_CardinalityType
<1> QED
  BY <1>3, PoolAssumption DEF Overfull

\* A command that finds no room is on a list past its cap.
LEMMA PastCap ==
  ASSUME TypeOK, NEW l \in Lists, ~HasRoom(l),
         NEW k \in DOMAIN cmds, cmds[k].list = l, cmds[k].slot = "none"
  PROVE  l \in Regular /\ Overfull(l)
<1> DEFINE full == {c \in Of(l) : cmds[c].slot # "none"}
<1>1. l \in Regular /\ ~(Cardinality(full) < Cap)
  BY DEF HasRoom, Lists
<1>2. k \in Of(l) /\ k \notin full /\ full \subseteq Of(l) /\ Of(l) \subseteq DOMAIN cmds
  BY DEF Of
<1>3. /\ IsFiniteSet(Of(l)) /\ Cardinality(Of(l)) \in Nat
      /\ IsFiniteSet(full) /\ Cardinality(full) \in Nat
  BY <1>2, CommandsFinite
<1> HIDE DEF full
<1>4. /\ Cardinality(full) <= Cardinality(Of(l))
      /\ Cardinality(full) # Cardinality(Of(l))
  BY <1>2, <1>3, FS_Subset
<1> QED
  BY <1>1, <1>3, <1>4, PoolAssumption DEF Overfull

\* What the types of a step come down to that leaves the events where they
\* are.
LEMMA SameTypes ==
  ASSUME TypeOK, UNCHANGED <<freelist, fresh, call, appended>>,
         DOMAIN cmds' = DOMAIN cmds, \A c \in DOMAIN cmds : cmds'[c] \in Commands,
         signaled' \in [Events -> Ids \union {0}],
         state' \in [Regular -> {"open", "flight", "idle"}]
  PROVE  TypeOK'
<1>1. Distinct(freelist)'
  BY DEF TypeOK, Distinct
<1> QED
  BY <1>1 DEF TypeOK

\* A slot holds its event whatever becomes of its command.
LEMMA SameSlots ==
  ASSUME TypeOK, Owned, Seen, UNCHANGED <<freelist, fresh, call>>,
         DOMAIN cmds' = DOMAIN cmds,
         \A c \in DOMAIN cmds : /\ cmds'[c].inj = cmds[c].inj /\ cmds'[c].list = cmds[c].list
                                /\ \/ cmds'[c].slot = cmds[c].slot
                                   \/ /\ cmds[c].list \in Regular
                                      /\ cmds[c].slot # "none" /\ cmds'[c].slot = "live"
  PROVE  Owned' /\ Seen'
<1>1. \A c \in DOMAIN cmds : cmds[c].slot \in {"none", "live", "drained"}
  BY DEF TypeOK, Commands
<1>2. \A c \in DOMAIN cmds : \A e : BySlot(c, e)' <=> BySlot(c, e)
  BY <1>1 DEF BySlot
<1>3. \A e : /\ Free(e)' <=> Free(e)
             /\ Unheld(e)' <=> Unheld(e)
             /\ \A t \in Threads : ByCall(t, e)' <=> ByCall(t, e)
  BY <1>2 DEF Free, Unheld, ByCall
<1>4. Owned'
  BY <1>2, <1>3 DEF Owned
<1>5. Seen'
  BY <1>3 DEF Seen
<1> QED
  BY <1>4, <1>5

\* The device gives no event away.
LEMMA KernelOwn ==
  ASSUME OwnInv, NEW k \in Ids, Kernel(k)
  PROVE  OwnInv'
<1> USE DEF OwnInv, Kernel
<1>1. /\ DOMAIN cmds' = DOMAIN cmds
      /\ \A c \in DOMAIN cmds :
           /\ cmds'[c].inj = cmds[c].inj /\ cmds'[c].list = cmds[c].list
           /\ cmds'[c].slot = cmds[c].slot /\ cmds'[c].chain = cmds[c].chain
  BY DEF TypeOK, Commands
<1>2. \A l : Overfull(l)' <=> Overfull(l)
  BY <1>1, SameLists
<1>3. TypeOK'
  <2>1. cmds[k] \in Commands /\ cmds[k].inj \in Events
    BY DEF TypeOK, Commands
  <2>2. [cmds[k] EXCEPT !.kernel = "done"] \in Commands
    BY <2>1 DEF Commands
  <2>3. \A c \in DOMAIN cmds : cmds'[c] \in Commands
    BY <2>2 DEF TypeOK
  <2>4. /\ signaled' \in [Events -> Ids \union {0}]
        /\ state' \in [Regular -> {"open", "flight", "idle"}]
    BY <2>1 DEF TypeOK
  <2> QED
    BY <1>1, <2>3, <2>4, SameTypes
<1>4. Owned' /\ Seen'
  BY <1>1, SameSlots
<1>5. Calls'
  BY <1>1, <1>2 DEF Calls, CallOk, Appending
<1> QED
  BY <1>3, <1>4, <1>5

\* Nor does the barrier that signals the program's event.
LEMMA BarrierOwn ==
  ASSUME OwnInv, NEW k \in Ids, Barrier(k)
  PROVE  OwnInv'
<1> USE DEF OwnInv, Barrier
<1>1. /\ DOMAIN cmds' = DOMAIN cmds
      /\ \A c \in DOMAIN cmds :
           /\ cmds'[c].inj = cmds[c].inj /\ cmds'[c].list = cmds[c].list
           /\ cmds'[c].slot = cmds[c].slot
           /\ cmds[c].chain # "queued" => cmds'[c].chain = cmds[c].chain
  BY DEF TypeOK, Commands
<1>2. \A l : Overfull(l)' <=> Overfull(l)
  BY <1>1, SameLists
<1>3. TypeOK'
  <2>1. cmds[k] \in Commands
    BY DEF TypeOK
  <2>2. [cmds[k] EXCEPT !.chain = "fired"] \in Commands
    BY <2>1 DEF Commands
  <2>3. \A c \in DOMAIN cmds : cmds'[c] \in Commands
    BY <2>2 DEF TypeOK
  <2>4. /\ signaled' \in [Events -> Ids \union {0}]
        /\ state' \in [Regular -> {"open", "flight", "idle"}]
    BY DEF TypeOK
  <2> QED
    BY <1>1, <2>3, <2>4, SameTypes
<1>4. Owned' /\ Seen'
  BY <1>1, SameSlots
<1>5. Calls'
  BY <1>1, <1>2 DEF Calls, CallOk, Appending
<1> QED
  BY <1>3, <1>4, <1>5

\* An execution gives no event away: the slots of a regular list keep theirs.
LEMMA ExecuteOwn ==
  ASSUME OwnInv, NEW l \in Regular, Execute(l)
  PROVE  OwnInv'
<1> USE DEF OwnInv
<1> DEFINE ran(c) == [cmds[c] EXCEPT !.kernel = "queued",
                                     !.chain = IF cmds[c].sig THEN "queued" ELSE "none",
                                     !.slot = IF cmds[c].slot = "none" THEN "none" ELSE "live"]
<1>a. /\ cmds' = [c \in DOMAIN cmds |-> IF c \notin Of(l) THEN cmds[c] ELSE ran(c)]
      /\ state' = [state EXCEPT ![l] = "flight"]
      /\ UNCHANGED <<freelist, fresh, call, appended>>
      /\ \A t \in Threads : call[t].list # l
  BY DEF Execute
<1>b. signaled' \in [Events -> Ids \union {0}]
  BY DEF Execute, Reset, TypeOK
<1>c. \A c \in DOMAIN cmds : /\ ran(c) \in Commands
                             /\ ran(c).inj = cmds[c].inj /\ ran(c).list = cmds[c].list
                             /\ ran(c).slot = IF cmds[c].slot = "none" THEN "none" ELSE "live"
  <2> TAKE c \in DOMAIN cmds
  <2>1. cmds[c] \in Commands
    BY DEF TypeOK
  <2> QED
    BY <2>1 DEF Commands
<1> HIDE DEF ran
<1>1. /\ DOMAIN cmds' = DOMAIN cmds
      /\ \A c \in DOMAIN cmds :
           /\ cmds'[c].inj = cmds[c].inj /\ cmds'[c].list = cmds[c].list
           /\ c \notin Of(l) => cmds'[c] = cmds[c]
           /\ c \in Of(l) => cmds'[c].slot = IF cmds[c].slot = "none" THEN "none" ELSE "live"
  BY <1>a, <1>c
<1>2. \A x : Overfull(x)' <=> Overfull(x)
  BY <1>1, SameLists
<1>3. TypeOK'
  <2>1. \A c \in DOMAIN cmds : cmds'[c] \in Commands
    BY <1>a, <1>c DEF TypeOK
  <2>2. state' \in [Regular -> {"open", "flight", "idle"}]
    BY <1>a DEF TypeOK
  <2> QED
    BY <1>1, <1>a, <1>b, <2>1, <2>2, SameTypes
<1>4. \A c \in DOMAIN cmds : cmds[c].slot \in {"none", "live", "drained"}
  BY DEF TypeOK, Commands
<1>5. Owned' /\ Seen'
  <2>1. \A c \in Of(l) : cmds[c].list \in Regular
    BY DEF Of
  <2>2. \A c \in DOMAIN cmds : \/ cmds'[c].slot = cmds[c].slot
                               \/ /\ cmds[c].list \in Regular
                                  /\ cmds[c].slot # "none" /\ cmds'[c].slot = "live"
    BY <1>1, <1>4, <2>1
  <2> QED
    BY <1>1, <1>a, <2>2, SameSlots
<1>6. Calls'
  <2>1. ASSUME NEW t \in Threads PROVE CallOk(t)'
    <3>1. call' = call /\ call[t].list # l /\ CallOk(t)
      BY <1>a DEF Calls
    <3>2. call[t].at \in {"record", "chain"} => call[t].id \notin Of(l)
      BY <3>1 DEF CallOk, Of
    <3>3. \A x \in Regular : x # l => state'[x] = state[x]
      BY <1>a DEF TypeOK
    <3>4. call[t].at \in {"record", "chain"} =>
            cmds'[call[t].id] = cmds[call[t].id] /\ call[t].id \in DOMAIN cmds
      BY <1>1, <3>1, <3>2 DEF CallOk
    <3> QED
      BY <1>1, <1>2, <3>1, <3>3, <3>4 DEF CallOk
  <2>2. Appending' = Appending
    BY <1>a DEF Appending
  <2>3. /\ \A t, u \in Threads : call'[t].list = call'[u].list => t = u \/ call'[t].list = None
        /\ appended' + Cardinality(Appending') <= MaxCommands
        /\ \A c \in DOMAIN cmds' : c <= appended'
    BY <1>1, <1>a, <2>2 DEF Calls
  <2> QED
    BY <2>1, <2>3 DEF Calls
<1> QED
  BY <1>3, <1>5, <1>6

\* An event that is taken is no longer free.
LEMMA TakeFacts ==
  ASSUME TypeOK, Owned, NEW e \in Events, Take(e)
  PROVE  /\ freelist' \in Seq(Events) /\ Distinct(freelist') /\ fresh' \subseteq Events
         /\ ToSet(freelist') \intersect fresh' = {}
         /\ Free(e) /\ \A x : Free(x)' => Free(x) /\ x # e
         /\ fresh' \subseteq fresh
<1> USE DEF TypeOK
<1>1. CASE freelist # <<>> /\ e = Head(freelist) /\ freelist' = Tail(freelist) /\ fresh' = fresh
  <2>1. /\ freelist' \in Seq(Events) /\ Len(freelist) \in Nat
        /\ Len(freelist') = Len(freelist) - 1
        /\ \A i \in 1 .. Len(freelist') : freelist'[i] = freelist[i + 1]
        /\ e = freelist[1] /\ Len(freelist) > 0
    BY <1>1, HeadTailProperties
  <2>2. \A i \in 1 .. Len(freelist') : i + 1 \in 1 .. Len(freelist) /\ i + 1 # 1
    BY <2>1
  <2>3. Distinct(freelist')
    <3> SUFFICES ASSUME NEW i \in 1 .. Len(freelist'), NEW j \in 1 .. Len(freelist'),
                        freelist'[i] = freelist'[j]
                 PROVE  i = j
      BY DEF Distinct
    <3>1. i + 1 = j + 1
      BY <2>1, <2>2 DEF Distinct
    <3> QED
      BY <2>1, <3>1
  <2>4. ASSUME NEW x \in ToSet(freelist') PROVE x \in ToSet(freelist) /\ x # e
    <3>1. PICK i \in 1 .. Len(freelist') : x = freelist[i + 1]
      BY <2>1 DEF ToSet
    <3>2. i + 1 \in 1 .. Len(freelist) /\ i + 1 # 1 /\ 1 \in 1 .. Len(freelist)
      BY <2>1, <2>2
    <3>3. x # e
      BY <2>1, <3>1, <3>2 DEF Distinct
    <3> QED
      BY <3>1, <3>2, <3>3 DEF ToSet
  <2>5. e \in ToSet(freelist)
    BY <2>1 DEF ToSet
  <2> QED
    BY <1>1, <2>1, <2>3, <2>4, <2>5 DEF Free, Owned
<1>2. CASE freelist = <<>> /\ e \in fresh /\ fresh' = fresh \ {e} /\ freelist' = freelist
  <2>1. ToSet(freelist) = {}
    BY <1>2 DEF ToSet
  <2> QED
    BY <1>2, <2>1 DEF Free
<1> QED
  BY <1>1, <1>2 DEF Take

\* The event taken is the call's.
LEMMA GetEventOwn ==
  ASSUME OwnInv, "quiet_fail" \in Rules, NEW t \in Threads, NEW l \in Lists, GetEvent(t, l)
  PROVE  OwnInv'
<1> USE DEF OwnInv
<1>1. PICK e \in Events :
        /\ Take(e)
        /\ call' = [call EXCEPT ![t] = [Idle EXCEPT !.at = "append", !.list = l, !.inj = e]]
  BY DEF GetEvent
<1>a. /\ call[t] = Idle /\ l # None /\ e # None
      /\ UNCHANGED <<signaled, cmds, appended, state>>
      /\ \A u \in Threads : call[u].list # l /\ call[u].at # "write"
      /\ l \in Regular => state[l] = "open"
  BY PoolAssumption DEF GetEvent, Lists, Quiet
<1>b. /\ call'[t] = [at |-> "append", list |-> l, inj |-> e, id |-> 0, seen |-> <<>>]
      /\ \A u \in Threads : u # t => call'[u] = call[u]
  BY <1>1 DEF Idle, TypeOK
<1>2. /\ call'[t].at = "append" /\ call'[t].list = l /\ call'[t].inj = e
      /\ call'[t].id = 0 /\ call'[t].seen = <<>> /\ call[t].at = "none"
      /\ \A u \in Threads : u # t => call'[u] = call[u]
      /\ l # None /\ e # None
      /\ UNCHANGED <<signaled, cmds, appended, state>>
      /\ \A u \in Threads : call[u].list # l /\ call[u].at # "write"
      /\ l \in Regular => state[l] = "open"
  BY <1>a, <1>b DEF Idle
<1>3. /\ freelist' \in Seq(Events) /\ Distinct(freelist') /\ fresh' \subseteq Events
      /\ ToSet(freelist') \intersect fresh' = {}
      /\ Free(e) /\ \A x : Free(x)' => Free(x) /\ x # e
  BY <1>1, TakeFacts
<1>4. TypeOK'
  <2>1. call'[t] \in CallRecords
    BY <1>b DEF CallRecords
  <2>2. call \in [Threads -> CallRecords]
    BY DEF TypeOK, CallRecords
  <2>3. call' \in [Threads -> CallRecords]
    BY <1>1, <1>2, <2>1, <2>2
  <2> QED
    BY <1>2, <1>3, <2>3 DEF TypeOK, CallRecords
<1>5. Unheld(e)
  BY <1>3 DEF Owned
<1>6. /\ \A c \in DOMAIN cmds' : \A x : BySlot(c, x)' <=> BySlot(c, x)
      /\ \A u \in Threads : \A x : u # t => (ByCall(u, x)' <=> ByCall(u, x))
      /\ \A x : ByCall(t, x)' <=> x = e
  BY <1>2 DEF BySlot, ByCall
<1>7. Owned'
  <2> SUFFICES ASSUME NEW x \in Events
               PROVE  /\ \A u, v \in Threads : ByCall(u, x)' /\ ByCall(v, x)' => u = v
                      /\ \A c, d \in DOMAIN cmds' : BySlot(c, x)' /\ BySlot(d, x)' => c = d
                      /\ \A u \in Threads : \A c \in DOMAIN cmds' : ~(ByCall(u, x)' /\ BySlot(c, x)')
                      /\ Free(x)' => Unheld(x)'
    BY <1>3 DEF Owned
  <2> QED
    BY <1>2, <1>3, <1>5, <1>6 DEF Owned, Unheld
<1>8. Calls'
  <2>1. Appending' = Appending \union {t} /\ t \notin Appending
    BY <1>2 DEF Appending
  <2>2. IsFiniteSet(Appending) /\ Cardinality(Appending) \in Nat
    BY PoolAssumption, FS_Subset, FS_CardinalityType DEF Appending
  <2>3. Cardinality(Appending') = Cardinality(Appending) + 1
    BY <2>1, <2>2, FS_AddElement
  <2>4. appended + Cardinality(Appending) < MaxCommands
    BY DEF GetEvent, Appending
  <2>5. appended' + Cardinality(Appending') <= MaxCommands
    BY <1>2, <2>2, <2>3, <2>4, PoolAssumption DEF TypeOK
  <2>6. ASSUME NEW u \in Threads PROVE CallOk(u)'
    <3>1. \A x : Overfull(x)' <=> Overfull(x)
      BY <1>2, SameLists
    <3>2. CASE u = t
      BY <1>b, <1>2, <3>1, <3>2 DEF CallOk, Idle
    <3>3. CASE u # t
      BY <1>2, <3>1, <3>3 DEF Calls, CallOk
    <3> QED
      BY <3>2, <3>3
  <2>7. \A u, v \in Threads : call'[u].list = call'[v].list => u = v \/ call'[u].list = None
    BY <1>2 DEF Calls
  <2> QED
    BY <1>2, <2>5, <2>6, <2>7 DEF Calls
<1>9. Seen'
  BY <1>2 DEF Seen
<1> QED
  BY <1>4, <1>7, <1>8, <1>9

\* The driver's Append leaves the event with the call.
LEMMA DriverAppendOwn ==
  ASSUME OwnInv, NEW t \in Threads, DriverAppend(t)
  PROVE  OwnInv'
<1> USE DEF OwnInv
<1> DEFINE id == appended + 1
<1>a. /\ call \in [Threads -> CallRecords] /\ call[t] \in CallRecords
      /\ call[t].at = "append" /\ UNCHANGED <<freelist, fresh, signaled, state>>
      /\ call[t].list # None /\ call[t].inj # None
      /\ call[t].list \in Lists /\ call[t].inj \in Events
  BY DEF DriverAppend, TypeOK, CallRecords, Calls, CallOk
<1>b. /\ Appending = (Appending \ {t}) \union {t} /\ t \in Appending
      /\ IsFiniteSet(Appending) /\ IsFiniteSet(Appending \ {t})
      /\ Cardinality(Appending) \in Nat /\ Cardinality(Appending \ {t}) \in Nat
      /\ Cardinality(Appending) = Cardinality(Appending \ {t}) + 1
  <2>1. t \in Appending /\ IsFiniteSet(Appending)
    BY <1>a, PoolAssumption, FS_Subset DEF Appending
  <2>2. Cardinality(Appending) \in Nat /\ Cardinality(Appending \ {t}) = Cardinality(Appending) - 1
        /\ IsFiniteSet(Appending \ {t}) /\ Cardinality(Appending \ {t}) \in Nat
    BY <2>1, FS_CardinalityType, FS_RemoveElement
  <2> QED
    BY <2>1, <2>2
<1>c. appended \in Nat /\ id <= MaxCommands /\ id \in Ids /\ id \notin DOMAIN cmds
  BY <1>b, PoolAssumption DEF TypeOK, Calls, Ids
<1>1. CASE /\ call' = [call EXCEPT ![t].at = "failed"]
           /\ UNCHANGED <<cmds, appended>>
  <2>1. /\ call'[t] = [call[t] EXCEPT !.at = "failed"] /\ call'[t] \in CallRecords
        /\ call' \in [Threads -> CallRecords]
        /\ \A u \in Threads : u # t => call'[u] = call[u]
    BY <1>a, <1>1 DEF CallRecords
  <2>2. TypeOK'
    BY <1>a, <1>1, <2>1 DEF TypeOK, CallRecords
  <2>3. \A e : /\ \A u \in Threads : ByCall(u, e)' <=> ByCall(u, e)
               /\ \A c \in DOMAIN cmds : BySlot(c, e)' <=> BySlot(c, e)
    BY <1>a, <1>1, <2>1 DEF ByCall, BySlot, CallRecords
  <2>4. Owned' /\ Seen'
    BY <1>a, <1>1, <2>1, <2>3 DEF Owned, Seen, Free, Unheld, CallRecords
  <2>5. \A x : Overfull(x)' <=> Overfull(x)
    BY <1>1, SameLists
  <2>6. \A u \in Threads : CallOk(u)'
    BY <1>a, <1>1, <2>1, <2>5 DEF Calls, CallOk, CallRecords, Idle
  <2>7. Appending' = Appending \ {t}
    BY <2>1 DEF Appending, CallRecords
  <2>8. \A u \in Threads : call'[u].list = call[u].list
    BY <2>1 DEF CallRecords
  <2> QED
    BY <1>1, <1>b, <2>2, <2>4, <2>6, <2>7, <2>8, PoolAssumption DEF Calls, TypeOK
<1>2. ASSUME NEW sig \in BOOLEAN,
             /\ appended' = id
             /\ call' = [call EXCEPT ![t].at = "record", ![t].id = id]
             /\ cmds' = [c \in DOMAIN cmds \union {id} |->
                  IF c = id
                  THEN [list |-> call[t].list, inj |-> call[t].inj, sig |-> sig,
                        slot |-> "none",
                        kernel |-> IF call[t].list \in Immediate THEN "queued" ELSE "recorded",
                        chain |-> "none", timing |-> 0]
                  ELSE cmds[c]]
      PROVE  OwnInv'
  <2>1. /\ call'[t] = [call[t] EXCEPT !.at = "record", !.id = id] /\ call'[t] \in CallRecords
        /\ call' \in [Threads -> CallRecords]
        /\ \A u \in Threads : u # t => call'[u] = call[u]
    BY <1>a, <1>c, <1>2 DEF CallRecords
  <2>a. /\ call'[t].at = "record" /\ call'[t].id = id /\ call'[t].list = call[t].list
        /\ call'[t].inj = call[t].inj /\ call'[t].seen = call[t].seen
    BY <1>a, <2>1 DEF CallRecords
  <2>2. /\ DOMAIN cmds' = DOMAIN cmds \union {id}
        /\ \A c \in DOMAIN cmds : cmds'[c] = cmds[c]
        /\ cmds'[id].list = call[t].list /\ cmds'[id].inj = call[t].inj
        /\ cmds'[id].slot = "none" /\ cmds'[id].chain = "none"
        /\ cmds'[id] \in Commands
    BY <1>a, <1>c, <1>2 DEF Commands
  <2>3. TypeOK'
    BY <1>a, <1>c, <1>2, <2>1, <2>2 DEF TypeOK, CallRecords
  <2> HIDE DEF id
  <2>b. \A e : \A u \in Threads : ByCall(u, e)' <=> ByCall(u, e)
    BY <1>a, <2>1, <2>a DEF ByCall
  <2>4. \A e : \A c \in DOMAIN cmds' :
          BySlot(c, e)' <=> c \in DOMAIN cmds /\ BySlot(c, e)
    BY <1>c, <2>2 DEF BySlot
  <2>c. \A e : (Free(e)' <=> Free(e)) /\ (Unheld(e)' <=> Unheld(e))
    BY <1>a, <2>2, <2>b, <2>4 DEF Free, Unheld
  <2>5. Owned' /\ Seen'
    <3>1. Owned'
      BY <1>a, <2>2, <2>b, <2>4, <2>c DEF Owned
    <3>2. Seen'
      BY <1>a, <2>1, <2>a, <2>c DEF Seen
    <3> QED
      BY <3>1, <3>2
  <2>6. \A x : Overfull(x) => Overfull(x)'
    BY <2>2, <2>3, MoreCommands DEF TypeOK
  <2>7. ASSUME NEW u \in Threads PROVE CallOk(u)'
    <3>1. CASE u = t
      BY <1>a, <2>a, <2>2, <3>1 DEF Calls, CallOk, Idle
    <3>2. CASE u # t
      BY <1>a, <1>c, <2>1, <2>2, <2>6, <3>2 DEF Calls, CallOk
    <3> QED
      BY <3>1, <3>2
  <2>8. Appending' = Appending \ {t}
    BY <2>1 DEF Appending, CallRecords
  <2>9. \A u \in Threads : call'[u].list = call[u].list
    BY <2>1 DEF CallRecords
  <2>10. \A c \in DOMAIN cmds' : c <= appended'
    BY <1>c, <1>2, <2>2 DEF id, Calls, TypeOK, Ids
  <2>11. appended' + Cardinality(Appending') <= MaxCommands
    BY <1>b, <1>c, <1>2, <2>8, PoolAssumption DEF id, Calls
  <2> QED
    BY <2>3, <2>5, <2>7, <2>9, <2>10, <2>11 DEF Calls
<1> QED
  BY <1>1, <1>2 DEF DriverAppend

\* Recording hands the event to the slot, or back.
LEMMA RecordOwn ==
  ASSUME OwnInv, "quiet_fail" \in Rules, NEW t \in Threads, Record(t)
  PROVE  OwnInv'
<1> USE DEF OwnInv
<1>k. PICK k \in Ids, l \in Lists, e \in Events :
        call[t].id = k /\ call[t].list = l /\ call[t].inj = e
  <2>1. call[t].at = "record" /\ call[t] \in CallRecords
    BY DEF Record, TypeOK, CallRecords
  <2>2. call[t].id \in DOMAIN cmds /\ call[t].list # None /\ call[t].inj # None
    BY <2>1 DEF Calls, CallOk
  <2> QED
    BY <2>1, <2>2 DEF TypeOK, CallRecords
<1>a. /\ call \in [Threads -> CallRecords] /\ call[t] \in CallRecords
      /\ call[t].at = "record" /\ UNCHANGED <<fresh, appended, state>>
      /\ k \in DOMAIN cmds /\ cmds[k].list = l /\ cmds[k].inj = e /\ cmds[k].slot = "none"
      /\ e \in Events /\ l \in Lists /\ l # None /\ ByCall(t, e)
      /\ \A u \in Threads : call[u].at # "write"
      /\ \A c \in DOMAIN cmds : c \in Ids /\ cmds[c] \in Commands
  BY <1>k, PoolAssumption DEF Record, TypeOK, CallRecords, Calls, CallOk, Quiet, ByCall, Lists
<1>b. \A u \in Threads \ {t} : call[u].at \in {"record", "chain"} => call[u].id # k
  BY <1>a, <1>k DEF Calls, CallOk
<1>1. CASE /\ cmds' = [cmds EXCEPT ![k].chain = Chain(k), ![k].slot = "live"]
           /\ call' = [call EXCEPT ![t] = Idle]
           /\ UNCHANGED <<freelist, signaled>>
  <2>a. /\ DOMAIN cmds' = DOMAIN cmds
        /\ \A c \in DOMAIN cmds : c # k => cmds'[c] = cmds[c]
        /\ cmds'[k] = [cmds[k] EXCEPT !.chain = Chain(k), !.slot = "live"]
        /\ Chain(k) \in {"none", "recorded", "queued", "fired"}
    BY <1>a, <1>1 DEF Chain
  <2>1. /\ DOMAIN cmds' = DOMAIN cmds
        /\ \A c \in DOMAIN cmds : /\ c # k => cmds'[c] = cmds[c]
                                  /\ cmds'[c].inj = cmds[c].inj /\ cmds'[c].list = cmds[c].list
                                  /\ cmds'[c] \in Commands
        /\ cmds'[k].slot = "live"
    <3>1. cmds'[k] \in Commands /\ cmds'[k].slot = "live"
          /\ cmds'[k].inj = cmds[k].inj /\ cmds'[k].list = cmds[k].list
      BY <1>a, <2>a DEF Commands
    <3> QED
      BY <1>a, <2>a, <3>1
  <2>2. /\ call'[t] = Idle /\ \A u \in Threads : u # t => call'[u] = call[u]
        /\ Idle \in CallRecords /\ call' \in [Threads -> CallRecords]
    BY <1>a, <1>1 DEF Idle, CallRecords
  <2>3. TypeOK'
    BY <1>a, <1>1, <2>1, <2>2 DEF TypeOK, CallRecords
  <2>4. /\ \A x \in Events : ~ByCall(t, x)'
        /\ \A x : \A u \in Threads : u # t => (ByCall(u, x)' <=> ByCall(u, x))
    BY <2>2, PoolAssumption DEF ByCall, Idle
  <2>b. \A x : \A c \in DOMAIN cmds : c # k => (BySlot(c, x)' <=> BySlot(c, x))
    BY <2>1 DEF BySlot
  <2>c. \A x : BySlot(k, x)' <=> x = e
    BY <1>a, <2>1 DEF BySlot
  <2>6. \A x : Free(x)' <=> Free(x)
    BY <1>a, <1>1 DEF Free
  <2>7. Owned'
    <3> SUFFICES ASSUME NEW x \in Events
                 PROVE  /\ \A u, v \in Threads : ByCall(u, x)' /\ ByCall(v, x)' => u = v
                        /\ \A c, d \in DOMAIN cmds : BySlot(c, x)' /\ BySlot(d, x)' => c = d
                        /\ \A u \in Threads : \A c \in DOMAIN cmds : ~(ByCall(u, x)' /\ BySlot(c, x)')
                        /\ Free(x)' => Unheld(x)'
      BY <1>a, <1>1, <2>1 DEF Owned
    <3>1. \A u, v \in Threads : ByCall(u, x)' /\ ByCall(v, x)' => u = v
      BY <2>4 DEF Owned
    <3>2. ASSUME NEW c \in DOMAIN cmds, BySlot(c, x)'
          PROVE  IF c = k THEN x = e /\ ByCall(t, x) ELSE BySlot(c, x)
      BY <1>a, <2>b, <2>c, <3>2
    <3>3. \A c, d \in DOMAIN cmds : BySlot(c, x)' /\ BySlot(d, x)' => c = d
      BY <3>2 DEF Owned
    <3>4. \A u \in Threads : \A c \in DOMAIN cmds : ~(ByCall(u, x)' /\ BySlot(c, x)')
      BY <2>4, <3>2 DEF Owned
    <3>5. Free(x)' => Unheld(x)'
      BY <2>1, <2>4, <2>6, <3>2 DEF Owned, Unheld
    <3> QED
      BY <3>1, <3>3, <3>4, <3>5
  <2>8. ASSUME NEW u \in Threads PROVE CallOk(u)'
    <3>1. CASE u = t
      BY <2>2, <3>1, PoolAssumption DEF CallOk, Idle
    <3>2. CASE u # t
      BY <1>a, <1>b, <2>1, <2>2, <3>2, SameLists DEF Calls, CallOk
    <3> QED
      BY <3>1, <3>2
  <2>9. Appending' = Appending
    BY <1>a, <2>2 DEF Appending, Idle
  <2>10. Calls'
    BY <1>a, <2>1, <2>2, <2>8, <2>9 DEF Calls, Idle
  <2>11. Seen'
    BY <1>a, <2>2 DEF Seen, Idle
  <2> QED
    BY <2>3, <2>7, <2>10, <2>11
<1>2. CASE /\ ~HasRoom(l)
           /\ Put({k}) /\ Reset({k})
           /\ call' = [call EXCEPT ![t].at = "chain"]
           /\ UNCHANGED cmds
  <2>1. /\ call'[t] = [call[t] EXCEPT !.at = "chain"] /\ call'[t] \in CallRecords
        /\ call' \in [Threads -> CallRecords]
        /\ \A u \in Threads : u # t => call'[u] = call[u]
    BY <1>a, <1>2 DEF CallRecords
  <2>2. /\ call'[t].at = "chain" /\ call'[t].id = k /\ call'[t].list = l /\ call'[t].inj = e
    BY <1>a, <1>k, <2>1 DEF CallRecords
  <2>3. /\ freelist' \in Seq(Events) /\ Distinct(freelist')
        /\ ToSet(freelist') = ToSet(freelist) \union {e}
    <3>1. ~Free(e)
      BY <1>a DEF Owned, Unheld
    <3>2. IsFiniteSet({k}) /\ \A c \in {k} : c \in Nat
      BY <1>a, CommandsFinite
    <3>3. cmds[k].inj \in Events \ ToSet(freelist)
      BY <1>a, <3>1 DEF Free
    <3>4. \A c \in {k} : cmds[c].inj \in Events \ ToSet(freelist)
      BY <3>3
    <3>5. {cmds[c].inj : c \in {k}} = {e}
      BY <1>a
    <3> QED
      BY <1>2, <3>2, <3>4, <3>5, PutFacts DEF TypeOK
  <2>4. TypeOK'
    <3>1. signaled' \in [Events -> Ids \union {0}]
      BY <1>2 DEF TypeOK, Reset
    <3> QED
      BY <1>a, <1>2, <2>1, <2>3, <3>1 DEF TypeOK, CallRecords
  <2>5. /\ \A x : ~ByCall(t, x)'
        /\ \A x : \A u \in Threads : u # t => (ByCall(u, x)' <=> ByCall(u, x))
        /\ \A x : \A c \in DOMAIN cmds : BySlot(c, x)' <=> BySlot(c, x)
        /\ \A x : Free(x)' <=> Free(x) \/ x = e
    BY <1>a, <1>2, <2>1, <2>2, <2>3 DEF ByCall, BySlot, Free
  <2>6. e \notin fresh
    BY <1>a DEF Owned, Unheld, Free
  <2>7. Owned'
    <3> SUFFICES ASSUME NEW x \in Events
                 PROVE  /\ \A u, v \in Threads : ByCall(u, x)' /\ ByCall(v, x)' => u = v
                        /\ \A c, d \in DOMAIN cmds : BySlot(c, x)' /\ BySlot(d, x)' => c = d
                        /\ \A u \in Threads : \A c \in DOMAIN cmds : ~(ByCall(u, x)' /\ BySlot(c, x)')
                        /\ Free(x)' => Unheld(x)'
      BY <1>a, <1>2, <2>3, <2>6 DEF Owned
    <3> QED
      BY <1>a, <1>2, <2>5 DEF Owned, Unheld
  <2>8. l \in Regular /\ Overfull(l)
    BY <1>a, <1>2, PastCap
  <2>9. ASSUME NEW u \in Threads PROVE CallOk(u)'
    <3>1. CASE u = t
      BY <1>a, <1>2, <2>2, <2>8, <3>1, SameLists DEF Calls, CallOk, Idle
    <3>2. CASE u # t
      BY <1>a, <1>2, <2>1, <3>2, SameLists DEF Calls, CallOk
    <3> QED
      BY <3>1, <3>2
  <2>10. Appending' = Appending
    BY <1>a, <2>1, <2>2 DEF Appending
  <2>11. \A u \in Threads : call'[u].list = call[u].list
    BY <1>k, <2>1, <2>2
  <2>12. Calls'
    BY <1>a, <1>2, <2>9, <2>10, <2>11 DEF Calls
  <2>13. Seen'
    BY <1>a, <2>1, <2>2 DEF Seen
  <2> QED
    BY <2>4, <2>7, <2>12, <2>13
<1> QED
  BY <1>k, <1>1, <1>2 DEF Record

\* Past the cap the call ends without an event.
LEMMA CompensateOwn ==
  ASSUME OwnInv, NEW t \in Threads, Compensate(t)
  PROVE  OwnInv'
<1> USE DEF OwnInv
<1>k. PICK k \in DOMAIN cmds : call[t].id = k
  BY DEF Compensate, Calls, CallOk
<1>1. /\ call[t].at = "chain" /\ cmds[k] \in Commands /\ call \in [Threads -> CallRecords]
      /\ Chain(k) \in {"none", "recorded", "queued", "fired"}
      /\ \A u \in Threads \ {t} : call[u].at \in {"record", "chain"} => call[u].id # k
  BY <1>k DEF Compensate, TypeOK, CallRecords, Chain, Calls, CallOk
<1>2. /\ DOMAIN cmds' = DOMAIN cmds
      /\ \A c \in DOMAIN cmds : c # k => cmds'[c] = cmds[c]
      /\ cmds'[k] = [cmds[k] EXCEPT !.chain = Chain(k)]
  BY <1>k DEF Compensate
<1>3. \A c \in DOMAIN cmds : /\ cmds'[c].inj = cmds[c].inj /\ cmds'[c].list = cmds[c].list
                             /\ cmds'[c].slot = cmds[c].slot /\ cmds'[c] \in Commands
  <2>1. /\ cmds'[k].inj = cmds[k].inj /\ cmds'[k].list = cmds[k].list
        /\ cmds'[k].slot = cmds[k].slot /\ cmds'[k] \in Commands
    BY <1>1, <1>2 DEF Commands
  <2> QED
    BY <1>2, <2>1 DEF TypeOK
<1>4. /\ call'[t] = Idle /\ \A u \in Threads : u # t => call'[u] = call[u]
      /\ Idle \in CallRecords /\ call' \in [Threads -> CallRecords]
      /\ UNCHANGED <<freelist, fresh, signaled, appended, state>>
  BY <1>1 DEF Compensate, Idle, CallRecords
<1>5. TypeOK'
  BY <1>2, <1>3, <1>4 DEF TypeOK, CallRecords
<1>6. /\ \A x \in Events : ~ByCall(t, x)'
      /\ \A x : \A u \in Threads : u # t => (ByCall(u, x)' <=> ByCall(u, x))
      /\ \A x : \A c \in DOMAIN cmds : BySlot(c, x)' <=> BySlot(c, x)
      /\ \A x : Free(x)' <=> Free(x)
  <2>1. \A x \in Events : ~ByCall(t, x)'
    BY <1>4, PoolAssumption DEF ByCall, Idle
  <2>2. \A x : \A c \in DOMAIN cmds : BySlot(c, x)' <=> BySlot(c, x)
    BY <1>3 DEF BySlot
  <2> QED
    BY <1>4, <2>1, <2>2 DEF ByCall, Free
<1>7. \A x \in Events : Unheld(x) => Unheld(x)'
  BY <1>2, <1>6 DEF Unheld
<1>8. Owned'
  BY <1>2, <1>4, <1>6, <1>7 DEF Owned
<1>9. ASSUME NEW u \in Threads PROVE CallOk(u)'
  <2>1. CASE u = t
    BY <1>4, <2>1, PoolAssumption DEF CallOk, Idle
  <2>2. CASE u # t
    BY <1>1, <1>2, <1>3, <1>4, <2>2, SameLists DEF Calls, CallOk
  <2> QED
    BY <2>1, <2>2
<1>10. Appending' = Appending
  BY <1>1, <1>4 DEF Appending, Idle
<1>11. Calls'
  BY <1>2, <1>4, <1>9, <1>10 DEF Calls, Idle
<1>12. Seen'
  <2> SUFFICES ASSUME NEW u \in Threads, call'[u].at = "write"
               PROVE  /\ Distinct(call'[u].seen)
                      /\ \A e \in ToSet(call'[u].seen) : e \notin fresh' /\ Unheld(e)'
    BY DEF Seen
  <2>1. call'[u] = call[u] /\ call[u].seen \in Seq(Events)
    BY <1>1, <1>4 DEF Idle, CallRecords
  <2>2. ToSet(call[u].seen) \subseteq Events
    BY <2>1 DEF ToSet
  <2> QED
    BY <1>4, <1>7, <2>1, <2>2 DEF Seen
<1> QED
  BY <1>5, <1>8, <1>11, <1>12

\* A failed Append reads the list while the event is still its own.
LEMMA FailReadOwn ==
  ASSUME OwnInv, NEW t \in Threads, FailRead(t)
  PROVE  OwnInv'
<1> USE DEF OwnInv
<1>1. /\ call[t].at = "failed" /\ call \in [Threads -> CallRecords] /\ call[t] \in CallRecords
      /\ UNCHANGED <<freelist, fresh, cmds, appended, state>>
      /\ freelist \in Seq(Events)
  BY DEF FailRead, TypeOK, CallRecords
<1>2. /\ call'[t] = [call[t] EXCEPT !.at = "write", !.seen = freelist]
      /\ \A u \in Threads : u # t => call'[u] = call[u]
  BY <1>1 DEF FailRead
<1>3. /\ call'[t].at = "write" /\ call'[t].seen = freelist /\ call'[t].id = call[t].id
      /\ call'[t].list = call[t].list /\ call'[t].inj = call[t].inj
      /\ call'[t] \in CallRecords
  BY <1>1, <1>2 DEF CallRecords
<1>4. call' \in [Threads -> CallRecords]
  BY <1>1, <1>3 DEF FailRead
<1>5. TypeOK'
  <2>1. signaled' \in [Events -> Ids \union {0}]
    BY DEF FailRead, TypeOK
  <2> QED
    BY <1>1, <1>4, <2>1 DEF TypeOK, CallRecords
<1>6. /\ \A x : \A u \in Threads : ByCall(u, x)' <=> ByCall(u, x)
      /\ \A x : \A c \in DOMAIN cmds : BySlot(c, x)' <=> BySlot(c, x)
      /\ \A x : Free(x)' <=> Free(x)
  BY <1>1, <1>2, <1>3 DEF ByCall, BySlot, Free
<1>7. \A x : Unheld(x)' <=> Unheld(x)
  BY <1>1, <1>6 DEF Unheld
<1>8. Owned'
  BY <1>1, <1>6, <1>7 DEF Owned
<1>9. ASSUME NEW u \in Threads PROVE CallOk(u)'
  <2>1. \A x : Overfull(x)' <=> Overfull(x)
    BY <1>1, SameLists
  <2>2. CASE u = t
    BY <1>1, <1>3, <2>1, <2>2 DEF Calls, CallOk, Idle
  <2>3. CASE u # t
    BY <1>1, <1>2, <2>1, <2>3 DEF Calls, CallOk
  <2> QED
    BY <2>2, <2>3
<1>10. Appending' = Appending
  BY <1>1, <1>2, <1>3 DEF Appending
<1>11. Calls'
  <2>1. \A u \in Threads : call'[u].list = call[u].list
    BY <1>2, <1>3
  <2> QED
    BY <1>1, <1>9, <1>10, <2>1 DEF Calls
<1>12. Seen'
  <2> SUFFICES ASSUME NEW u \in Threads, call'[u].at = "write"
               PROVE  /\ Distinct(call'[u].seen)
                      /\ \A e \in ToSet(call'[u].seen) : e \notin fresh' /\ Unheld(e)'
    BY DEF Seen
  <2>1. CASE u = t
    <3>1. call'[u].seen = freelist /\ Distinct(freelist)
      BY <1>3, <2>1 DEF TypeOK
    <3>2. \A e \in ToSet(freelist) : e \in Events /\ e \notin fresh /\ Free(e)
      BY <1>1 DEF Owned, Free, ToSet
    <3> QED
      BY <1>1, <1>7, <3>1, <3>2 DEF Owned
  <2>2. CASE u # t
    BY <1>1, <1>2, <1>7, <2>2 DEF Seen
  <2> QED
    BY <2>1, <2>2
<1> QED
  BY <1>5, <1>8, <1>11, <1>12

\* What it writes is its event and what it read, all of it nobody's.
LEMMA FailWriteOwn ==
  ASSUME OwnInv, NEW t \in Threads, FailWrite(t)
  PROVE  OwnInv'
<1> USE DEF OwnInv
<1>k. PICK e \in Events : call[t].inj = e
  BY DEF FailWrite, TypeOK, Calls, CallOk
<1>1. /\ call[t].at = "write" /\ call \in [Threads -> CallRecords] /\ call[t] \in CallRecords
      /\ UNCHANGED <<fresh, signaled, cmds, appended, state>>
      /\ ByCall(t, e) /\ call[t].seen \in Seq(Events)
      /\ freelist' = <<e>> \o call[t].seen
  BY <1>k DEF FailWrite, TypeOK, CallRecords, ByCall
<1>2. /\ call'[t] = Idle /\ \A u \in Threads : u # t => call'[u] = call[u]
      /\ Idle \in CallRecords /\ call' \in [Threads -> CallRecords]
  BY <1>1 DEF FailWrite, Idle, CallRecords
<1>3. /\ Distinct(call[t].seen) /\ e \notin ToSet(call[t].seen)
      /\ \A x \in ToSet(call[t].seen) : x \in Events /\ x \notin fresh /\ Unheld(x)
  <2>1. ToSet(call[t].seen) \subseteq Events
    BY <1>1 DEF ToSet
  <2>2. /\ Distinct(call[t].seen)
        /\ \A x \in ToSet(call[t].seen) : x \notin fresh /\ Unheld(x)
    BY <1>1 DEF Seen
  <2>3. ~Unheld(e)
    BY <1>1 DEF Unheld
  <2> QED
    BY <2>1, <2>2, <2>3
<1>4. /\ freelist' \in Seq(Events) /\ Distinct(freelist')
      /\ ToSet(freelist') = ToSet(call[t].seen) \union {e}
  <2> DEFINE s == call[t].seen
             m == Len(s)
  <2>1. /\ m \in Nat /\ freelist' \in Seq(Events) /\ Len(freelist') = m + 1
        /\ freelist'[1] = e
        /\ \A i \in 2 .. m + 1 : freelist'[i] = s[i - 1] /\ i - 1 \in 1 .. m
        /\ \A i \in 1 .. m : s[i] = freelist'[i + 1] /\ i + 1 \in 2 .. m + 1
        /\ \A i \in 1 .. m : s[i] \in ToSet(s)
    BY <1>1 DEF ToSet
  <2> HIDE DEF s, m
  <2>2. Distinct(freelist')
    <3> SUFFICES ASSUME NEW i \in 1 .. m + 1, NEW j \in 1 .. m + 1, freelist'[i] = freelist'[j],
                        i < j
                 PROVE  FALSE
      BY <2>1 DEF Distinct
    <3>1. j \in 2 .. m + 1
      BY <2>1
    <3>2. CASE i = 1
      BY <1>3, <2>1, <3>1, <3>2 DEF s
    <3>3. CASE i # 1
      <4>1. i \in 2 .. m + 1 /\ s[i - 1] = s[j - 1] /\ i - 1 \in 1 .. m /\ j - 1 \in 1 .. m
        BY <2>1, <3>1, <3>3
      <4>2. i - 1 = j - 1
        BY <1>3, <4>1 DEF Distinct, s, m
      <4> QED
        BY <2>1, <4>2
    <3> QED
      BY <3>2, <3>3
  <2>3. ToSet(freelist') = {freelist'[i] : i \in 1 .. m + 1}
    <3>1. DOMAIN freelist' = 1 .. m + 1
      BY ONLY <2>1
    <3> QED
      BY <3>1 DEF ToSet
  <2>4. ToSet(s) = {s[i] : i \in 1 .. m}
    BY <1>1 DEF ToSet, s, m
  <2>5. \A i \in 1 .. m + 1 : i = 1 \/ i \in 2 .. m + 1
    BY <2>1
  <2>6. ToSet(freelist') \subseteq ToSet(s) \union {e}
    BY <2>1, <2>3, <2>5
  <2>7. 1 \in 1 .. m + 1 /\ \A i \in 1 .. m : i + 1 \in 1 .. m + 1
    BY <2>1
  <2>8. ToSet(s) \union {e} \subseteq ToSet(freelist')
    BY <2>1, <2>3, <2>4, <2>7
  <2> QED
    BY <2>1, <2>2, <2>6, <2>8 DEF s
<1>5. TypeOK'
  BY <1>1, <1>2, <1>4 DEF TypeOK, CallRecords
<1>6. /\ \A x \in Events : ~ByCall(t, x)'
      /\ \A x : \A u \in Threads : u # t => (ByCall(u, x)' <=> ByCall(u, x))
      /\ \A x : \A c \in DOMAIN cmds : BySlot(c, x)' <=> BySlot(c, x)
  <2>1. \A x \in Events : ~ByCall(t, x)'
    BY <1>2, PoolAssumption DEF ByCall, Idle
  <2> QED
    BY <1>1, <1>2, <2>1 DEF ByCall, BySlot
<1>7. /\ \A x \in Events : Unheld(x) => Unheld(x)'
      /\ Unheld(e)'
  BY <1>1, <1>6 DEF Unheld, Owned
<1>8. Owned'
  <2>1. e \notin fresh
    BY <1>1 DEF Owned, Free, Unheld
  <2>2. ToSet(freelist') \intersect fresh' = {}
    BY <1>1, <1>3, <1>4, <2>1
  <2>3. \A x \in Events : Free(x)' => Unheld(x)'
    BY <1>1, <1>3, <1>4, <1>7 DEF Owned, Free
  <2> QED
    BY <1>1, <1>6, <2>2, <2>3 DEF Owned
<1>9. ASSUME NEW u \in Threads PROVE CallOk(u)'
  <2>1. CASE u = t
    BY <1>2, <2>1, PoolAssumption DEF CallOk, Idle
  <2>2. CASE u # t
    BY <1>1, <1>2, <2>2, SameLists DEF Calls, CallOk
  <2> QED
    BY <2>1, <2>2
<1>10. Appending' = Appending
  BY <1>1, <1>2 DEF Appending, Idle
<1>11. Calls'
  <2>1. call'[t].list = None
    BY <1>2 DEF Idle
  <2>2. \A u, v \in Threads : call'[u].list = call'[v].list => u = v \/ call'[u].list = None
    BY <1>2, <2>1 DEF Calls
  <2>3. /\ appended' + Cardinality(Appending') <= MaxCommands
        /\ \A c \in DOMAIN cmds' : c <= appended'
    BY <1>1, <1>10 DEF Calls
  <2> QED
    BY <1>9, <2>2, <2>3 DEF Calls
<1>12. Seen'
  <2> SUFFICES ASSUME NEW u \in Threads, call'[u].at = "write"
               PROVE  /\ Distinct(call'[u].seen)
                      /\ \A x \in ToSet(call'[u].seen) : x \notin fresh' /\ Unheld(x)'
    BY DEF Seen
  <2>1. call'[u] = call[u] /\ call[u].seen \in Seq(Events)
    BY <1>1, <1>2 DEF Idle, CallRecords
  <2>2. ToSet(call[u].seen) \subseteq Events
    BY <2>1 DEF ToSet
  <2> QED
    BY <1>1, <1>7, <2>1, <2>2 DEF Seen
<1> QED
  BY <1>5, <1>8, <1>11, <1>12

\* A drain gives the events of an immediate list back, and no other.
LEMMA DrainOwn ==
  ASSUME OwnInv, NEW l \in Lists, NEW D, D \subseteq Live(l), Drain(l, D),
         \A t \in Threads : call[t].at # "write",
         UNCHANGED <<fresh, call, appended>>,
         state' \in [Regular -> {"open", "flight", "idle"}],
         \A t \in Threads : call[t].list \in Regular => state'[call[t].list] = "open"
  PROVE  OwnInv'
<1> USE DEF OwnInv
<1>1. \A c \in D : /\ c \in DOMAIN cmds /\ cmds[c].list = l /\ cmds[c].slot = "live"
                   /\ BySlot(c, cmds[c].inj)
  BY DEF Live, Of, BySlot
<1>2. \A c \in DOMAIN cmds : c \in Ids /\ cmds[c] \in Commands /\ cmds[c].inj \in Events
  BY DEF TypeOK, Commands
<1>3. cmds' = [c \in DOMAIN cmds |-> IF c \in D THEN Timed(c) ELSE cmds[c]]
  BY DEF Drain
<1>4. \A c \in DOMAIN cmds : /\ Timed(c) \in Commands
                             /\ Timed(c).slot = "drained" /\ Timed(c).chain = cmds[c].chain
                             /\ Timed(c).inj = cmds[c].inj /\ Timed(c).list = cmds[c].list
  <2> TAKE c \in DOMAIN cmds
  <2>1. signaled[cmds[c].inj] \in Ids \union {0}
    BY <1>2 DEF TypeOK
  <2>2. PICK x \in Ids \union {0} : x = signaled[cmds[c].inj]
    BY <2>1
  <2>3. cmds[c] \in Commands /\ Timed(c) = [cmds[c] EXCEPT !.slot = "drained", !.timing = x]
    BY <1>2, <2>2 DEF Timed
  <2> HIDE DEF OwnInv
  <2> QED
    BY ONLY <2>3, x \in Ids \union {0} DEF Commands
<1>5. /\ DOMAIN cmds' = DOMAIN cmds
      /\ \A c \in DOMAIN cmds :
           /\ cmds'[c].inj = cmds[c].inj /\ cmds'[c].list = cmds[c].list
           /\ cmds'[c].chain = cmds[c].chain /\ cmds'[c] \in Commands
           /\ cmds'[c].slot = IF c \in D THEN "drained" ELSE cmds[c].slot
  BY <1>2, <1>3, <1>4
<1>6. \A x : \A c \in DOMAIN cmds :
        BySlot(c, x)' => BySlot(c, x) /\ ~(c \in D /\ l \in Immediate)
  BY <1>1, <1>5, PoolAssumption DEF BySlot
<1>7. /\ freelist' \in Seq(Events) /\ Distinct(freelist')
      /\ ToSet(freelist') = ToSet(freelist)
                              \union (IF l \in Immediate THEN {cmds[c].inj : c \in D} ELSE {})
  <2>1. CASE l \in Immediate
    <3>1. IsFiniteSet(D) /\ \A c \in D : c \in Nat
      BY <1>1, CommandsFinite
    <3>2. \A c \in D : cmds[c].inj \in Events \ ToSet(freelist)
      BY <1>1, <1>2 DEF Owned, Free, Unheld
    <3>3. \A c, d \in D : cmds[c].inj = cmds[d].inj => c = d
      BY <1>1, <1>2 DEF Owned
    <3>4. Put(D)
      BY <2>1 DEF Drain
    <3> QED
      BY <2>1, <3>1, <3>2, <3>3, <3>4, PutFacts DEF TypeOK
  <2>2. CASE l \notin Immediate
    BY <2>2 DEF Drain, TypeOK
  <2> QED
    BY <2>1, <2>2
<1>8. \A u \in Threads : \A x : ByCall(u, x)' <=> ByCall(u, x)
  BY DEF ByCall
<1>9. ASSUME NEW x \in Events, Free(x)' PROVE Unheld(x)'
  <2>1. CASE Free(x)
    BY <1>5, <1>6, <1>8, <2>1 DEF Owned, Unheld
  <2>2. CASE ~Free(x)
    <3>1. PICK c \in D : l \in Immediate /\ cmds[c].inj = x
      BY <1>7, <1>9, <2>2 DEF Free
    <3>2. BySlot(c, x)
      BY <1>1, <3>1
    <3> QED
      BY <1>1, <1>5, <1>6, <1>8, <3>1, <3>2 DEF Owned, Unheld
  <2> QED
    BY <2>1, <2>2
<1>10. Owned'
  <2>1. \A c \in D : cmds[c].inj \notin fresh
    BY <1>1, <1>2 DEF Owned, Free, Unheld
  <2>2. ToSet(freelist') \intersect fresh' = {}
    BY <1>7, <2>1 DEF Owned
  <2> QED
    BY <1>5, <1>6, <1>8, <1>9, <2>2 DEF Owned
<1>11. TypeOK'
  <2>1. signaled' \in [Events -> Ids \union {0}]
    BY DEF Drain, Reset, TypeOK
  <2> QED
    BY <1>5, <1>7, <2>1 DEF TypeOK
<1>12. ASSUME NEW u \in Threads PROVE CallOk(u)'
  <2>1. \A x : Overfull(x)' <=> Overfull(x)
    BY <1>5, SameLists
  <2>2. CallOk(u)
    BY DEF Calls
  <2>3. call[u].at \in {"record", "chain"} => call[u].id \notin D
    BY <1>1, <2>2 DEF CallOk
  <2> QED
    BY <1>5, <2>1, <2>2, <2>3 DEF CallOk
<1>13. Calls'
  BY <1>5, <1>12 DEF Calls, Appending
<1>14. Seen'
  BY DEF Seen
<1> QED
  BY <1>10, <1>11, <1>13, <1>14

\* A list that is synchronised is drained.
LEMMA SyncListOwn ==
  ASSUME OwnInv, "quiet_fail" \in Rules, NEW l \in Lists, SyncList(l)
  PROVE  OwnInv'
<1>1. PICK D : D = Live(l)
  OBVIOUS
<1>2. state' \in [Regular -> {"open", "flight", "idle"}]
  BY DEF SyncList, OwnInv, TypeOK
<1>3. ASSUME NEW t \in Threads, call[t].list \in Regular
      PROVE  state'[call[t].list] = "open"
  <2>1. state[call[t].list] = "open"
    BY <1>3 DEF OwnInv, Calls, CallOk
  <2>2. l \in Regular => state[l] = "flight"
    BY PoolAssumption DEF SyncList
  <2> QED
    BY <1>3, <2>1, <2>2 DEF SyncList, OwnInv, TypeOK
<1>4. Drain(l, D) /\ UNCHANGED <<fresh, call, appended>>
      /\ \A t \in Threads : call[t].at # "write"
  BY <1>1 DEF SyncList, Quiet
<1> QED
  BY <1>1, <1>2, <1>3, <1>4, DrainOwn

\* A synchronised event drains its command.
LEMMA SyncEventOwn ==
  ASSUME OwnInv, "quiet_fail" \in Rules, NEW k \in Ids, SyncEvent(k)
  PROVE  OwnInv'
<1>1. PICK l \in Lists : l = cmds[k].list
  BY DEF SyncEvent, OwnInv, TypeOK, Commands
<1>2. {k} \subseteq Live(l)
  BY <1>1 DEF SyncEvent, Live, Of
<1>3. state' \in [Regular -> {"open", "flight", "idle"}]
      /\ \A t \in Threads : call[t].list \in Regular => state'[call[t].list] = "open"
  BY DEF SyncEvent, OwnInv, TypeOK, Calls, CallOk
<1>4. Drain(l, {k}) /\ UNCHANGED <<fresh, call, appended>>
      /\ \A t \in Threads : call[t].at # "write"
  BY <1>1 DEF SyncEvent, Quiet
<1> QED
  BY <1>2, <1>3, <1>4, DrainOwn

\* A reset gives back the events of the slots, with the list's commands.
LEMMA ResetListOwn ==
  ASSUME OwnInv, "quiet_fail" \in Rules, NEW l \in Regular, ResetList(l)
  PROVE  OwnInv'
<1> USE DEF OwnInv
<1>k. PICK D : D = {c \in Of(l) : cmds[c].slot # "none"}
  OBVIOUS
<1>a. /\ Put(D) /\ Reset(D) /\ state[l] = "idle"
      /\ cmds' = [c \in DOMAIN cmds \ Of(l) |-> cmds[c]]
      /\ state' = [state EXCEPT ![l] = "open"]
      /\ UNCHANGED <<fresh, call, appended>>
      /\ \A t \in Threads : call[t].at # "write"
  BY <1>k DEF ResetList, Quiet
<1>1. \A c \in DOMAIN cmds : c \in Ids /\ cmds[c] \in Commands /\ cmds[c].inj \in Events
  BY DEF TypeOK, Commands
<1>2. \A c \in D : c \in DOMAIN cmds /\ c \in Of(l) /\ BySlot(c, cmds[c].inj)
  BY <1>k, <1>1 DEF Of, BySlot, Commands
<1>3. /\ DOMAIN cmds' = DOMAIN cmds \ Of(l)
      /\ \A c \in DOMAIN cmds \ Of(l) : cmds'[c] = cmds[c]
  BY <1>a
<1>4. /\ freelist' \in Seq(Events) /\ Distinct(freelist')
      /\ ToSet(freelist') = ToSet(freelist) \union {cmds[c].inj : c \in D}
  <2>1. IsFiniteSet(D) /\ \A c \in D : c \in Nat
    BY <1>2, CommandsFinite
  <2>2. \A c \in D : cmds[c].inj \in Events \ ToSet(freelist)
    BY <1>1, <1>2 DEF Owned, Free, Unheld
  <2>3. \A c, d \in D : cmds[c].inj = cmds[d].inj => c = d
    BY <1>1, <1>2 DEF Owned
  <2> QED
    BY <1>a, <2>1, <2>2, <2>3, PutFacts DEF TypeOK
<1>5. /\ \A x : \A c \in DOMAIN cmds' : BySlot(c, x)' <=> BySlot(c, x)
      /\ \A x : \A u \in Threads : ByCall(u, x)' <=> ByCall(u, x)
  BY <1>a, <1>3 DEF BySlot, ByCall
<1>6. ASSUME NEW x \in Events, Free(x)' PROVE Unheld(x)'
  <2>1. CASE Free(x)
    BY <1>3, <1>5, <2>1 DEF Owned, Unheld
  <2>2. CASE ~Free(x)
    <3>1. PICK c \in D : cmds[c].inj = x
      BY <1>a, <1>4, <1>6, <2>2 DEF Free
    <3>2. BySlot(c, x) /\ c \in DOMAIN cmds /\ c \notin DOMAIN cmds'
      BY <1>2, <1>3, <3>1
    <3> QED
      BY <1>3, <1>5, <3>2 DEF Owned, Unheld
  <2> QED
    BY <2>1, <2>2
<1>7. Owned'
  <2>1. \A c \in D : cmds[c].inj \notin fresh
    BY <1>1, <1>2 DEF Owned, Free, Unheld
  <2>2. ToSet(freelist') \intersect fresh' = {}
    BY <1>a, <1>4, <2>1 DEF Owned
  <2> QED
    BY <1>3, <1>5, <1>6, <2>2 DEF Owned
<1>8. TypeOK'
  <2>1. signaled' \in [Events -> Ids \union {0}]
    BY <1>a DEF Reset, TypeOK
  <2>2. state' \in [Regular -> {"open", "flight", "idle"}]
    BY <1>a DEF TypeOK
  <2> QED
    BY <1>a, <1>3, <1>4, <2>1, <2>2 DEF TypeOK
<1>9. ASSUME NEW u \in Threads PROVE CallOk(u)'
  <2>1. CallOk(u) /\ call[u].list # l
    BY <1>a DEF Calls, CallOk
  <2>2. call[u].list \in Regular => state'[call[u].list] = "open"
    BY <1>a, <2>1 DEF CallOk, TypeOK
  <2>3. call[u].at \in {"record", "chain"} => call[u].id \notin Of(l)
    BY <2>1 DEF CallOk, Of
  <2>4. \A x : x # l => (Overfull(x)' <=> Overfull(x))
    <3> TAKE x
    <3> HAVE x # l
    <3>1. Of(x)' = Of(x)
      BY <1>3 DEF Of
    <3> QED
      BY <3>1 DEF Overfull
  <2> QED
    BY <1>a, <1>3, <2>1, <2>2, <2>3, <2>4 DEF CallOk
<1>10. Calls'
  BY <1>a, <1>3, <1>9 DEF Calls, Appending
<1>11. Seen'
  BY <1>a DEF Seen
<1> QED
  BY <1>7, <1>8, <1>10, <1>11

-----------------------------------------------------------------------------
(* The theorems on holders. *)

\* The tracer starts with nothing taken.
LEMMA InitOwn == Init => OwnInv
<1> SUFFICES ASSUME Init PROVE OwnInv
  OBVIOUS
<1> USE DEF Init
<1>1. DOMAIN cmds = {} /\ ToSet(freelist) = {} /\ freelist \in Seq(Events) /\ Distinct(freelist)
  BY DEF ToSet, Distinct
<1>2. Idle \in CallRecords
  BY DEF Idle, CallRecords
<1>3. TypeOK
  BY <1>1, <1>2, PoolAssumption DEF TypeOK, CallRecords
<1>4. \A t \in Threads : call[t] = Idle
  OBVIOUS
<1>5. Owned
  BY <1>1, <1>4, PoolAssumption DEF Owned, Unheld, ByCall, Idle
<1>6. Appending = {} /\ Cardinality({}) = 0
  BY <1>4, FS_EmptySet DEF Appending, Idle
<1>7. Calls
  BY <1>1, <1>4, <1>6, PoolAssumption DEF Calls, CallOk, Idle, Lists
<1>8. Seen
  BY <1>4 DEF Seen, Idle
<1> QED
  BY <1>3, <1>5, <1>7, <1>8 DEF OwnInv

\* Every step keeps who holds what, if no call runs while a failed Append
\* gives its event back.
LEMMA NextOwn ==
  ASSUME OwnInv, "quiet_fail" \in Rules, [Next]_vars
  PROVE  OwnInv'
<1>1. ASSUME NEW t \in Threads, NEW l \in Lists, GetEvent(t, l) PROVE OwnInv'
  BY <1>1, GetEventOwn
<1>2. ASSUME NEW t \in Threads,
             DriverAppend(t) \/ Record(t) \/ Compensate(t) \/ FailRead(t) \/ FailWrite(t)
      PROVE  OwnInv'
  BY <1>2, DriverAppendOwn, RecordOwn, CompensateOwn, FailReadOwn, FailWriteOwn
<1>3. ASSUME NEW k \in Ids, Kernel(k) \/ Barrier(k) \/ SyncEvent(k) PROVE OwnInv'
  BY <1>3, KernelOwn, BarrierOwn, SyncEventOwn
<1>4. ASSUME NEW l \in Lists, SyncList(l) PROVE OwnInv'
  BY <1>4, SyncListOwn
<1>5. ASSUME NEW l \in Regular, Execute(l) \/ ResetList(l) PROVE OwnInv'
  BY <1>5, ExecuteOwn, ResetListOwn
<1>6. CASE UNCHANGED vars
  <2> USE <1>6 DEF vars
  <2>1. /\ \A e : Free(e)' <=> Free(e)
        /\ \A e : \A t \in Threads : ByCall(t, e)' <=> ByCall(t, e)
        /\ \A e : \A c \in DOMAIN cmds : BySlot(c, e)' <=> BySlot(c, e)
        /\ \A l : Overfull(l)' <=> Overfull(l)
    BY SameLists DEF Free, ByCall, BySlot
  <2>2. \A e : Unheld(e)' <=> Unheld(e)
    BY <2>1 DEF Unheld
  <2>3. TypeOK' /\ Owned' /\ Seen'
    BY <2>1, <2>2 DEF OwnInv, TypeOK, Owned, Seen
  <2>4. Calls'
    BY <2>1 DEF OwnInv, Calls, CallOk, Appending
  <2> QED
    BY <2>3, <2>4 DEF OwnInv
<1> QED
  BY <1>1, <1>2, <1>3, <1>4, <1>5, <1>6 DEF Next

\* Who holds what is consistent forever.
THEOREM HoldersKept ==
  ASSUME "quiet_fail" \in Rules
  PROVE  Spec => []OwnInv
<1>1. OwnInv /\ [Next]_vars => OwnInv'
  BY NextOwn
<1> QED
  BY <1>1, InitOwn, PTL DEF Spec

\* The free list, the calls and the commands have their types: above all, the
\* free list is a list, with no event in it twice.
THEOREM TypesKept ==
  ASSUME "quiet_fail" \in Rules
  PROVE  Spec => []TypeOK
<1>1. OwnInv => TypeOK
  BY DEF OwnInv
<1> QED
  BY <1>1, HoldersKept, PTL

\* An event times one command at a time: _get_event never gives out an event
\* that a call, a command of an immediate list or the body of a regular list
\* still has, whatever ran on the other lists meanwhile.
THEOREM EventsStayUnique ==
  ASSUME "quiet_fail" \in Rules
  PROVE  Spec => []EventsUnique
<1>1. ASSUME OwnInv PROVE EventsUnique
  <2> SUFFICES ASSUME NEW e \in Events
               PROVE  Cardinality(Holders(e))
                        + (IF e \in ToSet(freelist) \union fresh THEN 1 ELSE 0) <= 1
    BY DEF EventsUnique
  <2>1. Holders(e) = {<<"append", t>> : t \in {t \in Threads : ByCall(t, e)}}
                       \union {<<"slot", c>> : c \in {c \in DOMAIN cmds : BySlot(c, e)}}
    BY DEF Holders, ByCall, BySlot
  <2>2. /\ \A t, u \in Threads : ByCall(t, e) /\ ByCall(u, e) => t = u
        /\ \A c, d \in DOMAIN cmds : BySlot(c, e) /\ BySlot(d, e) => c = d
        /\ \A t \in Threads : \A c \in DOMAIN cmds : ~(ByCall(t, e) /\ BySlot(c, e))
        /\ Free(e) => Unheld(e)
    BY <1>1 DEF OwnInv, Owned
  <2>3. CASE \E t \in Threads : ByCall(t, e)
    <3>1. PICK t \in Threads : ByCall(t, e)
      BY <2>3
    <3>2. Holders(e) = {<<"append", t>>}
      BY <2>1, <2>2, <3>1
    <3>a. Cardinality(Holders(e)) = 1
      BY <3>2, FS_Singleton
    <3>3. ~Free(e)
      BY <2>2, <3>1 DEF Unheld
    <3> QED
      BY <3>3, <3>a DEF Free
  <2>4. CASE \E c \in DOMAIN cmds : BySlot(c, e)
    <3>1. PICK c \in DOMAIN cmds : BySlot(c, e)
      BY <2>4
    <3>2. Holders(e) = {<<"slot", c>>}
      BY <2>1, <2>2, <3>1
    <3>a. Cardinality(Holders(e)) = 1
      BY <3>2, FS_Singleton
    <3>3. ~Free(e)
      BY <2>2, <3>1 DEF Unheld
    <3> QED
      BY <3>3, <3>a DEF Free
  <2>5. CASE Unheld(e)
    <3>1. Holders(e) = {}
      BY <2>1, <2>5 DEF Unheld
    <3> QED
      BY <3>1, FS_EmptySet
  <2> QED
    BY <2>3, <2>4, <2>5 DEF Unheld
<1> QED
  BY <1>1, HoldersKept, PTL

-----------------------------------------------------------------------------
(* What signaled an event, and what the device still has to do: this part    *)
(* needs also that a list with commands past its cap is not executed.        *)

Recording(c) == \E t \in Threads : call[t].at = "record" /\ call[t].id = c
Chaining(c) == \E t \in Threads : call[t].at = "chain" /\ call[t].id = c
Awaited(c) == cmds[c].slot = "live" \/ Recording(c)

\* An event is signaled while the command that did it is still to be drained,
\* and by no other.
Signals ==
  /\ \A e \in Events : \A c \in DOMAIN cmds :
       signaled[e] = c => Awaited(c) /\ cmds[c].inj = e /\ cmds[c].kernel = "done"
  /\ \A e \in Events : signaled[e] \in DOMAIN cmds \union {0}
  /\ \A c \in DOMAIN cmds : Awaited(c) /\ cmds[c].kernel = "done" => signaled[cmds[c].inj] = c

CommandOk(c) ==
  /\ cmds[c].slot = "none" =>
       \/ Recording(c) \/ Chaining(c)
       \/ cmds[c].list \in Regular /\ Overfull(cmds[c].list)
  /\ cmds[c].kernel = "queued" => Awaited(c)
  /\ cmds[c].chain = "queued" => cmds[c].slot = "live"
  /\ cmds[c].chain = "fired" => cmds[c].kernel = "done"
  /\ cmds[c].slot = "drained" => cmds[c].timing = c /\ cmds[c].kernel = "done"
  /\ cmds[c].list \in Regular =>
       /\ state[cmds[c].list] = "open" => /\ cmds[c].kernel = "recorded"
                                          /\ cmds[c].slot # "drained"
                                          /\ cmds[c].chain \in {"none", "recorded"}
       /\ state[cmds[c].list] = "idle" => cmds[c].slot # "live"

SignalInv == Signals /\ \A c \in DOMAIN cmds : CommandOk(c)

\* The event of a command that is awaited is neither free, nor another's.
LEMMA Exclusive ==
  ASSUME OwnInv, NEW c \in DOMAIN cmds, Awaited(c)
  PROVE  /\ cmds[c].inj \in Events
         /\ ~Free(cmds[c].inj)
         /\ \A d \in DOMAIN cmds : Awaited(d) /\ cmds[d].inj = cmds[c].inj => d = c
         /\ \A d \in DOMAIN cmds : BySlot(d, cmds[c].inj) => d = c
         /\ \A t \in Threads : ByCall(t, cmds[c].inj) => call[t].id = c /\ call[t].at = "record"
<1> DEFINE e == cmds[c].inj
<1> USE DEF OwnInv
<1>1. e \in Events
  BY DEF TypeOK, Commands
<1>2. ASSUME NEW d \in DOMAIN cmds, Awaited(d)
      PROVE  \/ BySlot(d, cmds[d].inj)
             \/ \E t \in Threads : /\ call[t].at = "record" /\ call[t].id = d
                                   /\ ByCall(t, cmds[d].inj)
  BY <1>2 DEF Calls, CallOk, Recording, ByCall, BySlot, Awaited
<1> QED
  BY <1>1, <1>2 DEF Owned, Unheld

\* Nothing is awaited for an event that no one holds.
LEMMA Unsignaled ==
  ASSUME OwnInv, Signals, NEW e \in Events,
         \/ Free(e)
         \/ \E t \in Threads : ByCall(t, e) /\ call[t].at # "record"
  PROVE  signaled[e] = 0
<1> SUFFICES ASSUME signaled[e] # 0 PROVE FALSE
  OBVIOUS
<1>1. PICK c \in DOMAIN cmds : signaled[e] = c
  BY DEF Signals
<1>2. Awaited(c) /\ cmds[c].inj = e
  BY <1>1 DEF Signals
<1> QED
  BY <1>2, Exclusive

\* The commands being recorded are those that calls record.
LEMMA SameCalls ==
  ASSUME call' = call
  PROVE  \A c : (Recording(c)' <=> Recording(c)) /\ (Chaining(c)' <=> Chaining(c))
BY DEF Recording, Chaining

\* A command runs while its event is its own.
LEMMA KernelSignal ==
  ASSUME OwnInv, SignalInv, NEW k \in Ids, Kernel(k)
  PROVE  SignalInv'
<1> USE DEF SignalInv, Kernel
<1>1. /\ DOMAIN cmds' = DOMAIN cmds
      /\ \A c \in DOMAIN cmds :
           /\ cmds'[c].inj = cmds[c].inj /\ cmds'[c].list = cmds[c].list
           /\ cmds'[c].slot = cmds[c].slot /\ cmds'[c].chain = cmds[c].chain
           /\ cmds'[c].timing = cmds[c].timing
           /\ cmds'[c].kernel = IF c = k THEN "done" ELSE cmds[c].kernel
  BY DEF OwnInv, TypeOK, Commands
<1>2. /\ \A c : (Recording(c)' <=> Recording(c)) /\ (Chaining(c)' <=> Chaining(c))
      /\ \A c \in DOMAIN cmds : Awaited(c)' <=> Awaited(c)
      /\ \A l : Overfull(l)' <=> Overfull(l)
  BY <1>1, SameCalls, SameLists DEF Awaited
<1>3. k \in DOMAIN cmds /\ Awaited(k) /\ cmds[k].inj \in Events
  BY Exclusive DEF CommandOk
<1>4. /\ signaled'[cmds[k].inj] = k
      /\ \A e \in Events : e # cmds[k].inj => signaled'[e] = signaled[e]
  BY <1>3 DEF OwnInv, TypeOK
<1>5. Signals'
  BY <1>1, <1>2, <1>3, <1>4, Exclusive DEF Signals
<1>6. ASSUME NEW c \in DOMAIN cmds PROVE CommandOk(c)'
  BY <1>1, <1>2 DEF CommandOk
<1> QED
  BY <1>1, <1>5, <1>6

\* The barrier waits for the command.
LEMMA BarrierSignal ==
  ASSUME OwnInv, SignalInv, NEW k \in Ids, Barrier(k)
  PROVE  SignalInv'
<1> USE DEF SignalInv, Barrier
<1>1. /\ DOMAIN cmds' = DOMAIN cmds
      /\ \A c \in DOMAIN cmds :
           /\ cmds'[c].inj = cmds[c].inj /\ cmds'[c].list = cmds[c].list
           /\ cmds'[c].slot = cmds[c].slot /\ cmds'[c].kernel = cmds[c].kernel
           /\ cmds'[c].timing = cmds[c].timing
           /\ cmds'[c].chain = IF c = k THEN "fired" ELSE cmds[c].chain
  BY DEF OwnInv, TypeOK, Commands
<1>2. /\ \A c : (Recording(c)' <=> Recording(c)) /\ (Chaining(c)' <=> Chaining(c))
      /\ \A c \in DOMAIN cmds : Awaited(c)' <=> Awaited(c)
      /\ \A l : Overfull(l)' <=> Overfull(l)
  BY <1>1, SameCalls, SameLists DEF Awaited
<1>3. k \in DOMAIN cmds /\ Awaited(k) /\ cmds[k].inj \in Events
  BY Exclusive DEF CommandOk, Awaited
<1>4. cmds[k].kernel = "done"
  <2>1. PICK c \in DOMAIN cmds : signaled[cmds[k].inj] = c
    BY <1>3 DEF Signals
  <2>2. Awaited(c) /\ cmds[c].inj = cmds[k].inj /\ cmds[c].kernel = "done"
    BY <1>3, <2>1 DEF Signals
  <2> QED
    BY <1>3, <2>2, Exclusive
<1>5. Signals'
  BY <1>1, <1>2 DEF Signals
<1>6. ASSUME NEW c \in DOMAIN cmds PROVE CommandOk(c)'
  <2>1. cmds[k].list \in Regular => state[cmds[k].list] # "open"
    BY <1>3, <1>4 DEF CommandOk
  <2> QED
    BY <1>1, <1>2, <1>3, <1>4, <2>1 DEF CommandOk
<1> QED
  BY <1>1, <1>5, <1>6

\* An event that is taken is reset, and stays so.
LEMMA GetEventSignal ==
  ASSUME OwnInv, SignalInv, NEW t \in Threads, NEW l \in Lists, GetEvent(t, l)
  PROVE  SignalInv'
<1> USE DEF SignalInv
<1>1. /\ call[t].at = "none" /\ call'[t].at = "append"
      /\ \A u \in Threads : u # t => call'[u] = call[u]
      /\ UNCHANGED <<signaled, cmds, state>>
  BY DEF GetEvent, Idle, OwnInv, TypeOK
<1>2. /\ \A c : (Recording(c)' <=> Recording(c)) /\ (Chaining(c)' <=> Chaining(c))
      /\ \A x : Overfull(x)' <=> Overfull(x)
  BY <1>1, SameLists DEF Recording, Chaining
<1>3. \A c \in DOMAIN cmds : Awaited(c)' <=> Awaited(c)
  BY <1>1, <1>2 DEF Awaited
<1>4. Signals'
  BY <1>1, <1>3 DEF Signals
<1>5. ASSUME NEW c \in DOMAIN cmds PROVE CommandOk(c)'
  BY <1>1, <1>2, <1>3 DEF CommandOk
<1> QED
  BY <1>1, <1>4, <1>5

\* A failed Append has an event that is reset already.
LEMMA FailSignal ==
  ASSUME OwnInv, SignalInv, NEW t \in Threads, FailRead(t) \/ FailWrite(t)
  PROVE  SignalInv'
<1> USE DEF SignalInv
<1>1. signaled' = signaled
  <2>1. CASE FailRead(t)
    <3>1. PICK e \in Events : call[t].inj = e
      BY <2>1 DEF FailRead, OwnInv, TypeOK, Calls, CallOk
    <3>2. ByCall(t, e) /\ call[t].at # "record"
      BY <2>1, <3>1 DEF FailRead, ByCall
    <3>3. signaled[e] = 0
      BY <3>2, Unsignaled
    <3> QED
      BY <2>1, <3>1, <3>3 DEF FailRead, OwnInv, TypeOK
  <2>2. CASE FailWrite(t)
    BY <2>2 DEF FailWrite
  <2> QED
    BY <2>1, <2>2
<1>2. /\ call[t].at \in {"failed", "write"} /\ call'[t].at \in {"write", "none"}
      /\ \A u \in Threads : u # t => call'[u] = call[u]
      /\ UNCHANGED <<cmds, state>>
  BY DEF FailRead, FailWrite, Idle, OwnInv, TypeOK
<1>3. /\ \A c : (Recording(c)' <=> Recording(c)) /\ (Chaining(c)' <=> Chaining(c))
      /\ \A x : Overfull(x)' <=> Overfull(x)
  BY <1>2, SameLists DEF Recording, Chaining
<1>4. \A c \in DOMAIN cmds : Awaited(c)' <=> Awaited(c)
  BY <1>2, <1>3 DEF Awaited
<1>5. Signals'
  BY <1>1, <1>2, <1>4 DEF Signals
<1>6. ASSUME NEW c \in DOMAIN cmds PROVE CommandOk(c)'
  BY <1>2, <1>3, <1>4 DEF CommandOk
<1> QED
  BY <1>2, <1>5, <1>6

\* Past the cap the barrier is appended to a list that never runs.
LEMMA CompensateSignal ==
  ASSUME OwnInv, SignalInv, NEW t \in Threads, Compensate(t)
  PROVE  SignalInv'
<1> USE DEF SignalInv
<1>k. PICK k \in DOMAIN cmds : call[t].id = k
  BY DEF Compensate, OwnInv, Calls, CallOk
<1>1. /\ call[t].at = "chain" /\ cmds[k] \in Commands
      /\ cmds[k].list \in Regular /\ state[cmds[k].list] = "open"
      /\ Overfull(cmds[k].list) /\ cmds[k].slot = "none"
      /\ Chain(k) \in {"none", "recorded"}
  BY <1>k, PoolAssumption DEF Compensate, OwnInv, TypeOK, Calls, CallOk, Chain
<1>2. /\ DOMAIN cmds' = DOMAIN cmds
      /\ \A c \in DOMAIN cmds : c # k => cmds'[c] = cmds[c]
      /\ cmds'[k] = [cmds[k] EXCEPT !.chain = Chain(k)]
      /\ UNCHANGED <<signaled, state>>
  BY <1>k DEF Compensate
<1>3. \A c \in DOMAIN cmds : /\ cmds'[c].inj = cmds[c].inj /\ cmds'[c].list = cmds[c].list
                             /\ cmds'[c].slot = cmds[c].slot /\ cmds'[c].kernel = cmds[c].kernel
                             /\ cmds'[c].timing = cmds[c].timing
                             /\ cmds'[c].chain = IF c = k THEN Chain(k) ELSE cmds[c].chain
  <2>1. /\ cmds'[k].inj = cmds[k].inj /\ cmds'[k].list = cmds[k].list
        /\ cmds'[k].slot = cmds[k].slot /\ cmds'[k].kernel = cmds[k].kernel
        /\ cmds'[k].timing = cmds[k].timing /\ cmds'[k].chain = Chain(k)
    BY <1>1, <1>2 DEF Commands
  <2> QED
    BY <1>2, <2>1
<1>4. call'[t].at = "none" /\ \A u \in Threads : u # t => call'[u] = call[u]
  BY DEF Compensate, Idle, OwnInv, TypeOK
<1>5. /\ \A c : Recording(c)' <=> Recording(c)
      /\ \A c : c # k => (Chaining(c)' <=> Chaining(c))
      /\ \A x : Overfull(x)' <=> Overfull(x)
  <2>1. \A x : Overfull(x)' <=> Overfull(x)
    BY <1>2, <1>3, SameLists
  <2>2. \A c : Recording(c)' <=> Recording(c)
    BY <1>1, <1>4 DEF Recording
  <2>3. \A c : c # k => (Chaining(c)' <=> Chaining(c))
    BY <1>k, <1>1, <1>4 DEF Chaining
  <2> QED
    BY <2>1, <2>2, <2>3
<1>6. \A c \in DOMAIN cmds : Awaited(c)' <=> Awaited(c)
  BY <1>3, <1>5 DEF Awaited
<1>7. Signals'
  BY <1>2, <1>3, <1>6 DEF Signals
<1>8. ASSUME NEW c \in DOMAIN cmds PROVE CommandOk(c)'
  <2>1. CASE c = k
    BY <1>1, <1>2, <1>3, <1>5, <1>6, <2>1 DEF CommandOk
  <2>2. CASE c # k
    BY <1>2, <1>3, <1>5, <1>6, <2>2 DEF CommandOk
  <2> QED
    BY <2>1, <2>2
<1> QED
  BY <1>2, <1>7, <1>8

\* A command that was appended is recorded next, and has not run before.
LEMMA DriverAppendSignal ==
  ASSUME OwnInv, SignalInv, NEW t \in Threads, DriverAppend(t)
  PROVE  SignalInv'
<1> USE DEF SignalInv
<1>a. /\ call[t].at = "append" /\ call[t] \in CallRecords
      /\ UNCHANGED <<signaled, state>>
  BY DEF DriverAppend, OwnInv, TypeOK, CallRecords
<1>b. \A u \in Threads : call[u].at \in {"record", "chain"} => call[u].id \in DOMAIN cmds
  BY DEF OwnInv, Calls, CallOk
<1>1. CASE /\ call' = [call EXCEPT ![t].at = "failed"]
           /\ UNCHANGED <<cmds, appended>>
  <2>1. call'[t].at = "failed" /\ \A u \in Threads : u # t => call'[u] = call[u]
    BY <1>1 DEF OwnInv, TypeOK
  <2>2. /\ \A c : (Recording(c)' <=> Recording(c)) /\ (Chaining(c)' <=> Chaining(c))
        /\ \A x : Overfull(x)' <=> Overfull(x)
    BY <1>a, <1>1, <2>1, SameLists DEF Recording, Chaining
  <2>3. \A c \in DOMAIN cmds : Awaited(c)' <=> Awaited(c)
    BY <1>1, <2>2 DEF Awaited
  <2>4. Signals'
    BY <1>a, <1>1, <2>3 DEF Signals
  <2>5. ASSUME NEW c \in DOMAIN cmds PROVE CommandOk(c)'
    BY <1>a, <1>1, <2>2, <2>3 DEF CommandOk
  <2> QED
    BY <1>1, <2>4, <2>5
<1>2. ASSUME NEW sig \in BOOLEAN, NEW id, id = appended + 1,
             /\ call' = [call EXCEPT ![t].at = "record", ![t].id = id]
             /\ cmds' = [c \in DOMAIN cmds \union {id} |->
                  IF c = id
                  THEN [list |-> call[t].list, inj |-> call[t].inj, sig |-> sig,
                        slot |-> "none",
                        kernel |-> IF call[t].list \in Immediate THEN "queued" ELSE "recorded",
                        chain |-> "none", timing |-> 0]
                  ELSE cmds[c]]
      PROVE  SignalInv'
  <2>1. /\ call'[t].at = "record" /\ call'[t].id = id
        /\ \A u \in Threads : u # t => call'[u] = call[u]
    BY <1>a, <1>2 DEF OwnInv, TypeOK, CallRecords
  <2>2. /\ DOMAIN cmds' = DOMAIN cmds \union {id}
        /\ \A c \in DOMAIN cmds : c # id => cmds'[c] = cmds[c]
        /\ cmds'[id].list = call[t].list
        /\ cmds'[id].slot = "none" /\ cmds'[id].chain = "none"
        /\ cmds'[id].kernel = IF call[t].list \in Immediate THEN "queued" ELSE "recorded"
    BY <1>2
  <2>3. id \notin DOMAIN cmds /\ id \in Nat /\ id # 0
    BY <1>2 DEF OwnInv, Calls, TypeOK, Ids
  <2>4. /\ Recording(id)'
        /\ \A c \in DOMAIN cmds : (Recording(c)' <=> Recording(c)) /\ (Chaining(c)' <=> Chaining(c))
    BY <1>a, <2>1, <2>3 DEF Recording, Chaining
  <2>5. \A c \in DOMAIN cmds : Awaited(c)' <=> Awaited(c)
    BY <2>2, <2>3, <2>4 DEF Awaited
  <2>6. \A x : Overfull(x) => Overfull(x)'
    <3>1. DOMAIN cmds' \subseteq Ids
      BY DriverAppendOwn DEF OwnInv, TypeOK
    <3> QED
      BY <2>2, <2>3, <3>1, MoreCommands
  <2>7. Signals'
    BY <1>a, <2>2, <2>3, <2>5 DEF Signals
  <2>8. ASSUME NEW c \in DOMAIN cmds PROVE CommandOk(c)'
    BY <1>a, <2>2, <2>3, <2>4, <2>5, <2>6 DEF CommandOk
  <2>9. CommandOk(id)'
    <3>1. Awaited(id)'
      BY <2>4 DEF Awaited
    <3>2. call[t].list \in Regular =>
            call[t].list \notin Immediate /\ state'[call[t].list] = "open"
      BY <1>a, PoolAssumption DEF OwnInv, Calls, CallOk
    <3> QED
      BY <2>2, <2>4, <3>1, <3>2 DEF CommandOk
  <2> QED
    BY <2>2, <2>7, <2>8, <2>9
<1>3. PICK id : id = appended + 1
  OBVIOUS
<1> QED
  BY <1>1, <1>2, <1>3 DEF DriverAppend

\* Recording leaves what is awaited as it is, but for a command without room,
\* which has not run.
LEMMA RecordSignal ==
  ASSUME OwnInv, SignalInv, NEW t \in Threads, Record(t)
  PROVE  SignalInv'
<1> USE DEF SignalInv
<1>k. PICK k \in DOMAIN cmds, l \in Lists : call[t].id = k /\ call[t].list = l
  <2>1. call[t].id \in DOMAIN cmds /\ cmds[call[t].id] \in Commands
    BY DEF Record, OwnInv, TypeOK, Calls, CallOk
  <2>2. call[t].list \in Lists
    BY <2>1 DEF Record, OwnInv, Calls, CallOk, Commands
  <2> QED
    BY <2>1, <2>2
<1>a. /\ call[t].at = "record" /\ UNCHANGED state
      /\ cmds[k] \in Commands /\ cmds[k].list = l
      /\ cmds[k].slot = "none" /\ cmds[k].chain = "none"
      /\ l \in Regular => l \notin Immediate /\ state[l] = "open" /\ cmds[k].kernel = "recorded"
      /\ Recording(k)
  BY <1>k, PoolAssumption DEF Record, OwnInv, TypeOK, Calls, CallOk, CommandOk, Recording
<1>b. \A u \in Threads \ {t} : call[u].at \in {"record", "chain"} => call[u].id # k
  BY <1>a, <1>k DEF OwnInv, Calls, CallOk
<1>1. CASE /\ cmds' = [cmds EXCEPT ![k].chain = Chain(k), ![k].slot = "live"]
           /\ call' = [call EXCEPT ![t] = Idle]
           /\ UNCHANGED <<freelist, signaled>>
  <2>1. /\ DOMAIN cmds' = DOMAIN cmds
        /\ \A c \in DOMAIN cmds : c # k => cmds'[c] = cmds[c]
        /\ cmds'[k] = [cmds[k] EXCEPT !.chain = Chain(k), !.slot = "live"]
        /\ call'[t].at = "none"
        /\ \A u \in Threads : u # t => call'[u] = call[u]
    BY <1>1 DEF Idle, OwnInv, TypeOK
  <2>2. /\ cmds'[k].inj = cmds[k].inj /\ cmds'[k].list = cmds[k].list
        /\ cmds'[k].slot = "live" /\ cmds'[k].kernel = cmds[k].kernel
        /\ cmds'[k].chain = Chain(k)
    BY <1>a, <2>1 DEF Commands
  <2>3. Chain(k) \in {"none", "recorded", "queued"} /\ (l \in Regular => Chain(k) # "queued")
    BY <1>a DEF Chain
  <2>4. \A c : c # k => (Recording(c)' <=> Recording(c)) /\ (Chaining(c)' <=> Chaining(c))
    BY <1>k, <1>a, <2>1 DEF Recording, Chaining
  <2>5. \A x : Overfull(x)' <=> Overfull(x)
    BY <2>1, <2>2, SameLists
  <2>6. \A c \in DOMAIN cmds : Awaited(c)' <=> Awaited(c)
    BY <1>a, <2>1, <2>2, <2>4 DEF Awaited
  <2>7. Signals'
    BY <1>1, <2>1, <2>2, <2>6 DEF Signals
  <2>8. ASSUME NEW c \in DOMAIN cmds PROVE CommandOk(c)'
    <3>1. CASE c = k
      BY <1>a, <2>2, <2>3, <2>6, <3>1 DEF CommandOk
    <3>2. CASE c # k
      BY <1>a, <2>1, <2>4, <2>5, <2>6, <3>2 DEF CommandOk
    <3> QED
      BY <3>1, <3>2
  <2> QED
    BY <2>1, <2>7, <2>8
<1>2. CASE /\ ~HasRoom(l)
           /\ Put({k}) /\ Reset({k})
           /\ call' = [call EXCEPT ![t].at = "chain"]
           /\ UNCHANGED cmds
  <2>1. /\ call'[t].at = "chain" /\ call'[t].id = k
        /\ \A u \in Threads : u # t => call'[u] = call[u]
    BY <1>k, <1>2 DEF OwnInv, TypeOK
  <2>2. l \in Regular /\ Overfull(l)'
    BY <1>a, <1>2, PastCap, SameLists DEF OwnInv
  <2>3. /\ ~Recording(k)' /\ Chaining(k)'
        /\ \A c : c # k => (Recording(c)' <=> Recording(c)) /\ (Chaining(c)' <=> Chaining(c))
    BY <1>k, <1>a, <1>b, <2>1 DEF Recording, Chaining
  <2>4. ~Awaited(k)' /\ \A c \in DOMAIN cmds : c # k => (Awaited(c)' <=> Awaited(c))
    BY <1>a, <1>2, <2>3 DEF Awaited
  <2>5. \A e \in Events : signaled'[e] = IF cmds[k].inj = e THEN 0 ELSE signaled[e]
    BY <1>2 DEF Reset
  <2>6. /\ \A c \in DOMAIN cmds : cmds[c].inj \in Events /\ c # 0
        /\ Awaited(k)
    BY <1>a DEF OwnInv, TypeOK, Commands, Ids, Awaited
  <2>7. Signals'
    <3>1. ASSUME NEW e \in Events, NEW c \in DOMAIN cmds, signaled'[e] = c
          PROVE  Awaited(c)' /\ cmds'[c].inj = e /\ cmds'[c].kernel = "done"
      <4>1. signaled[e] = c /\ e # cmds[k].inj
        BY <2>5, <2>6, <3>1
      <4> QED
        BY <1>2, <2>4, <4>1 DEF Signals
    <3>2. ASSUME NEW c \in DOMAIN cmds, Awaited(c)', cmds'[c].kernel = "done"
          PROVE  signaled'[cmds'[c].inj] = c
      <4>1. c # k /\ Awaited(c) /\ cmds[c].inj # cmds[k].inj
        BY <2>4, <2>6, <3>2, Exclusive
      <4> QED
        BY <1>2, <2>5, <2>6, <3>2, <4>1 DEF Signals
    <3>3. \A e \in Events : signaled'[e] \in DOMAIN cmds' \union {0}
      BY <1>2, <2>5 DEF Signals
    <3> QED
      BY <1>2, <3>1, <3>2, <3>3 DEF Signals
  <2>8. ASSUME NEW c \in DOMAIN cmds PROVE CommandOk(c)'
    <3>1. CASE c = k
      BY <1>a, <1>2, <2>2, <2>3, <3>1 DEF CommandOk
    <3>2. CASE c # k
      BY <1>a, <1>2, <2>3, <2>4, <3>2, SameLists DEF CommandOk
    <3> QED
      BY <3>1, <3>2
  <2> QED
    BY <1>2, <2>7, <2>8
<1> QED
  BY <1>k, <1>1, <1>2 DEF Record

\* A drain times each command by its own signal, and resets the event.
LEMMA DrainSignal ==
  ASSUME OwnInv, SignalInv, NEW l \in Lists, NEW D, D \subseteq Live(l), Drain(l, D),
         UNCHANGED call, \A c \in D : cmds[c].chain # "queued",
         D # {} /\ l \in Regular => state'[l] # "open",
         \A c \in DOMAIN cmds : cmds[c].list \in Regular =>
           \/ state'[cmds[c].list] = state[cmds[c].list]
           \/ state'[cmds[c].list] = "idle" /\ (cmds[c].slot = "live" => c \in D)
  PROVE  SignalInv'
<1> USE DEF SignalInv
<1>1. \A c \in D : /\ c \in DOMAIN cmds /\ cmds[c].list = l /\ cmds[c].slot = "live"
                   /\ Awaited(c) /\ ~Recording(c)
  BY DEF Live, Of, Awaited, OwnInv, Calls, CallOk, Recording
<1>2. \A c \in DOMAIN cmds : c # 0 /\ cmds[c] \in Commands /\ cmds[c].inj \in Events
  BY DEF OwnInv, TypeOK, Commands, Ids
<1>3. \A c \in D : signaled[cmds[c].inj] = c /\ cmds[c].kernel = "done"
  <2> TAKE c \in D
  <2>1. signaled[cmds[c].inj] # 0
    BY DEF Drain, Drainable
  <2>2. PICK d \in DOMAIN cmds : signaled[cmds[c].inj] = d
    BY <1>1, <1>2, <2>1 DEF Signals
  <2>3. Awaited(d) /\ cmds[d].inj = cmds[c].inj /\ cmds[d].kernel = "done"
    BY <1>1, <1>2, <2>2 DEF Signals
  <2>4. c = d
    BY <1>1, <2>3, Exclusive
  <2> QED
    BY <2>2, <2>3, <2>4
<1>4. cmds' = [c \in DOMAIN cmds |-> IF c \in D THEN Timed(c) ELSE cmds[c]]
  BY DEF Drain
<1>5. \A c \in D : /\ Timed(c).inj = cmds[c].inj /\ Timed(c).list = cmds[c].list
                   /\ Timed(c).chain = cmds[c].chain /\ Timed(c).kernel = "done"
                   /\ Timed(c).slot = "drained" /\ Timed(c).timing = c
  <2> TAKE c \in D
  <2>1. cmds[c] \in Commands /\ signaled[cmds[c].inj] = c /\ cmds[c].kernel = "done"
    BY <1>1, <1>2, <1>3
  <2> QED
    BY <2>1 DEF Timed, Commands
<1>6. /\ DOMAIN cmds' = DOMAIN cmds
      /\ \A c \in DOMAIN cmds :
           /\ cmds'[c].inj = cmds[c].inj /\ cmds'[c].list = cmds[c].list
           /\ cmds'[c].chain = cmds[c].chain /\ cmds'[c].kernel = cmds[c].kernel
           /\ c \in D => cmds'[c].slot = "drained" /\ cmds'[c].timing = c
           /\ c \notin D => cmds'[c] = cmds[c]
  BY <1>1, <1>3, <1>4, <1>5
<1>7. /\ \A c : (Recording(c)' <=> Recording(c)) /\ (Chaining(c)' <=> Chaining(c))
      /\ \A x : Overfull(x)' <=> Overfull(x)
  BY <1>6, SameCalls, SameLists
<1>8. \A c \in DOMAIN cmds : Awaited(c)' <=> Awaited(c) /\ c \notin D
  BY <1>1, <1>6, <1>7 DEF Awaited
<1>9. \A e \in Events : signaled'[e] = IF \E c \in D : cmds[c].inj = e THEN 0 ELSE signaled[e]
  BY DEF Drain, Reset
<1>10. Signals'
  <2>1. ASSUME NEW e \in Events, NEW c \in DOMAIN cmds, signaled'[e] = c
        PROVE  Awaited(c)' /\ cmds'[c].inj = e /\ cmds'[c].kernel = "done"
    <3>1. signaled[e] = c /\ \A d \in D : cmds[d].inj # e
      BY <1>2, <1>9, <2>1
    <3>2. Awaited(c) /\ cmds[c].inj = e /\ cmds[c].kernel = "done"
      BY <3>1 DEF Signals
    <3> QED
      BY <1>6, <1>8, <3>1, <3>2
  <2>2. ASSUME NEW c \in DOMAIN cmds, Awaited(c)', cmds'[c].kernel = "done"
        PROVE  signaled'[cmds'[c].inj] = c
    <3>1. Awaited(c) /\ c \notin D
      BY <1>8, <2>2
    <3>2. \A d \in D : cmds[d].inj # cmds[c].inj
      BY <1>1, <3>1, Exclusive
    <3>3. signaled[cmds[c].inj] = c
      BY <1>6, <2>2, <3>1 DEF Signals
    <3> QED
      BY <1>2, <1>6, <1>9, <3>2, <3>3
  <2>3. \A e \in Events : signaled'[e] \in DOMAIN cmds' \union {0}
    BY <1>6, <1>9 DEF Signals
  <2> QED
    BY <1>6, <2>1, <2>2, <2>3 DEF Signals
<1>11. ASSUME NEW c \in DOMAIN cmds PROVE CommandOk(c)'
  <2>1. CASE c \in D
    <3>1. cmds'[c].list = l /\ (l \in Regular => state'[l] # "open")
      BY <1>1, <1>6, <2>1
    <3> QED
      BY <1>3, <1>6, <2>1, <3>1 DEF CommandOk
  <2>2. CASE c \notin D
    BY <1>6, <1>7, <1>8, <2>2 DEF CommandOk
  <2> QED
    BY <2>1, <2>2
<1> QED
  BY <1>6, <1>10, <1>11

\* No command of a synchronised list runs.
LEMMA SyncListSignal ==
  ASSUME OwnInv, SignalInv, NEW l \in Lists, SyncList(l)
  PROVE  SignalInv'
<1>1. PICK D : D = Live(l)
  OBVIOUS
<1>2. D \subseteq Live(l) /\ Drain(l, D) /\ UNCHANGED call
  BY <1>1 DEF SyncList
<1>3. \A c \in D : cmds[c].chain # "queued"
  BY <1>1 DEF SyncList, Finished, Live
<1>4. l \in Regular => state'[l] = "idle"
  BY DEF SyncList, OwnInv, TypeOK
<1>5. ASSUME NEW c \in DOMAIN cmds, cmds[c].list \in Regular
      PROVE  \/ state'[cmds[c].list] = state[cmds[c].list]
             \/ state'[cmds[c].list] = "idle" /\ (cmds[c].slot = "live" => c \in D)
  <2>1. CASE cmds[c].list = l
    BY <1>1, <1>4, <1>5, <2>1 DEF Live, Of
  <2>2. CASE cmds[c].list # l
    BY <1>5, <2>2 DEF SyncList, OwnInv, TypeOK
  <2> QED
    BY <2>1, <2>2
<1> QED
  BY <1>2, <1>3, <1>4, <1>5, DrainSignal

\* A command whose barrier has fired is over.
LEMMA SyncEventSignal ==
  ASSUME OwnInv, SignalInv, NEW k \in Ids, SyncEvent(k)
  PROVE  SignalInv'
<1>1. PICK l \in Lists : l = cmds[k].list
  BY DEF SyncEvent, OwnInv, TypeOK, Commands
<1>2. {k} \subseteq Live(l) /\ k \in DOMAIN cmds
  BY <1>1 DEF SyncEvent, Live, Of
<1>3. Drain(l, {k}) /\ UNCHANGED <<call, state>> /\ cmds[k].chain = "fired"
  BY <1>1 DEF SyncEvent
<1>4. l \in Regular => state'[l] # "open"
  BY <1>1, <1>2, <1>3 DEF SignalInv, CommandOk
<1>5. \A c \in {k} : cmds[c].chain # "queued"
  BY <1>3
<1> QED
  BY <1>2, <1>3, <1>4, <1>5, DrainSignal

\* An execution waits for the last one, and for every command of the list: a
\* list within its cap has a slot for each.
LEMMA ExecuteSignal ==
  ASSUME OwnInv, SignalInv, "within_cap" \in Rules, NEW l \in Regular, Execute(l)
  PROVE  SignalInv'
<1> USE DEF SignalInv
<1>k. PICK late : late = IF state[l] = "flight" THEN Live(l) ELSE {}
  OBVIOUS
<1>a. /\ Reset(late) /\ UNCHANGED call /\ state' = [state EXCEPT ![l] = "flight"]
      /\ \A t \in Threads : call[t].list # l
      /\ Cardinality(Of(l)) <= Cap
      /\ cmds' = [c \in DOMAIN cmds |->
           IF c \notin Of(l) THEN cmds[c]
           ELSE [cmds[c] EXCEPT !.kernel = "queued",
                                !.chain = IF cmds[c].sig THEN "queued" ELSE "none",
                                !.slot = IF @ = "none" THEN @ ELSE "live"]]
  BY <1>k DEF Execute
<1>1. ~Overfull(l)
  <2>1. Cardinality(Of(l)) \in Nat
    BY CommandsFinite DEF OwnInv, Of
  <2>2. Cardinality(Of(l)) <= Cap
    BY <1>a
  <2> QED
    BY <2>1, <2>2, PoolAssumption DEF Overfull
<1>2. \A c \in DOMAIN cmds : c # 0 /\ cmds[c] \in Commands /\ cmds[c].inj \in Events
  BY DEF OwnInv, TypeOK, Commands, Ids
<1>3. \A c \in Of(l) : /\ c \in DOMAIN cmds /\ cmds[c].list = l
                       /\ ~Recording(c) /\ ~Chaining(c) /\ cmds[c].slot # "none"
  <2> TAKE c \in Of(l)
  <2>1. c \in DOMAIN cmds /\ cmds[c].list = l
    BY DEF Of
  <2>2. \A t \in Threads : CallOk(t) /\ call[t].list # l
    BY <1>a DEF OwnInv, Calls
  <2>3. \A t \in Threads : call[t].at \in {"record", "chain"} => call[t].id # c
    BY <2>1, <2>2 DEF CallOk
  <2>4. ~Recording(c) /\ ~Chaining(c)
    BY <2>3 DEF Recording, Chaining
  <2> QED
    BY <1>1, <2>1, <2>4 DEF CommandOk
<1>4. /\ DOMAIN cmds' = DOMAIN cmds
      /\ \A c \in DOMAIN cmds :
           /\ cmds'[c].inj = cmds[c].inj /\ cmds'[c].list = cmds[c].list
           /\ c \notin Of(l) => cmds'[c] = cmds[c]
           /\ c \in Of(l) => /\ cmds'[c].kernel = "queued" /\ cmds'[c].slot = "live"
                             /\ cmds'[c].chain \in {"queued", "none"}
  <2> DEFINE ran(c) == [cmds[c] EXCEPT !.kernel = "queued",
                                       !.chain = IF cmds[c].sig THEN "queued" ELSE "none",
                                       !.slot = IF @ = "none" THEN @ ELSE "live"]
  <2>1. cmds' = [c \in DOMAIN cmds |-> IF c \notin Of(l) THEN cmds[c] ELSE ran(c)]
    BY <1>a
  <2>2. ASSUME NEW c \in DOMAIN cmds
        PROVE  /\ ran(c).inj = cmds[c].inj /\ ran(c).list = cmds[c].list
               /\ ran(c).kernel = "queued" /\ ran(c).chain \in {"queued", "none"}
               /\ cmds[c].slot # "none" => ran(c).slot = "live"
    <3>1. cmds[c] \in Commands
      BY <1>2
    <3> QED
      BY <3>1 DEF Commands
  <2> HIDE DEF ran
  <2> QED
    BY <1>3, <2>1, <2>2
<1>5. /\ \A c : (Recording(c)' <=> Recording(c)) /\ (Chaining(c)' <=> Chaining(c))
      /\ \A x : Overfull(x)' <=> Overfull(x)
  BY <1>a, <1>4, SameCalls, SameLists
<1>6. \A c \in DOMAIN cmds : Awaited(c)' <=> Awaited(c) \/ c \in Of(l)
  BY <1>4, <1>5 DEF Awaited
<1>7. \A c \in Of(l) : Awaited(c) /\ cmds[c].kernel = "done" => c \in late
  <2> SUFFICES ASSUME NEW c \in Of(l), Awaited(c), cmds[c].kernel = "done" PROVE c \in late
    OBVIOUS
  <2>1. cmds[c].slot = "live"
    BY <1>3 DEF Awaited
  <2>2. state[l] \notin {"open", "idle"}
    BY <1>3, <2>1 DEF CommandOk
  <2> QED
    BY <1>k, <2>1, <2>2 DEF Live, OwnInv, TypeOK
<1>8. \A c \in late : c \in Of(l) /\ Awaited(c)
  BY <1>k DEF Live, Awaited
<1>9. \A e \in Events :
        signaled'[e] = IF \E c \in late : cmds[c].inj = e THEN 0 ELSE signaled[e]
  BY <1>a DEF Reset
<1>10. Signals'
  <2>1. ASSUME NEW e \in Events, NEW c \in DOMAIN cmds, signaled'[e] = c
        PROVE  Awaited(c)' /\ cmds'[c].inj = e /\ cmds'[c].kernel = "done"
    <3>1. signaled[e] = c /\ \A d \in late : cmds[d].inj # e
      BY <1>2, <1>9, <2>1
    <3>2. Awaited(c) /\ cmds[c].inj = e /\ cmds[c].kernel = "done"
      BY <3>1 DEF Signals
    <3> QED
      BY <1>4, <1>6, <1>7, <3>1, <3>2
  <2>2. ASSUME NEW c \in DOMAIN cmds, Awaited(c)', cmds'[c].kernel = "done"
        PROVE  signaled'[cmds'[c].inj] = c
    <3>1. c \notin Of(l) /\ Awaited(c)
      BY <1>4, <1>6, <2>2
    <3>2. \A d \in late : cmds[d].inj # cmds[c].inj
      BY <1>3, <1>8, <3>1, Exclusive
    <3>3. signaled[cmds[c].inj] = c
      BY <1>4, <2>2, <3>1 DEF Signals
    <3> QED
      BY <1>2, <1>4, <1>9, <3>2, <3>3
  <2>3. \A e \in Events : signaled'[e] \in DOMAIN cmds' \union {0}
    BY <1>4, <1>9 DEF Signals
  <2> QED
    BY <1>4, <2>1, <2>2, <2>3 DEF Signals
<1>11. ASSUME NEW c \in DOMAIN cmds PROVE CommandOk(c)'
  <2>1. CASE c \in Of(l)
    <3>1. cmds'[c].list = l /\ Awaited(c)'
      BY <1>3, <1>4, <1>6, <2>1
    <3>2. state'[l] = "flight"
      BY <1>a DEF OwnInv, TypeOK
    <3> QED
      BY <1>4, <2>1, <3>1, <3>2 DEF CommandOk
  <2>2. CASE c \notin Of(l)
    <3>1. cmds[c].list \in Regular => state'[cmds[c].list] = state[cmds[c].list]
      BY <1>a, <2>2 DEF Of, OwnInv, TypeOK
    <3> QED
      BY <1>4, <1>5, <1>6, <2>2, <3>1 DEF CommandOk
  <2> QED
    BY <2>1, <2>2
<1> QED
  BY <1>4, <1>10, <1>11

\* A reset takes the commands and the signals of its list, and no other.
LEMMA ResetListSignal ==
  ASSUME OwnInv, SignalInv, NEW l \in Regular, ResetList(l)
  PROVE  SignalInv'
<1> USE DEF SignalInv
<1>k. PICK D : D = {c \in Of(l) : cmds[c].slot # "none"}
  OBVIOUS
<1>a. /\ Reset(D) /\ state[l] = "idle" /\ UNCHANGED call
      /\ cmds' = [c \in DOMAIN cmds \ Of(l) |-> cmds[c]]
      /\ state' = [state EXCEPT ![l] = "open"]
  BY <1>k DEF ResetList
<1>1. \A c \in DOMAIN cmds : c # 0 /\ cmds[c] \in Commands /\ cmds[c].inj \in Events
  BY DEF OwnInv, TypeOK, Commands, Ids
<1>2. \A c \in Of(l) : c \in DOMAIN cmds /\ ~Awaited(c)
  <2> TAKE c \in Of(l)
  <2>1. c \in DOMAIN cmds /\ cmds[c].list = l /\ cmds[c].slot # "live"
    BY <1>a DEF Of, CommandOk
  <2>2. ~Recording(c)
    BY <1>a, <2>1 DEF Recording, OwnInv, Calls, CallOk
  <2> QED
    BY <2>1, <2>2 DEF Awaited
<1>3. \A c \in D : c \in Of(l) /\ c \in DOMAIN cmds /\ BySlot(c, cmds[c].inj)
  <2> TAKE c \in D
  <2>1. c \in DOMAIN cmds /\ cmds[c].list = l /\ cmds[c].slot # "none" /\ c \in Of(l)
    BY <1>k DEF Of
  <2> QED
    BY <1>1, <2>1 DEF BySlot, Commands
<1>4. /\ DOMAIN cmds' = DOMAIN cmds \ Of(l)
      /\ \A c \in DOMAIN cmds \ Of(l) : cmds'[c] = cmds[c]
  BY <1>a
<1>5. \A c : (Recording(c)' <=> Recording(c)) /\ (Chaining(c)' <=> Chaining(c))
  BY <1>a, SameCalls
<1>6. \A c \in DOMAIN cmds' : /\ cmds'[c].list = cmds[c].list /\ cmds[c].list # l
                              /\ Awaited(c)' <=> Awaited(c)
                              /\ Overfull(cmds[c].list)' <=> Overfull(cmds[c].list)
  <2> TAKE c \in DOMAIN cmds'
  <2>1. c \in DOMAIN cmds /\ cmds'[c] = cmds[c] /\ cmds[c].list # l
    BY <1>4 DEF Of
  <2>2. PICK x : x = cmds[c].list
    OBVIOUS
  <2>3. Of(x)' = Of(x)
    BY <1>4, <2>1, <2>2 DEF Of
  <2> QED
    BY <1>5, <2>1, <2>2, <2>3 DEF Awaited, Overfull
<1>7. \A e \in Events : signaled'[e] = IF \E c \in D : cmds[c].inj = e THEN 0 ELSE signaled[e]
  BY <1>a DEF Reset
<1>8. Signals'
  <2>1. ASSUME NEW e \in Events, NEW c \in DOMAIN cmds', signaled'[e] = c
        PROVE  Awaited(c)' /\ cmds'[c].inj = e /\ cmds'[c].kernel = "done"
    <3>1. c \in DOMAIN cmds /\ signaled[e] = c
      BY <1>1, <1>4, <1>7, <2>1
    <3> QED
      BY <1>4, <1>6, <3>1 DEF Signals
  <2>2. ASSUME NEW c \in DOMAIN cmds', Awaited(c)', cmds'[c].kernel = "done"
        PROVE  signaled'[cmds'[c].inj] = c
    <3>1. c \in DOMAIN cmds /\ c \notin Of(l) /\ cmds'[c] = cmds[c] /\ Awaited(c)
      BY <1>4, <1>6, <2>2
    <3>2. \A d \in D : cmds[d].inj # cmds[c].inj
      BY <1>3, <3>1, Exclusive
    <3>3. signaled[cmds[c].inj] = c
      BY <2>2, <3>1 DEF Signals
    <3> QED
      BY <1>1, <1>7, <3>1, <3>2, <3>3
  <2>3. \A e \in Events : signaled'[e] \in DOMAIN cmds' \union {0}
    BY <1>2, <1>4, <1>7 DEF Signals
  <2> QED
    BY <2>1, <2>2, <2>3 DEF Signals
<1>9. ASSUME NEW c \in DOMAIN cmds' PROVE CommandOk(c)'
  <2>1. c \in DOMAIN cmds /\ cmds'[c] = cmds[c] /\ cmds[c].list # l
    BY <1>4, <1>6
  <2>2. cmds[c].list \in Regular => state'[cmds[c].list] = state[cmds[c].list]
    BY <1>a, <2>1 DEF OwnInv, TypeOK
  <2> QED
    BY <1>5, <1>6, <2>1, <2>2 DEF CommandOk
<1> QED
  BY <1>8, <1>9

-----------------------------------------------------------------------------
(* The theorems on signals. *)

\* At first no event is signaled.
LEMMA InitSignal == Init => SignalInv
BY DEF Init, SignalInv, Signals

\* Every step keeps what signaled what.
LEMMA NextSignal ==
  ASSUME OwnInv, SignalInv, "within_cap" \in Rules, [Next]_vars
  PROVE  SignalInv'
<1>1. ASSUME NEW t \in Threads, NEW l \in Lists, GetEvent(t, l) PROVE SignalInv'
  BY <1>1, GetEventSignal
<1>2. ASSUME NEW t \in Threads,
             DriverAppend(t) \/ Record(t) \/ Compensate(t) \/ FailRead(t) \/ FailWrite(t)
      PROVE  SignalInv'
  BY <1>2, DriverAppendSignal, RecordSignal, CompensateSignal, FailSignal
<1>3. ASSUME NEW k \in Ids, Kernel(k) \/ Barrier(k) \/ SyncEvent(k) PROVE SignalInv'
  BY <1>3, KernelSignal, BarrierSignal, SyncEventSignal
<1>4. ASSUME NEW l \in Lists, SyncList(l) PROVE SignalInv'
  BY <1>4, SyncListSignal
<1>5. ASSUME NEW l \in Regular, Execute(l) \/ ResetList(l) PROVE SignalInv'
  BY <1>5, ExecuteSignal, ResetListSignal
<1>6. CASE UNCHANGED vars
  <2>1. UNCHANGED <<signaled, call, cmds, state>>
    BY <1>6 DEF vars
  <2>2. /\ \A c : (Recording(c)' <=> Recording(c)) /\ (Chaining(c)' <=> Chaining(c))
        /\ \A l : Overfull(l)' <=> Overfull(l)
    BY <2>1, SameCalls, SameLists
  <2>3. \A c : Awaited(c)' <=> Awaited(c)
    BY <2>1, <2>2 DEF Awaited
  <2>4. Signals'
    BY <2>1, <2>3 DEF SignalInv, Signals
  <2> QED
    BY <2>1, <2>2, <2>3, <2>4 DEF SignalInv, CommandOk
<1> QED
  BY <1>1, <1>2, <1>3, <1>4, <1>5, <1>6 DEF Next

\* An event is only ever signaled by the command that has it.
THEOREM SignalsKept ==
  ASSUME "quiet_fail" \in Rules, "within_cap" \in Rules
  PROVE  Spec => [](OwnInv /\ SignalInv)
<1>1. OwnInv /\ SignalInv /\ [Next]_vars => OwnInv' /\ SignalInv'
  BY NextOwn, NextSignal
<1> QED
  BY <1>1, InitOwn, InitSignal, PTL DEF Spec

\* The program sees its event no sooner than its command is done, on whatever
\* list, in whatever order the device runs, and however often the event in
\* between was used before.
THEOREM SignalsAreFaithful ==
  ASSUME "quiet_fail" \in Rules, "within_cap" \in Rules
  PROVE  Spec => []SignalFaithful
<1>1. OwnInv /\ SignalInv => SignalFaithful
  BY DEF SignalInv, CommandOk, SignalFaithful
<1> QED
  BY <1>1, SignalsKept, PTL

\* The timing that _slot_drain reports of a command is of that command, which
\* has run to its end, and of its last execution.
THEOREM TimingsAreFaithful ==
  ASSUME "quiet_fail" \in Rules, "within_cap" \in Rules
  PROVE  Spec => []TimingFaithful
<1>1. OwnInv /\ SignalInv => TimingFaithful
  BY DEF SignalInv, CommandOk, TimingFaithful
<1> QED
  BY <1>1, SignalsKept, PTL

\* An event in the free list is reset, and the device has nothing left to do
\* with it: whoever takes it next waits for its own command.
THEOREM IdleEventsStayClean ==
  ASSUME "quiet_fail" \in Rules, "within_cap" \in Rules
  PROVE  Spec => []IdleEventsClean
<1>1. ASSUME OwnInv, SignalInv PROVE IdleEventsClean
  <2> SUFFICES ASSUME NEW e \in ToSet(freelist)
               PROVE  /\ signaled[e] = 0
                      /\ \A c \in DOMAIN cmds : cmds[c].inj = e =>
                           cmds[c].kernel # "queued" /\ cmds[c].chain # "queued"
    BY DEF IdleEventsClean
  <2>1. freelist \in Seq(Events)
    BY <1>1 DEF OwnInv, TypeOK
  <2>2. e \in Events /\ Free(e)
    BY <2>1 DEF ToSet, Free
  <2>3. signaled[e] = 0
    BY <1>1, <2>2, Unsignaled DEF SignalInv
  <2>4. ASSUME NEW c \in DOMAIN cmds, cmds[c].inj = e,
               cmds[c].kernel = "queued" \/ cmds[c].chain = "queued"
        PROVE  FALSE
    <3>1. Awaited(c)
      BY <1>1, <2>4 DEF SignalInv, CommandOk, Awaited
    <3> QED
      BY <1>1, <2>2, <2>4, <3>1, Exclusive
  <2> QED
    BY <2>3, <2>4
<1> QED
  BY <1>1, SignalsKept, PTL
=============================================================================
