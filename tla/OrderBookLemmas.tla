-------------------------- MODULE OrderBookLemmas --------------------------
(***************************************************************************)
(* The storage of the book for every capacity, price range and quantity    *)
(* width: the queues of the price levels and the free list are linked      *)
(* lists through the same slots, and every operation of the book takes     *)
(* such a storage to such a storage.                                       *)
(*                                                                         *)
(* The links alone do not say that a list ends, or what its quantities add *)
(* up to.  The invariant therefore carries, for each slot, its position in *)
(* its list and the sum of the quantities up to and including its own, and *)
(* each operation says what it does to them.                               *)
(***************************************************************************)
EXTENDS OrderBook, PriceIndexLemmas, FiniteSetTheorems, FunctionTheorems, SequenceTheorems, TLAPS

\* The slots of S are linked by next, in the order of pos, n of them from first.
Chain(sl, S, n, first, pos) ==
  /\ IF n = 0 THEN S = {} /\ first = INVALID_INDEX ELSE first \in S
  /\ \A i \in S :
       /\ pos[i] \in 1 .. n
       /\ pos[i] = 1 <=> i = first
       /\ IF pos[i] = n THEN sl[i].next = INVALID_INDEX
          ELSE sl[i].next \in S /\ pos[sl[i].next] = pos[i] + 1
  /\ \A i, j \in S : pos[i] = pos[j] => i = j

\* The links back, the tail and the reset of an empty level.
Backward(sl, S, level, pos) ==
  /\ IF S = {} THEN level = EmptyLevel
     ELSE level.tail \in S /\ pos[level.tail] = level.order_count
  /\ \A i \in S :
       IF pos[i] = 1 THEN sl[i].prev = INVALID_INDEX
       ELSE sl[i].prev \in S /\ pos[sl[i].prev] = pos[i] - 1

\* acc adds up the quantities from the head, and at the tail it is the total.
Sums(sl, S, level, pos, acc) ==
  /\ S # {} => acc[level.tail] = level.total_quantity
  /\ \A i \in S : pos[i] = 1 => acc[i] = sl[i].quantity
  /\ \A i, j \in S :
       /\ pos[j] = pos[i] + 1 => acc[j] = acc[i] + sl[j].quantity
       /\ pos[i] < pos[j] => acc[i] + sl[j].quantity <= acc[j]

Queue(sl, S, level, pos, acc) ==
  /\ level.order_count = Cardinality(S)
  /\ Chain(sl, S, level.order_count, level.head, pos)
  /\ Backward(sl, S, level, pos)
  /\ Sums(sl, S, level, pos, acc)

-----------------------------------------------------------------------------
\* Two lists, A of m slots and B of n, and the slots sl2 in which the last slot
\* of A is linked to the first of B.
Joined(sl, A, m, a, pos, sl2, B, n, b, posB, pos2) ==
  /\ A \in SUBSET Slots /\ B \in SUBSET Slots /\ A \cap B = {} /\ m \in Nat /\ n \in Nat
  /\ pos \in [Slots -> Nat] /\ posB \in [Slots -> Nat] /\ pos2 \in [Slots -> Nat]
  /\ Chain(sl, A, m, a, pos) /\ Chain(sl2, B, n, b, posB)
  /\ \A i \in A : /\ pos2[i] = pos[i]
                  /\ sl2[i].next = IF pos[i] = m THEN b ELSE sl[i].next
  /\ \A i \in B : pos2[i] = posB[i] + m

\* Such lists have become one.
LEMMA ChainConcat ==
  ASSUME NEW A, NEW B, NEW m, NEW n, NEW a, NEW b, NEW sl, NEW sl2, NEW pos, NEW posB, NEW pos2,
         Joined(sl, A, m, a, pos, sl2, B, n, b, posB, pos2)
  PROVE  Chain(sl2, A \cup B, m + n, IF m = 0 THEN b ELSE a, pos2)
<1> USE DEF Joined
<1>1. \A i \in A : pos2[i] \in 1 .. m /\ pos2[i] \in 1 .. m + n
  BY DEF Chain
<1>2. \A i \in B : pos2[i] \in m + 1 .. m + n
  BY DEF Chain
<1>3. IF m + n = 0 THEN A \cup B = {} /\ (IF m = 0 THEN b ELSE a) = INVALID_INDEX
      ELSE (IF m = 0 THEN b ELSE a) \in A \cup B
  BY DEF Chain
<1>4. ASSUME NEW i \in A \cup B
      PROVE  /\ pos2[i] = 1 <=> i = IF m = 0 THEN b ELSE a
             /\ IF pos2[i] = m + n THEN sl2[i].next = INVALID_INDEX
                ELSE sl2[i].next \in A \cup B /\ pos2[sl2[i].next] = pos2[i] + 1
  <2>1. CASE i \in A
    <3>1. m # 0
      BY <2>1 DEF Chain
    <3>2. pos2[i] = 1 <=> i = a
      BY <2>1 DEF Chain
    <3>3. CASE pos[i] # m
      BY <2>1, <3>1, <3>2, <3>3, <1>1 DEF Chain
    <3>4. CASE pos[i] = m /\ n = 0
      BY <2>1, <3>1, <3>2, <3>4, <1>1 DEF Chain
    <3>5. CASE pos[i] = m /\ n # 0
      <4>1. b \in B /\ posB[b] = 1
        BY <3>5 DEF Chain
      <4>2. pos2[b] = m + 1 /\ sl2[i].next = b
        BY <4>1, <2>1, <3>5
      <4>. QED
        BY <2>1, <3>1, <3>2, <3>5, <4>1, <4>2
    <3>. QED
      BY <3>3, <3>4, <3>5
  <2>2. CASE i \in B
    <3>1. posB[i] \in 1 .. n /\ pos2[i] = posB[i] + m /\ n # 0
      BY <2>2 DEF Chain
    <3>2. pos2[i] = 1 <=> i = IF m = 0 THEN b ELSE a
      <4>1. CASE m = 0
        BY <4>1, <3>1, <2>2 DEF Chain
      <4>2. CASE m # 0
        BY <4>2, <3>1, <2>2 DEF Chain
      <4>. QED
        BY <4>1, <4>2
    <3>3. CASE posB[i] = n
      BY <2>2, <3>1, <3>2, <3>3 DEF Chain
    <3>4. CASE posB[i] # n
      <4>1. sl2[i].next \in B /\ posB[sl2[i].next] = posB[i] + 1
        BY <2>2, <3>4 DEF Chain
      <4>2. pos2[sl2[i].next] = posB[i] + 1 + m
        BY <4>1
      <4>. QED
        BY <4>1, <4>2, <3>1, <3>2, <3>4
    <3>. QED
      BY <3>3, <3>4
  <2>. QED
    BY <2>1, <2>2
<1>5. ASSUME NEW i \in A \cup B, NEW j \in A \cup B, pos2[i] = pos2[j]
      PROVE  i = j
  <2>1. CASE i \in A /\ j \in A
    BY <2>1, <1>5 DEF Chain
  <2>2. CASE i \in B /\ j \in B
    <3>1. posB[i] \in 1 .. n /\ posB[j] \in 1 .. n
      BY <2>2 DEF Chain
    <3>2. pos2[i] = posB[i] + m /\ pos2[j] = posB[j] + m
      BY <2>2
    <3>3. posB[i] + m = posB[j] + m
      BY <1>5, <3>2
    <3>4. \A x, y \in 1 .. n : x + m = y + m => x = y
      OBVIOUS
    <3>5. posB[i] = posB[j]
      BY <3>1, <3>3, <3>4, Zenon
    <3>. QED
      BY <2>2, <3>5 DEF Chain
  <2>3. CASE i \in A /\ j \in B
    BY <2>3, <1>1, <1>2, <1>5
  <2>4. CASE i \in B /\ j \in A
    BY <2>4, <1>1, <1>2, <1>5
  <2>. QED
    BY <2>1, <2>2, <2>3, <2>4
<1>6. \A i \in A \cup B : pos2[i] \in 1 .. m + n
  BY <1>1, <1>2
<1>. QED
  BY <1>3, <1>4, <1>5, <1>6 DEF Chain

\* A slot leaves a list from wherever it stands: the one before it is linked to
\* the one after it.
LEMMA ChainRemove ==
  ASSUME NEW S \in SUBSET Slots, NEW n \in Nat, NEW first, NEW sl, NEW sl2,
         NEW pos \in [Slots -> Nat], NEW pos2 \in [Slots -> Nat],
         Chain(sl, S, n, first, pos), NEW i \in S,
         \A j \in S \ {i} :
           /\ pos2[j] = IF pos[j] > pos[i] THEN pos[j] - 1 ELSE pos[j]
           /\ sl2[j].next = IF sl[j].next = i THEN sl[i].next ELSE sl[j].next
  PROVE  Chain(sl2, S \ {i}, n - 1, IF i = first THEN sl[i].next ELSE first, pos2)
<1> DEFINE R == S \ {i}
           f == IF i = first THEN sl[i].next ELSE first
<1>1. pos[i] \in 1 .. n /\ n # 0 /\ n - 1 \in Nat
  BY DEF Chain
<1>2. \A j \in R : pos[j] \in 1 .. n /\ pos[j] # pos[i]
  BY DEF Chain
<1>3. \A j \in R : pos2[j] \in 1 .. n - 1
  BY <1>1, <1>2
<1>4. IF n - 1 = 0 THEN R = {} /\ f = INVALID_INDEX ELSE f \in R
  <2>1. CASE n = 1
    <3>1. R = {}
      BY <1>3, <2>1
    <3>2. first = i /\ pos[i] = n
      BY <1>1, <2>1 DEF Chain
    <3>3. sl[i].next = INVALID_INDEX
      BY <3>2 DEF Chain
    <3>. QED
      BY <2>1, <3>1, <3>2, <3>3
  <2>2. CASE n # 1 /\ i = first
    <3>1. pos[i] = 1 /\ pos[i] # n
      BY <2>2 DEF Chain
    <3>2. sl[i].next \in S /\ pos[sl[i].next] = pos[i] + 1
      BY <3>1 DEF Chain
    <3>. QED
      BY <2>2, <3>1, <3>2, <1>1
  <2>3. CASE n # 1 /\ i # first
    BY <2>3, <1>1 DEF Chain
  <2>. QED
    BY <2>1, <2>2, <2>3
<1>5. ASSUME NEW j \in R
      PROVE  /\ pos2[j] = 1 <=> j = f
             /\ IF pos2[j] = n - 1 THEN sl2[j].next = INVALID_INDEX
                ELSE sl2[j].next \in R /\ pos2[sl2[j].next] = pos2[j] + 1
  <2>1. pos[j] \in 1 .. n /\ pos[j] # pos[i] /\ j \in S
    BY <1>2
  <2>2. pos2[j] = 1 <=> j = f
    <3>1. CASE i = first
      <4>1. pos[i] = 1
        BY <3>1 DEF Chain
      <4>2. pos2[j] = pos[j] - 1
        BY <4>1, <2>1
      <4>3. sl[i].next \in S /\ pos[sl[i].next] = 2
        <5>1. pos[i] # n
          BY <2>1, <4>1, <1>1
        <5>. QED
          BY <5>1, <4>1 DEF Chain
      <4>4. pos[j] = 2 <=> j = sl[i].next
        BY <4>3 DEF Chain
      <4>. QED
        BY <3>1, <4>2, <4>4, <2>1
    <3>2. CASE i # first
      <4>1. pos[i] > 1
        BY <3>2, <1>1 DEF Chain
      <4>2. pos2[j] = 1 <=> pos[j] = 1
        BY <4>1, <2>1, <1>1
      <4>. QED
        BY <3>2, <4>2 DEF Chain
    <3>. QED
      BY <3>1, <3>2
  <2>3. CASE pos[j] = n
    <3>1. sl[j].next = INVALID_INDEX /\ pos2[j] = n - 1
      BY <2>1, <2>3, <1>1 DEF Chain
    <3>2. i # INVALID_INDEX
      BY BookAssumption DEF Slots
    <3>. QED
      BY <2>2, <3>1, <3>2
  <2>4. CASE pos[j] # n /\ sl[j].next = i
    <3>1. pos[i] = pos[j] + 1 /\ sl2[j].next = sl[i].next /\ pos2[j] = pos[j]
      BY <2>1, <2>4 DEF Chain
    <3>2. CASE pos[i] = n
      BY <2>1, <2>2, <3>1, <3>2, <1>1 DEF Chain
    <3>3. CASE pos[i] # n
      <4>1. sl[i].next \in S /\ pos[sl[i].next] = pos[i] + 1
        BY <3>3 DEF Chain
      <4>2. sl[i].next \in R /\ pos2[sl[i].next] = pos[i]
        BY <4>1, <1>1
      <4>. QED
        BY <2>1, <2>2, <3>1, <3>3, <4>2, <1>1
    <3>. QED
      BY <3>2, <3>3
  <2>5. CASE pos[j] # n /\ sl[j].next # i
    <3>1. sl[j].next \in R /\ pos[sl[j].next] = pos[j] + 1 /\ sl2[j].next = sl[j].next
      BY <2>1, <2>5 DEF Chain
    <3>2. pos[j] + 1 # pos[i]
      BY <3>1, <1>2
    <3>3. pos2[sl[j].next] = pos2[j] + 1
      BY <2>1, <3>1, <3>2, <1>1
    <3>4. pos2[j] # n - 1
      BY <3>1, <3>3, <1>3, <1>1
    <3>. QED
      BY <2>2, <3>1, <3>3, <3>4
  <2>. QED
    BY <2>3, <2>4, <2>5
<1>6. ASSUME NEW j \in R, NEW k \in R, pos2[j] = pos2[k]
      PROVE  j = k
  <2>1. pos[j] = pos[k]
    BY <1>1, <1>2, <1>6
  <2>. QED
    BY <2>1 DEF Chain
<1>. QED
  BY <1>3, <1>4, <1>5, <1>6 DEF Chain

\* The first slot leaves a list: the rest keeps its links.
LEMMA ChainPop ==
  ASSUME NEW S \in SUBSET Slots, NEW n \in Nat, NEW first \in S, NEW sl, NEW sl2,
         NEW pos \in [Slots -> Nat], NEW pos2 \in [Slots -> Nat],
         Chain(sl, S, n, first, pos),
         \A j \in S \ {first} : pos2[j] = pos[j] - 1 /\ sl2[j].next = sl[j].next
  PROVE  Chain(sl2, S \ {first}, n - 1, sl[first].next, pos2)
<1>1. pos[first] = 1
  BY DEF Chain
<1>2. ASSUME NEW j \in S \ {first}
      PROVE  /\ pos2[j] = IF pos[j] > pos[first] THEN pos[j] - 1 ELSE pos[j]
             /\ sl2[j].next = IF sl[j].next = first THEN sl[first].next ELSE sl[j].next
  <2>1. pos[j] \in 1 .. n /\ pos[j] # 1
    BY DEF Chain
  <2>2. sl[j].next # first
    <3>1. first # INVALID_INDEX
      BY BookAssumption DEF Slots
    <3>2. sl[j].next = first => pos[first] = pos[j] + 1
      BY <3>1 DEF Chain
    <3>. QED
      BY <1>1, <2>1, <3>2
  <2>. QED
    BY <1>1, <2>1, <2>2
<1>3. Chain(sl2, S \ {first}, n - 1, IF first = first THEN sl[first].next ELSE first, pos2)
  BY <1>2, ChainRemove
<1>. QED
  BY <1>3

\* A slot is put in front of a list.
LEMMA ChainPush ==
  ASSUME NEW S \in SUBSET Slots, NEW n \in Nat, NEW first, NEW sl, NEW i \in Slots \ S,
         NEW pos \in [Slots -> Nat], NEW pos2 \in [Slots -> Nat],
         Chain(sl, S, n, first, pos),
         sl[i].next = first, pos2[i] = 1,
         \A j \in S : pos2[j] = pos[j] + 1
  PROVE  Chain(sl, S \cup {i}, n + 1, i, pos2)
<1> DEFINE T == S \cup {i}
<1>1. \A j \in S : pos2[j] \in 2 .. n + 1 /\ j # i
  BY DEF Chain
<1>2. i \in T /\ n + 1 # 0 /\ \A j \in T : pos2[j] \in 1 .. n + 1 /\ (pos2[j] = 1 <=> j = i)
  BY <1>1
<1>3. ASSUME NEW j \in S
      PROVE  IF pos2[j] = n + 1 THEN sl[j].next = INVALID_INDEX
             ELSE sl[j].next \in T /\ pos2[sl[j].next] = pos2[j] + 1
  <2>1. pos[j] \in 1 .. n /\ pos2[j] = pos[j] + 1
    BY DEF Chain
  <2>2. CASE pos[j] = n
    BY <2>1, <2>2 DEF Chain
  <2>3. CASE pos[j] # n
    <3>1. sl[j].next \in S /\ pos[sl[j].next] = pos[j] + 1
      BY <2>3 DEF Chain
    <3>2. pos2[sl[j].next] = pos[j] + 1 + 1
      BY <3>1
    <3>. QED
      BY <2>1, <2>3, <3>1, <3>2
  <2>. QED
    BY <2>2, <2>3
<1>4. IF pos2[i] = n + 1 THEN sl[i].next = INVALID_INDEX
      ELSE sl[i].next \in T /\ pos2[sl[i].next] = pos2[i] + 1
  <2>1. CASE n = 0
    BY <2>1 DEF Chain
  <2>2. CASE n # 0
    <3>1. first \in S /\ pos[first] = 1
      BY <2>2 DEF Chain
    <3>2. pos2[first] = 1 + 1
      BY <3>1
    <3>. QED
      BY <2>2, <3>1, <3>2
  <2>. QED
    BY <2>1, <2>2
<1>5. ASSUME NEW j \in T, NEW k \in T, pos2[j] = pos2[k]
      PROVE  j = k
  <2>1. CASE j \in S /\ k \in S
    <3>1. pos[j] = pos[k]
      BY <2>1, <1>5
    <3>. QED
      BY <2>1, <3>1 DEF Chain
  <2>2. CASE j = i \/ k = i
    BY <1>2, <1>5, <2>2
  <2>. QED
    BY <2>1, <2>2
<1>. QED
  BY <1>2, <1>3, <1>4, <1>5 DEF Chain

-----------------------------------------------------------------------------
(***************************************************************************)
(* Finite sets of slots.                                                   *)
(***************************************************************************)
\* Slots are numbers below INVALID_INDEX, and finitely many.
LEMMA SlotsFinite ==
  /\ IsFiniteSet(Slots)
  /\ Cardinality(Slots) = Capacity
  /\ \A S \in SUBSET Slots : IsFiniteSet(S) /\ Cardinality(S) \in 0 .. Capacity
  /\ \A i \in Slots : i \in Nat /\ i < INVALID_INDEX /\ i \in Words
<1>1. IsFiniteSet(Slots) /\ Cardinality(Slots) = Capacity
  <2>1. 0 \in Int /\ Capacity - 1 \in Int
    BY BookAssumption
  <2>2. /\ IsFiniteSet(0 .. Capacity - 1)
        /\ Cardinality(0 .. Capacity - 1) = IF 0 > Capacity - 1 THEN 0 ELSE Capacity - 1 - 0 + 1
    BY <2>1, FS_Interval
  <2>. QED
    BY <2>2, BookAssumption DEF Slots
<1>2. ASSUME NEW S \in SUBSET Slots
      PROVE  IsFiniteSet(S) /\ Cardinality(S) \in 0 .. Capacity
  <2>1. IsFiniteSet(S) /\ Cardinality(S) <= Capacity
    BY <1>1, FS_Subset
  <2>2. Cardinality(S) \in Nat
    BY <2>1, FS_CardinalityType
  <2>. QED
    BY <2>1, <2>2, BookAssumption
<1>3. \A i \in Slots : i \in Nat /\ i < INVALID_INDEX /\ i \in Words
  BY BookAssumption DEF Slots, Words
<1>. QED
  BY <1>1, <1>2, <1>3

\* One slot more or less is one more or less to count.
LEMMA CountChanges ==
  ASSUME NEW S \in SUBSET Slots, NEW i \in Slots
  PROVE  /\ Cardinality(S) \in Nat
         /\ S = {} <=> Cardinality(S) = 0
         /\ i \notin S => Cardinality(S \cup {i}) = Cardinality(S) + 1
         /\ i \in S => Cardinality(S \ {i}) = Cardinality(S) - 1
<1>1. IsFiniteSet(S) /\ Cardinality(S) \in Nat
  BY SlotsFinite
<1>. QED
  BY <1>1, FS_EmptySet, FS_AddElement, FS_RemoveElement

-----------------------------------------------------------------------------
(***************************************************************************)
(* The queue of one price level.                                           *)
(***************************************************************************)
\* A queue does not notice what happens to other slots.
LEMMA QueueFrame ==
  ASSUME NEW S \in SUBSET Slots, NEW level, NEW sl, NEW sl2, NEW pos, NEW pos2, NEW acc, NEW acc2,
         Queue(sl, S, level, pos, acc),
         \A i \in S : sl2[i] = sl[i] /\ pos2[i] = pos[i] /\ acc2[i] = acc[i]
  PROVE  Queue(sl2, S, level, pos2, acc2)
<1>1. Chain(sl2, S, level.order_count, level.head, pos2)
  BY DEF Queue, Chain
<1>2. Backward(sl2, S, level, pos2)
  BY DEF Queue, Backward
<1>3. Sums(sl2, S, level, pos2, acc2)
  BY DEF Queue, Backward, Sums
<1>. QED
  BY <1>1, <1>2, <1>3 DEF Queue

\* A chain does not notice what happens to other slots.
LEMMA ChainFrame ==
  ASSUME NEW S, NEW n, NEW first, NEW sl, NEW sl2, NEW pos, NEW pos2,
         Chain(sl, S, n, first, pos),
         \A i \in S : sl2[i].next = sl[i].next /\ pos2[i] = pos[i]
  PROVE  Chain(sl2, S, n, first, pos2)
BY DEF Chain

\* append_order: the new order is the last, with the sum of all before it.
LEMMA QueueAppend ==
  ASSUME NEW S \in SUBSET Slots, NEW i \in Slots \ S, NEW level \in Levels,
         NEW sl, NEW sl2, NEW pos \in [Slots -> Nat], NEW pos2 \in [Slots -> Nat],
         NEW acc \in [Slots -> Nat], NEW acc2 \in [Slots -> Nat],
         Queue(sl, S, level, pos, acc),
         \A j \in S : sl[j].quantity \in Nat,
         sl2[i].quantity \in Nat,
         sl2[i].next = INVALID_INDEX,
         sl2[i].prev = IF IsEmpty(level) THEN INVALID_INDEX ELSE level.tail,
         \A j \in S : /\ sl2[j].next = IF j = level.tail THEN i ELSE sl[j].next
                      /\ sl2[j].prev = sl[j].prev
                      /\ sl2[j].quantity = sl[j].quantity,
         \A j \in S : pos2[j] = pos[j] /\ acc2[j] = acc[j],
         pos2[i] = level.order_count + 1,
         acc2[i] = level.total_quantity + sl2[i].quantity
  PROVE  Queue(sl2, S \cup {i},
               [head |-> IF IsEmpty(level) THEN i ELSE level.head,
                tail |-> i,
                total_quantity |-> level.total_quantity + sl2[i].quantity,
                order_count |-> level.order_count + 1],
               pos2, acc2)
<1> DEFINE n == level.order_count
           T == S \cup {i}
           new == [head |-> IF IsEmpty(level) THEN i ELSE level.head,
                   tail |-> i,
                   total_quantity |-> level.total_quantity + sl2[i].quantity,
                   order_count |-> n + 1]
<1>1. /\ n \in Nat /\ n = Cardinality(S)
      /\ Cardinality(T) = n + 1
      /\ S = {} <=> n = 0
      /\ level.total_quantity \in Nat
      /\ i \in Nat /\ i # INVALID_INDEX
  BY CountChanges, SlotsFinite DEF Queue, Levels
<1>2. Chain(sl, S, n, level.head, pos)
  BY DEF Queue
<1>3. IsEmpty(level) <=> n = 0
  <2>1. \A j \in S : j # INVALID_INDEX
    BY SlotsFinite
  <2>. QED
    BY <1>2, <2>1 DEF Chain, IsEmpty
<1>4. S # {} => level.tail \in S /\ pos[level.tail] = n
  BY DEF Queue, Backward
<1>5. \A j \in S : pos[j] \in 1 .. n /\ (j = level.tail <=> pos[j] = n)
  BY <1>2, <1>4 DEF Chain
<1>6. Chain(sl2, T, n + 1, new.head, pos2)
  <2> DEFINE one == [k \in Slots |-> 1]
  <2>1. Chain(sl2, {i}, 1, i, one)
    BY <1>1 DEF Chain
  <2>2. \A j \in S : /\ pos2[j] = pos[j]
                     /\ sl2[j].next = IF pos[j] = n THEN i ELSE sl[j].next
    BY <1>5
  <2>3. \A j \in {i} : pos2[j] = one[j] + n
    BY <1>1
  <2>4. S \cap {i} = {} /\ {i} \in SUBSET Slots /\ 1 \in Nat /\ one \in [Slots -> Nat]
    OBVIOUS
  <2> HIDE DEF one
  <2>5. Chain(sl2, S \cup {i}, n + 1, IF n = 0 THEN i ELSE level.head, pos2)
    <3>1. Joined(sl, S, n, level.head, pos, sl2, {i}, 1, i, one, pos2)
      BY <1>1, <1>2, <2>1, <2>2, <2>3, <2>4 DEF Joined
    <3>. QED
      BY <3>1, ChainConcat
  <2>. QED
    BY <1>3, <2>5
<1>7. Backward(sl2, T, new, pos2)
  <2>1. new.tail \in T /\ pos2[new.tail] = new.order_count
    OBVIOUS
  <2>2. ASSUME NEW j \in S
        PROVE  IF pos2[j] = 1 THEN sl2[j].prev = INVALID_INDEX
               ELSE sl2[j].prev \in T /\ pos2[sl2[j].prev] = pos2[j] - 1
    BY <2>2 DEF Queue, Backward
  <2>3. IF pos2[i] = 1 THEN sl2[i].prev = INVALID_INDEX
        ELSE sl2[i].prev \in T /\ pos2[sl2[i].prev] = pos2[i] - 1
    <3>1. CASE n = 0
      BY <1>3, <3>1
    <3>2. CASE n # 0
      <4>1. level.tail \in S /\ pos2[level.tail] = n /\ sl2[i].prev = level.tail
        BY <1>1, <1>3, <1>4, <3>2
      <4>2. n + 1 # 1 /\ n = (n + 1) - 1
        BY <1>1, <3>2
      <4>. QED
        BY <4>1, <4>2
    <3>. QED
      BY <3>1, <3>2
  <2>. QED
    BY <2>1, <2>2, <2>3 DEF Backward
<1>8. Sums(sl2, T, new, pos2, acc2)
  <2>1. acc2[new.tail] = new.total_quantity
    OBVIOUS
  <2>2. \A j \in T : pos2[j] = 1 => acc2[j] = sl2[j].quantity
    <3>1. n = 0 => level.total_quantity = 0
      BY <1>1 DEF Queue, Backward, EmptyLevel
    <3>. QED
      BY <1>1, <3>1 DEF Queue, Sums
  <2>3. \A j \in S : acc[j] \in Nat /\ acc[j] <= level.total_quantity
    <3>1. ASSUME NEW j \in S PROVE acc[j] \in Nat /\ acc[j] <= level.total_quantity
      <4>1. acc[j] \in Nat /\ acc[level.tail] = level.total_quantity
        BY DEF Queue, Sums
      <4>2. CASE j = level.tail
        BY <4>1, <4>2
      <4>3. CASE j # level.tail
        <5>1. pos[j] < pos[level.tail] /\ level.tail \in S
          BY <1>1, <1>4, <1>5, <4>3
        <5>2. acc[j] + sl[level.tail].quantity <= acc[level.tail]
          BY <5>1 DEF Queue, Sums
        <5>. QED
          BY <4>1, <5>1, <5>2
      <4>. QED
        BY <4>2, <4>3
    <3>. QED
      BY <3>1
  <2>4. ASSUME NEW j \in T, NEW k \in T
        PROVE  /\ pos2[k] = pos2[j] + 1 => acc2[k] = acc2[j] + sl2[k].quantity
               /\ pos2[j] < pos2[k] => acc2[j] + sl2[k].quantity <= acc2[k]
    <3>1. CASE j \in S /\ k \in S
      BY <3>1 DEF Queue, Sums
    <3>2. CASE j \in S /\ k = i
      <4>1. pos2[k] = pos2[j] + 1 => j = level.tail
        <5>1. pos2[k] = n + 1 /\ pos2[j] = pos[j]
          BY <3>2
        <5>2. pos[j] \in 1 .. n
          BY <3>2, <1>5
        <5>3. pos2[k] = pos2[j] + 1 => pos[j] = n
          BY <1>1, <5>1, <5>2
        <5>. QED
          BY <1>5, <3>2, <5>3
      <4>2. acc[level.tail] = level.total_quantity
        BY <3>2 DEF Queue, Sums
      <4>3. acc2[k] = level.total_quantity + sl2[k].quantity /\ acc2[j] = acc[j]
        BY <3>2
      <4>. QED
        BY <3>2, <2>3, <4>1, <4>2, <4>3, <1>1
    <3>3. CASE j = i
      BY <1>1, <1>5, <3>3
    <3>. QED
      BY <3>1, <3>2, <3>3
  <2>. QED
    BY <2>1, <2>2, <2>4 DEF Sums
<1>. QED
  BY <1>1, <1>6, <1>7, <1>8 DEF Queue

\* In a queue the total is the sum at the tail, and no sum is above it.
LEMMA QueueTotal ==
  ASSUME NEW S \in SUBSET Slots, NEW level \in Levels, NEW sl,
         NEW pos \in [Slots -> Nat], NEW acc \in [Slots -> Nat],
         Queue(sl, S, level, pos, acc),
         \A j \in S : sl[j].quantity \in Nat
  PROVE  \A j \in S : /\ sl[j].quantity <= acc[j]
                      /\ acc[j] <= level.total_quantity
                      /\ pos[j] \in 1 .. level.order_count
                      /\ pos[j] # level.order_count =>
                           acc[j] + sl[level.tail].quantity <= level.total_quantity
<1> SUFFICES ASSUME NEW j \in S
             PROVE  /\ sl[j].quantity <= acc[j]
                    /\ acc[j] <= level.total_quantity
                    /\ pos[j] \in 1 .. level.order_count
                    /\ pos[j] # level.order_count =>
                         acc[j] + sl[level.tail].quantity <= level.total_quantity
  OBVIOUS
<1> DEFINE n == level.order_count
<1>1. /\ n \in Nat /\ level.head \in S /\ level.tail \in S
      /\ pos[level.head] = 1 /\ pos[level.tail] = n
      /\ acc[level.tail] = level.total_quantity
      /\ acc[level.head] = sl[level.head].quantity
      /\ pos[j] \in 1 .. n
  BY DEF Queue, Chain, Backward, Sums, Levels
<1>2. acc[j] \in Nat /\ acc[level.head] \in Nat /\ sl[j].quantity \in Nat /\ sl[level.tail].quantity \in Nat
  BY <1>1
<1>3. sl[j].quantity <= acc[j]
  <2>1. CASE pos[j] = 1
    BY <2>1, <1>2 DEF Queue, Sums
  <2>2. CASE pos[j] # 1
    <3>1. pos[level.head] < pos[j]
      BY <1>1, <2>2
    <3>2. acc[level.head] + sl[j].quantity <= acc[j]
      BY <3>1, <1>1 DEF Queue, Sums
    <3>. QED
      BY <3>2, <1>2
  <2>. QED
    BY <2>1, <2>2
<1>4. CASE pos[j] = n
  <2>1. j = level.tail
    BY <1>1, <1>4 DEF Queue, Chain
  <2>. QED
    BY <1>1, <1>2, <1>3, <1>4, <2>1
<1>5. CASE pos[j] # n
  <2>1. pos[j] < pos[level.tail]
    BY <1>1, <1>5
  <2>2. acc[j] + sl[level.tail].quantity <= acc[level.tail]
    BY <2>1, <1>1 DEF Queue, Sums
  <2>. QED
    BY <1>1, <1>2, <1>3, <2>2
<1>. QED
  BY <1>4, <1>5

\* remove_order: the slots behind the one that leaves move up by one, and their
\* sums lose its quantity.
LEMMA QueueRemove ==
  ASSUME NEW S \in SUBSET Slots, NEW i \in S, NEW level \in Levels,
         NEW sl \in [Slots -> Orders], NEW sl2,
         NEW pos \in [Slots -> Nat], NEW pos2 \in [Slots -> Nat],
         NEW acc \in [Slots -> Nat], NEW acc2 \in [Slots -> Nat],
         Queue(sl, S, level, pos, acc),
         \A j \in S : sl[j].quantity \in Nat,
         \A j \in S \ {i} : sl2[j] = RemoveOrder(level, sl, i).slot[j],
         \A j \in S \ {i} :
           /\ pos2[j] = IF pos[j] > pos[i] THEN pos[j] - 1 ELSE pos[j]
           /\ acc2[j] = IF pos[j] > pos[i] THEN acc[j] - sl[i].quantity ELSE acc[j]
  PROVE  Queue(sl2, S \ {i}, RemoveOrder(level, sl, i).level, pos2, acc2)
<1> DEFINE n == level.order_count
           R == S \ {i}
           p == sl[i].prev
           x == sl[i].next
           q == sl[i].quantity
           new == [head |-> IF p = INVALID_INDEX THEN x ELSE level.head,
                   tail |-> IF x = INVALID_INDEX THEN p ELSE level.tail,
                   total_quantity |-> level.total_quantity - q,
                   order_count |-> n - 1]
<1>1. /\ n \in Nat /\ n = Cardinality(S)
      /\ Cardinality(R) = n - 1
      /\ R = {} <=> n - 1 = 0
      /\ level.total_quantity \in Nat
      /\ q \in Nat
      /\ \A j \in S : j # INVALID_INDEX
  <2>1. R \in SUBSET Slots /\ i \in Slots
    OBVIOUS
  <2>2. n = Cardinality(S) /\ n \in Nat /\ level.total_quantity \in Nat
    BY BookAssumption DEF Queue, Levels
  <2>3. Cardinality(R) = n - 1
    BY <2>1, <2>2, CountChanges
  <2>4. R = {} <=> Cardinality(R) = 0
    BY <2>1, CountChanges
  <2>5. \A j \in S : j # INVALID_INDEX
    BY SlotsFinite
  <2>. QED
    BY <2>2, <2>3, <2>4, <2>5
<1>2. Chain(sl, S, n, level.head, pos)
  BY DEF Queue
<1>3. \A j \in S : pos[j] \in 1 .. n
  BY <1>2 DEF Chain
<1>4. \A j \in S : sl[j].next = i <=> j = p
  <2>1. ASSUME NEW j \in S, sl[j].next = i PROVE j = p
    <3>1. pos[j] # n /\ pos[i] = pos[j] + 1
      BY <2>1, <1>1, <1>2 DEF Chain
    <3>2. pos[i] # 1
      BY <3>1, <1>3
    <3>3. p \in S /\ pos[p] = pos[i] - 1
      BY <3>2 DEF Queue, Backward
    <3>4. pos[p] = pos[j]
      BY <3>1, <3>3, <1>3
    <3>. QED
      BY <3>3, <3>4, <1>2 DEF Chain
  <2>2. ASSUME p \in S PROVE sl[p].next = i
    <3>1. pos[i] # 1 /\ pos[p] = pos[i] - 1
      BY <2>2, <1>1 DEF Queue, Backward
    <3>2. pos[p] # n
      BY <3>1, <1>3
    <3>3. sl[p].next \in S /\ pos[sl[p].next] = pos[p] + 1
      BY <2>2, <3>2, <1>2 DEF Chain
    <3>4. pos[sl[p].next] = pos[i]
      BY <3>1, <3>3, <1>3
    <3>. QED
      BY <3>3, <3>4, <1>2 DEF Chain
  <2>. QED
    BY <2>1, <2>2
<1>5. \A j \in S : sl[j].prev = i <=> j = x
  <2>1. ASSUME NEW j \in S, sl[j].prev = i PROVE j = x
    <3>1. pos[j] # 1 /\ pos[i] = pos[j] - 1
      BY <2>1, <1>1 DEF Queue, Backward
    <3>2. pos[i] # n
      BY <3>1, <1>3
    <3>3. x \in S /\ pos[x] = pos[i] + 1
      BY <3>2, <1>2 DEF Chain
    <3>4. pos[x] = pos[j]
      BY <3>1, <3>3, <1>3
    <3>. QED
      BY <3>3, <3>4, <1>2 DEF Chain
  <2>2. ASSUME x \in S PROVE sl[x].prev = i
    <3>1. pos[i] # n /\ pos[x] = pos[i] + 1
      BY <2>2, <1>1, <1>2 DEF Chain
    <3>2. pos[x] # 1
      BY <3>1, <1>3
    <3>3. sl[x].prev \in S /\ pos[sl[x].prev] = pos[x] - 1
      BY <2>2, <3>2 DEF Queue, Backward
    <3>4. pos[sl[x].prev] = pos[i]
      BY <3>1, <3>3, <1>3
    <3>. QED
      BY <3>3, <3>4, <1>2 DEF Chain
  <2>. QED
    BY <2>1, <2>2
<1>6. \A j \in R : /\ sl2[j].next = IF sl[j].next = i THEN x ELSE sl[j].next
                   /\ sl2[j].prev = IF sl[j].prev = i THEN p ELSE sl[j].prev
                   /\ sl2[j].quantity = sl[j].quantity
  <2>1. p \in S /\ x \in S => p # x
    <3>1. p \in S => pos[p] = pos[i] - 1
      BY <1>1 DEF Queue, Backward
    <3>2. x \in S => pos[x] = pos[i] + 1
      BY <1>1, <1>2 DEF Chain
    <3>. QED
      BY <3>1, <3>2, <1>3
  <2>2. \A j \in R : sl2[j] = IF j = p THEN [sl[j] EXCEPT !.next = x]
                             ELSE IF j = x THEN [sl[j] EXCEPT !.prev = p]
                             ELSE sl[j]
    BY DEF RemoveOrder
  <2>3. ASSUME NEW j \in R
        PROVE  /\ sl2[j].next = IF j = p THEN x ELSE sl[j].next
               /\ sl2[j].prev = IF j = x THEN p ELSE sl[j].prev
               /\ sl2[j].quantity = sl[j].quantity
    <3>1. sl[j] \in Orders
      OBVIOUS
    <3>2. CASE j = p
      BY <2>1, <2>2, <3>1, <3>2 DEF Orders
    <3>3. CASE j # p /\ j = x
      BY <2>2, <3>1, <3>3 DEF Orders
    <3>4. CASE j # p /\ j # x
      BY <2>2, <3>4
    <3>. QED
      BY <3>2, <3>3, <3>4
  <2>. QED
    BY <2>3, <1>4, <1>5
<1>7. /\ i = level.head <=> p = INVALID_INDEX
      /\ i = level.tail <=> x = INVALID_INDEX
  <2>1. level.tail \in S /\ pos[level.tail] = n
    BY DEF Queue, Backward
  <2>2. i = level.head <=> pos[i] = 1
    BY <1>2 DEF Chain
  <2>3. i = level.tail <=> pos[i] = n
    BY <1>2, <2>1 DEF Chain
  <2>4. pos[i] = 1 <=> p = INVALID_INDEX
    BY <1>1 DEF Queue, Backward
  <2>5. pos[i] = n <=> x = INVALID_INDEX
    BY <1>1, <1>2 DEF Chain
  <2>. QED
    BY <2>2, <2>3, <2>4, <2>5
<1>8. Chain(sl2, R, n - 1, new.head, pos2)
  <2>1. \A j \in R : /\ pos2[j] = IF pos[j] > pos[i] THEN pos[j] - 1 ELSE pos[j]
                     /\ sl2[j].next = IF sl[j].next = i THEN sl[i].next ELSE sl[j].next
    BY <1>6
  <2>2. Chain(sl2, R, n - 1, IF i = level.head THEN x ELSE level.head, pos2)
    BY <1>1, <1>2, <2>1, ChainRemove
  <2>. QED
    BY <1>7, <2>2
<1>9. Backward(sl2, R, new, pos2)
  <2>1. CASE R = {}
    <3>1. n = 1 /\ S = {i}
      BY <1>1, <2>1
    <3>2. level.tail = i /\ level.head = i
      BY <1>1, <3>1, <1>2 DEF Queue, Backward, Chain
    <3>3. p = INVALID_INDEX /\ x = INVALID_INDEX
      BY <3>2, <1>7
    <3>4. level.total_quantity = q
      <4>1. acc[i] = level.total_quantity /\ pos[i] = 1
        BY <3>2, <1>2 DEF Queue, Sums, Chain
      <4>. QED
        BY <4>1 DEF Queue, Sums
    <3>5. new = EmptyLevel
      BY <3>1, <3>3, <3>4, <1>1 DEF EmptyLevel
    <3>. QED
      BY <2>1, <3>5 DEF Backward
  <2>2. CASE R # {}
    <3>1. level.tail \in S /\ pos[level.tail] = n
      BY DEF Queue, Backward
    <3>2. new.tail \in R /\ pos2[new.tail] = n - 1
      <4>1. CASE i = level.tail
        <5>1. pos[i] = n /\ n # 1 /\ pos[i] # 1
          BY <3>1, <4>1, <2>2, <1>1
        <5>2. p \in S /\ pos[p] = pos[i] - 1
          BY <5>1 DEF Queue, Backward
        <5>3. p \in R /\ pos2[p] = n - 1
          BY <5>1, <5>2, <1>3
        <5>. QED
          BY <4>1, <5>3, <1>7
      <4>2. CASE i # level.tail
        <5>1. pos[i] # n
          BY <4>2, <3>1, <1>2 DEF Chain
        <5>2. level.tail \in R /\ pos2[level.tail] = n - 1
          BY <4>2, <5>1, <3>1, <1>3
        <5>. QED
          BY <4>2, <5>2, <1>7
      <4>. QED
        BY <4>1, <4>2
    <3>3. ASSUME NEW j \in R
          PROVE  IF pos2[j] = 1 THEN sl2[j].prev = INVALID_INDEX
                 ELSE sl2[j].prev \in R /\ pos2[sl2[j].prev] = pos2[j] - 1
      <4>1. j \in S /\ pos[j] \in 1 .. n /\ pos[i] \in 1 .. n /\ pos[j] # pos[i]
        BY <1>2 DEF Chain
      <4>2. CASE sl[j].prev = i
        <5>1. pos[j] # 1 /\ pos[i] = pos[j] - 1 /\ sl2[j].prev = p
          BY <4>1, <4>2, <1>1, <1>6 DEF Queue, Backward
        <5>2. pos2[j] = pos[i]
          BY <4>1, <5>1
        <5>3. CASE pos[i] = 1
          BY <5>1, <5>2, <5>3 DEF Queue, Backward
        <5>4. CASE pos[i] # 1
          <6>1. p \in S /\ pos[p] = pos[i] - 1
            BY <5>4 DEF Queue, Backward
          <6>2. p \in R /\ pos2[p] = pos[i] - 1
            BY <6>1, <4>1, <1>3
          <6>. QED
            BY <5>1, <5>2, <5>4, <6>2
        <5>. QED
          BY <5>3, <5>4
      <4>3. CASE sl[j].prev # i
        <5>1. sl2[j].prev = sl[j].prev
          BY <4>3, <1>6
        <5>2. CASE pos[j] = 1
          <6>1. pos2[j] = 1 /\ sl[j].prev = INVALID_INDEX
            BY <4>1, <5>2 DEF Queue, Backward
          <6>. QED
            BY <5>1, <6>1
        <5>3. CASE pos[j] # 1
          <6>1. sl[j].prev \in R /\ pos[sl[j].prev] = pos[j] - 1
            BY <4>1, <4>3, <5>3 DEF Queue, Backward
          <6>2. pos[j] - 1 # pos[i]
            BY <6>1, <1>2 DEF Chain
          <6>3. pos2[sl[j].prev] = pos2[j] - 1 /\ pos2[j] # 1
            BY <6>1, <6>2, <4>1, <5>3
          <6>. QED
            BY <5>1, <6>1, <6>3
        <5>. QED
          BY <5>2, <5>3
      <4>. QED
        BY <4>2, <4>3
    <3>. QED
      BY <2>2, <3>2, <3>3 DEF Backward
  <2>. QED
    BY <2>1, <2>2
<1>10. Sums(sl2, R, new, pos2, acc2)
  <2>1. R # {} => acc2[new.tail] = new.total_quantity
    <3> HAVE R # {}
    <3>1. level.tail \in S /\ pos[level.tail] = n /\ acc[level.tail] = level.total_quantity
      BY DEF Queue, Backward, Sums
    <3>2. CASE i = level.tail
      <4>1. pos[i] = n /\ n # 1 /\ pos[i] # 1
        BY <3>1, <3>2, <1>1
      <4>2. p \in S /\ pos[p] = pos[i] - 1
        BY <4>1 DEF Queue, Backward
      <4>3. pos[i] = pos[p] + 1
        BY <4>1, <4>2, <1>3
      <4>4. acc[i] = acc[p] + q
        BY <4>2, <4>3 DEF Queue, Sums
      <4>5. p \in R /\ acc2[p] = acc[p]
        BY <4>2, <4>1, <1>1
      <4>6. acc[p] \in Nat /\ new.tail = p
        BY <4>2, <3>2, <1>7
      <4>. QED
        BY <3>1, <3>2, <4>4, <4>5, <4>6, <1>1
    <3>3. CASE i # level.tail
      <4>1. pos[i] # n /\ pos[i] \in 1 .. n
        BY <3>1, <3>3, <1>2 DEF Chain
      <4>2. acc2[level.tail] = acc[level.tail] - q
        BY <3>1, <3>3, <4>1, <1>1
      <4>. QED
        BY <3>1, <3>3, <4>2, <1>7
    <3>. QED
      BY <3>2, <3>3
  <2>2. ASSUME NEW j \in R, pos2[j] = 1
        PROVE  acc2[j] = sl2[j].quantity
    <3>1. j \in S /\ pos[j] \in 1 .. n /\ pos[i] \in 1 .. n /\ pos[j] # pos[i]
      BY <1>2 DEF Chain
    <3>2. CASE pos[j] > pos[i]
      <4>1. pos[i] = 1 /\ pos[j] = pos[i] + 1
        BY <2>2, <3>1, <3>2
      <4>2. acc[i] = q /\ acc[j] = acc[i] + sl[j].quantity
        BY <4>1, <3>1 DEF Queue, Sums
      <4>3. acc[j] \in Nat /\ sl[j].quantity \in Nat
        BY <3>1
      <4>. QED
        BY <3>2, <4>2, <4>3, <1>1, <1>6
    <3>3. CASE ~(pos[j] > pos[i])
      <4>1. pos[j] = 1
        BY <2>2, <3>3
      <4>2. acc[j] = sl[j].quantity
        BY <3>1, <4>1 DEF Queue, Sums
      <4>. QED
        BY <3>3, <4>2, <1>6
    <3>. QED
      BY <3>2, <3>3
  <2>3. ASSUME NEW j \in R, NEW k \in R
        PROVE  /\ pos2[k] = pos2[j] + 1 => acc2[k] = acc2[j] + sl2[k].quantity
               /\ pos2[j] < pos2[k] => acc2[j] + sl2[k].quantity <= acc2[k]
    <3>1. /\ j \in S /\ k \in S
          /\ pos[j] \in 1 .. n /\ pos[k] \in 1 .. n /\ pos[i] \in 1 .. n
          /\ pos[j] # pos[i] /\ pos[k] # pos[i]
      BY <1>2 DEF Chain
    <3>2. /\ acc[i] \in Nat /\ acc[j] \in Nat /\ acc[k] \in Nat
          /\ sl[k].quantity \in Nat /\ sl[j].quantity \in Nat /\ sl2[k].quantity = sl[k].quantity
      BY <1>6
    <3>3. /\ pos[k] = pos[j] + 1 => acc[k] = acc[j] + sl[k].quantity
          /\ pos[j] < pos[k] => acc[j] + sl[k].quantity <= acc[k]
          /\ pos[i] = pos[j] + 1 => acc[i] = acc[j] + q
          /\ pos[k] = pos[i] + 1 => acc[k] = acc[i] + sl[k].quantity
          /\ pos[j] < pos[i] => acc[j] + q <= acc[i]
          /\ pos[i] < pos[k] => acc[i] + sl[k].quantity <= acc[k]
      BY <3>1 DEF Queue, Sums
    <3>4. CASE pos[j] > pos[i] /\ pos[k] > pos[i]
      <4>1. pos2[j] = pos[j] - 1 /\ pos2[k] = pos[k] - 1 /\ acc2[j] = acc[j] - q /\ acc2[k] = acc[k] - q
        BY <3>4
      <4>. QED
        BY <4>1, <3>1, <3>2, <3>3, <1>1
    <3>5. CASE ~(pos[j] > pos[i]) /\ ~(pos[k] > pos[i])
      <4>1. pos2[j] = pos[j] /\ pos2[k] = pos[k] /\ acc2[j] = acc[j] /\ acc2[k] = acc[k]
        BY <3>5
      <4>. QED
        BY <4>1, <3>1, <3>2, <3>3
    <3>6. CASE ~(pos[j] > pos[i]) /\ pos[k] > pos[i]
      <4>1. pos2[j] = pos[j] /\ pos2[k] = pos[k] - 1 /\ acc2[j] = acc[j] /\ acc2[k] = acc[k] - q
        BY <3>6
      <4>2. pos2[k] = pos2[j] + 1 => pos[i] = pos[j] + 1 /\ pos[k] = pos[i] + 1
        BY <4>1, <3>1, <3>6
      <4>. QED
        BY <4>1, <4>2, <3>1, <3>2, <3>3, <3>6, <1>1
    <3>7. CASE pos[j] > pos[i] /\ ~(pos[k] > pos[i])
      <4>1. pos2[j] = pos[j] - 1 /\ pos2[k] = pos[k]
        BY <3>7
      <4>. QED
        BY <4>1, <3>1, <3>7
    <3>. QED
      BY <3>4, <3>5, <3>6, <3>7
  <2>. QED
    BY <2>1, <2>2, <2>3 DEF Sums
<1>11. RemoveOrder(level, sl, i).level = new
  BY DEF RemoveOrder
<1>. QED
  BY <1>1, <1>8, <1>9, <1>10, <1>11 DEF Queue

\* The head keeps a part of its quantity: every sum loses what was taken.
LEMMA QueueShrink ==
  ASSUME NEW S \in SUBSET Slots, NEW level \in Levels,
         NEW sl \in [Slots -> Orders], NEW sl2,
         NEW pos \in [Slots -> Nat], NEW acc \in [Slots -> Nat], NEW acc2 \in [Slots -> Nat],
         Queue(sl, S, level, pos, acc),
         \A j \in S : sl[j].quantity \in Nat,
         level.head \in S,
         NEW d \in Nat, d <= sl[level.head].quantity,
         \A j \in S :
           /\ sl2[j].next = sl[j].next /\ sl2[j].prev = sl[j].prev
           /\ sl2[j].quantity = IF j = level.head THEN sl[j].quantity - d ELSE sl[j].quantity
           /\ acc2[j] = acc[j] - d
  PROVE  Queue(sl2, S, ShrinkLevel(level, d), pos, acc2)
<1> DEFINE new == ShrinkLevel(level, d)
<1>1. /\ new.head = level.head /\ new.tail = level.tail /\ new.order_count = level.order_count
      /\ new.total_quantity = level.total_quantity - d
  BY DEF ShrinkLevel, Levels
<1>2. \A j \in S : /\ sl2[j].next = sl[j].next /\ sl2[j].prev = sl[j].prev
                   /\ sl2[j].quantity = IF j = level.head THEN sl[j].quantity - d ELSE sl[j].quantity
  OBVIOUS
<1>3. Chain(sl2, S, new.order_count, new.head, pos)
  BY <1>1, <1>2 DEF Queue, Chain
<1>4. S # {}
  OBVIOUS
<1>5. Backward(sl2, S, new, pos)
  BY <1>1, <1>2, <1>4 DEF Queue, Backward
<1>6. \A j \in S : pos[j] \in Nat /\ pos[j] >= 1 /\ (pos[j] = 1 <=> j = level.head)
  BY DEF Queue, Chain, Levels
<1>7. Sums(sl2, S, new, pos, acc2)
  <2>1. acc2[new.tail] = new.total_quantity
    <3>1. level.tail \in S /\ acc[level.tail] = level.total_quantity
      BY <1>4 DEF Queue, Backward, Sums
    <3>. QED
      BY <1>1, <3>1
  <2>2. ASSUME NEW j \in S, pos[j] = 1
        PROVE  acc2[j] = sl2[j].quantity
    <3>1. acc[j] = sl[j].quantity /\ j = level.head
      BY <1>6, <2>2 DEF Queue, Sums
    <3>2. sl2[j].quantity = sl[j].quantity - d
      BY <1>2, <3>1
    <3>3. acc2[j] = acc[j] - d
      OBVIOUS
    <3>. QED
      BY <3>1, <3>2, <3>3, Zenon
  <2>3. ASSUME NEW j \in S, NEW k \in S
        PROVE  /\ pos[k] = pos[j] + 1 => acc2[k] = acc2[j] + sl2[k].quantity
               /\ pos[j] < pos[k] => acc2[j] + sl2[k].quantity <= acc2[k]
    <3>1. /\ pos[k] = pos[j] + 1 => acc[k] = acc[j] + sl[k].quantity
          /\ pos[j] < pos[k] => acc[j] + sl[k].quantity <= acc[k]
      BY DEF Queue, Sums
    <3>2. /\ acc[j] \in Nat /\ acc[k] \in Nat /\ sl[k].quantity \in Nat
          /\ acc2[j] = acc[j] - d /\ acc2[k] = acc[k] - d
      OBVIOUS
    <3>3. pos[k] = pos[j] + 1 \/ pos[j] < pos[k] => sl2[k].quantity = sl[k].quantity
      BY <1>2, <1>6
    <3>. QED
      BY <3>1, <3>2, <3>3
  <2>. QED
    BY <2>1, <2>2, <2>3 DEF Sums
<1>. QED
  BY <1>1, <1>3, <1>5, <1>7 DEF Queue

-----------------------------------------------------------------------------
(***************************************************************************)
(* The storage: slots sl, live slots A, free list from fh, levels lv.      *)
(***************************************************************************)
Resting == [next : Words, prev : Words, id : 1 .. MaxOrderId, price : MinPrice .. MaxPrice,
            quantity : 1 .. QuantityModulus - 1, side : Sides]

\* The live orders of one side and price.
Members(sl, A, side, tick) == {i \in A : sl[i].side = side /\ sl[i].price = MinPrice + tick}

Store(sl, A, fh, lv, pos, acc, rank) ==
  /\ sl \in [Slots -> Orders] /\ A \in SUBSET Slots /\ fh \in Words
  /\ lv \in [Sides -> [Ticks -> Levels]]
  /\ pos \in [Slots -> Nat] /\ acc \in [Slots -> Nat] /\ rank \in [Slots -> Nat]
  /\ \A i \in A : sl[i] \in Resting
  /\ Chain(sl, Slots \ A, Capacity - Cardinality(A), fh, rank)
  /\ \A side \in Sides, tick \in Ticks :
       Queue(sl, Members(sl, A, side, tick), lv[side][tick], pos, acc)

\* The slots of A keep their ids.
SameIds(sl, sl2, A) == \A i \in A : sl2[i].id = sl[i].id

\* The levels after one of them is replaced.
PutLevel(lv, side, tick, level) == [lv EXCEPT ![side][tick] = level]

\* The ticks of one side whose level holds an order.
Occupied(lv, side) == {tick \in Ticks : ~IsEmpty(lv[side][tick])}

\* What a live slot is: an order of one level.
LEMMA LiveSlot ==
  ASSUME NEW sl, NEW A, NEW fh, NEW lv, NEW pos, NEW acc, NEW rank,
         Store(sl, A, fh, lv, pos, acc, rank), NEW i \in A
  PROVE  /\ i \in Slots /\ i \in Nat /\ i # INVALID_INDEX /\ i \in Words
         /\ sl[i].side \in Sides /\ sl[i].price - MinPrice \in Ticks
         /\ i \in Members(sl, A, sl[i].side, sl[i].price - MinPrice)
         /\ sl[i].quantity \in 1 .. QuantityModulus - 1
         /\ sl[i].id \in 1 .. MaxOrderId
         /\ sl[i].price \in MinPrice .. MaxPrice
<1>1. sl[i] \in Resting /\ i \in Slots
  BY DEF Store
<1>2. /\ sl[i].side \in Sides /\ sl[i].price \in MinPrice .. MaxPrice
      /\ sl[i].quantity \in 1 .. QuantityModulus - 1 /\ sl[i].id \in 1 .. MaxOrderId
  BY <1>1 DEF Resting
<1>3. sl[i].price - MinPrice \in Ticks /\ sl[i].price = MinPrice + (sl[i].price - MinPrice)
  BY <1>2, PriceAssumption DEF Ticks, PriceRange
<1>4. i \in Nat /\ i # INVALID_INDEX /\ i \in Words
  BY <1>1, SlotsFinite
<1>. QED
  BY <1>1, <1>2, <1>3, <1>4 DEF Members

\* A level and its members: they are both empty or neither.
LEMMA LevelFacts ==
  ASSUME NEW sl, NEW A, NEW fh, NEW lv, NEW pos, NEW acc, NEW rank,
         Store(sl, A, fh, lv, pos, acc, rank),
         NEW side \in Sides, NEW tick \in Ticks,
         NEW S, S = Members(sl, A, side, tick),
         NEW level, level = lv[side][tick]
  PROVE  /\ Queue(sl, S, level, pos, acc)
         /\ S \in SUBSET Slots /\ S \in SUBSET A /\ level \in Levels
         /\ level.order_count \in Nat /\ level.total_quantity \in Nat
         /\ \A j \in S : sl[j].quantity \in Nat /\ sl[j].quantity \in 1 .. QuantityModulus - 1
         /\ IsEmpty(level) <=> S = {}
         /\ IsEmpty(level) <=> level.order_count = 0
         /\ IsEmpty(level) => level = EmptyLevel
         /\ ~IsEmpty(level) => /\ level.head \in S /\ pos[level.head] = 1
                               /\ level.tail \in S /\ pos[level.tail] = level.order_count
                               /\ sl[level.head].quantity <= level.total_quantity
<1>1. Queue(sl, S, level, pos, acc)
  BY DEF Store
<1>2. S \in SUBSET Slots /\ S \in SUBSET A /\ level \in Levels
  BY DEF Store, Members
<1>3. level.order_count \in Nat /\ level.total_quantity \in Nat
  BY <1>2 DEF Levels
<1>4. \A j \in S : sl[j].quantity \in Nat /\ sl[j].quantity \in 1 .. QuantityModulus - 1
  <2>1. \A j \in S : sl[j].quantity \in 1 .. QuantityModulus - 1
    BY <1>2, LiveSlot
  <2>. QED
    BY <2>1, BookAssumption
<1>5. \A j \in S : j # INVALID_INDEX
  BY <1>2, SlotsFinite
<1>6. S = {} <=> level.order_count = 0
  <2>1. level.order_count = Cardinality(S) /\ IsFiniteSet(S)
    BY <1>1, <1>2, SlotsFinite DEF Queue
  <2>. QED
    BY <2>1, FS_EmptySet
<1>7. IsEmpty(level) <=> S = {}
  BY <1>1, <1>3, <1>5, <1>6 DEF Queue, Chain, IsEmpty
<1>8. IsEmpty(level) => level = EmptyLevel
  BY <1>1, <1>7 DEF Queue, Backward
<1>9. ASSUME ~IsEmpty(level)
      PROVE  /\ level.head \in S /\ pos[level.head] = 1
             /\ level.tail \in S /\ pos[level.tail] = level.order_count
             /\ sl[level.head].quantity <= level.total_quantity
  <2>1. level.head \in S /\ pos[level.head] = 1
    BY <1>1, <1>6, <1>7, <1>9 DEF Queue, Chain
  <2>2. level.tail \in S /\ pos[level.tail] = level.order_count
    BY <1>1, <1>7, <1>9 DEF Queue, Backward
  <2>3. pos \in [Slots -> Nat] /\ acc \in [Slots -> Nat]
    BY DEF Store
  <2>4. /\ sl[level.head].quantity <= acc[level.head]
        /\ acc[level.head] <= level.total_quantity
    BY <1>1, <1>2, <1>4, <2>1, <2>3, QueueTotal
  <2>5. acc[level.head] \in Nat /\ sl[level.head].quantity \in Nat
    BY <2>1, <2>3, <1>2, <1>4
  <2>. QED
    BY <1>3, <2>1, <2>2, <2>4, <2>5
<1>. QED
  BY <1>1, <1>2, <1>3, <1>4, <1>6, <1>7, <1>8, <1>9

\* An operation on one level leaves the others as they are.
LEMMA StoreUpdate ==
  ASSUME NEW sl, NEW A, NEW fh, NEW lv, NEW pos, NEW acc, NEW rank,
         Store(sl, A, fh, lv, pos, acc, rank),
         NEW side \in Sides, NEW tick \in Ticks,
         NEW sl2 \in [Slots -> Orders], NEW A2 \in SUBSET Slots, NEW fh2 \in Words,
         NEW level2 \in Levels,
         NEW pos2 \in [Slots -> Nat], NEW acc2 \in [Slots -> Nat], NEW rank2 \in [Slots -> Nat],
         NEW S, S = Members(sl, A, side, tick),
         NEW S2, A2 = S2 \cup (A \ S), S2 \cap (A \ S) = {},
         \A j \in S2 : sl2[j] \in Resting /\ sl2[j].side = side /\ sl2[j].price = MinPrice + tick,
         \A j \in A \ S : sl2[j] = sl[j] /\ pos2[j] = pos[j] /\ acc2[j] = acc[j],
         Chain(sl2, Slots \ A2, Capacity - Cardinality(A2), fh2, rank2),
         Queue(sl2, S2, level2, pos2, acc2)
  PROVE  Store(sl2, A2, fh2, PutLevel(lv, side, tick, level2), pos2, acc2, rank2)
<1> USE DEF PutLevel
<1> DEFINE lv2 == PutLevel(lv, side, tick, level2)
<1>1. lv2 \in [Sides -> [Ticks -> Levels]]
  BY DEF Store
<1>2. \A i \in A2 : sl2[i] \in Resting
  BY DEF Store
<1>3. ASSUME NEW s \in Sides, NEW t \in Ticks
      PROVE  Queue(sl2, Members(sl2, A2, s, t), lv2[s][t], pos2, acc2)
  <2>1. tick \in Nat /\ t \in Nat
    BY Sizes
  <2>2. CASE s = side /\ t = tick
    <3>1. Members(sl2, A2, s, t) = S2
      BY <2>2 DEF Members
    <3>2. lv2[s][t] = level2
      BY <2>2 DEF Store
    <3>. QED
      BY <3>1, <3>2
  <2>3. CASE ~(s = side /\ t = tick)
    <3>1. MinPrice + t = MinPrice + tick => t = tick
      BY <2>1, PriceAssumption
    <3>2. Members(sl2, A2, s, t) = Members(sl, A, s, t)
      BY <2>3, <3>1 DEF Members
    <3>3. Members(sl, A, s, t) \subseteq A \ S
      BY <2>3, <3>1 DEF Members
    <3>4. lv2[s][t] = lv[s][t]
      BY <2>3 DEF Store
    <3>5. Queue(sl, Members(sl, A, s, t), lv[s][t], pos, acc)
      BY DEF Store
    <3>6. \A j \in Members(sl, A, s, t) : sl2[j] = sl[j] /\ pos2[j] = pos[j] /\ acc2[j] = acc[j]
      BY <3>3
    <3>7. Members(sl, A, s, t) \in SUBSET Slots
      BY DEF Members, Store
    <3>8. Queue(sl2, Members(sl, A, s, t), lv[s][t], pos2, acc2)
      BY <3>5, <3>6, <3>7, QueueFrame
    <3>. QED
      BY <3>2, <3>4, <3>8
  <2>. QED
    BY <2>2, <2>3
<1> HIDE DEF lv2
<1>4. Store(sl2, A2, fh2, lv2, pos2, acc2, rank2)
  BY <1>1, <1>2, <1>3 DEF Store
<1>. QED
  BY <1>4 DEF lv2

\* The first free slot, when the free list is not empty.
LEMMA FreeHead ==
  ASSUME NEW sl, NEW A, NEW fh, NEW lv, NEW pos, NEW acc, NEW rank,
         Store(sl, A, fh, lv, pos, acc, rank)
  PROVE  /\ Capacity - Cardinality(A) \in Nat
         /\ fh # INVALID_INDEX => fh \in Slots \ A /\ rank[fh] = 1
         /\ fh = INVALID_INDEX <=> A = Slots
<1>1. Cardinality(A) \in 0 .. Capacity /\ Capacity - Cardinality(A) \in Nat
  <2>1. A \in SUBSET Slots
    BY DEF Store
  <2>2. Cardinality(A) \in 0 .. Capacity
    BY <2>1, SlotsFinite
  <2>. QED
    BY <2>2, BookAssumption
<1>2. Chain(sl, Slots \ A, Capacity - Cardinality(A), fh, rank) /\ A \in SUBSET Slots
  BY DEF Store
<1>3. INVALID_INDEX \notin Slots
  BY BookAssumption DEF Slots
<1>. QED
  BY <1>1, <1>2, <1>3 DEF Chain

\* An order is written into a slot and appended to its level.
Rests(sl, i, lv, side, tick, order, app) ==
  /\ side \in Sides /\ tick \in Ticks /\ i # INVALID_INDEX
  /\ order \in Resting /\ order.side = side /\ order.price = MinPrice + tick
  /\ app = AppendOrder(lv[side][tick], [sl EXCEPT ![i] = order], i)

Rested(sl, A, i, lv, side, tick, order, app) ==
  /\ i \in Slots \ A
  /\ SameIds(sl, app.slot, A) /\ app.slot[i].id = order.id
  /\ ~IsEmpty(app.level)
  /\ \E pos2, acc2, rank2 :
       Store(app.slot, A \cup {i}, sl[i].next, PutLevel(lv, side, tick, app.level),
             pos2, acc2, rank2)

\* add_order rests an order: allocate, write, append.
LEMMA StoreAdd ==
  ASSUME NEW sl, NEW A, NEW fh, NEW lv, NEW pos, NEW acc, NEW rank,
         Store(sl, A, fh, lv, pos, acc, rank),
         NEW side, NEW tick, NEW order, NEW app, Rests(sl, fh, lv, side, tick, order, app)
  PROVE  Rested(sl, A, fh, lv, side, tick, order, app)
<1> USE DEF Rests
<1> DEFINE S == Members(sl, A, side, tick)
           level == lv[side][tick]
           sl2 == [j \in Slots |->
                     IF j = fh
                     THEN [order EXCEPT !.prev = IF IsEmpty(level) THEN INVALID_INDEX ELSE level.tail,
                                        !.next = INVALID_INDEX]
                     ELSE IF ~IsEmpty(level) /\ j = level.tail THEN [sl[j] EXCEPT !.next = fh]
                     ELSE sl[j]]
           level2 == [head |-> IF IsEmpty(level) THEN fh ELSE level.head,
                      tail |-> fh,
                      total_quantity |-> level.total_quantity + order.quantity,
                      order_count |-> level.order_count + 1]
           pos2 == [pos EXCEPT ![fh] = level.order_count + 1]
           acc2 == [acc EXCEPT ![fh] = level.total_quantity + order.quantity]
           rank2 == [j \in Slots |-> IF rank[j] > rank[fh] THEN rank[j] - 1 ELSE rank[j]]
<1>1. /\ fh \in Slots \ A /\ rank[fh] = 1 /\ Capacity - Cardinality(A) \in Nat
      /\ fh \in Slots /\ fh \notin S /\ fh # INVALID_INDEX
  BY FreeHead DEF Members
<1>2. /\ sl \in [Slots -> Orders] /\ A \in SUBSET Slots /\ fh \in Words
      /\ pos \in [Slots -> Nat] /\ acc \in [Slots -> Nat] /\ rank \in [Slots -> Nat]
      /\ Chain(sl, Slots \ A, Capacity - Cardinality(A), fh, rank)
  BY DEF Store
<1>3. /\ Queue(sl, S, level, pos, acc)
      /\ S \in SUBSET Slots /\ S \in SUBSET A /\ level \in Levels
      /\ level.order_count \in Nat /\ level.total_quantity \in Nat
      /\ \A j \in S : sl[j].quantity \in Nat
      /\ IsEmpty(level) <=> S = {}
      /\ ~IsEmpty(level) => level.head \in S /\ level.tail \in S
  BY LevelFacts
<1>4. app.slot = sl2 /\ app.level = level2
  <2>1. [sl EXCEPT ![fh] = order] \in [Slots -> Orders \cup Resting]
    BY <1>1, <1>2
  <2>2. [sl EXCEPT ![fh] = order][fh] = order /\ DOMAIN [sl EXCEPT ![fh] = order] = Slots
    BY <1>1, <1>2
  <2>3. \A j \in Slots : j # fh => [sl EXCEPT ![fh] = order][j] = sl[j]
    BY <1>1, <1>2
  <2>. QED
    BY <2>2, <2>3 DEF AppendOrder
<1>5. order.quantity \in Nat /\ order \in Orders /\ level.tail \in Words /\ INVALID_INDEX \in Words
  <2>1. order.quantity \in 1 .. QuantityModulus - 1
    BY DEF Resting
  <2>2. order.quantity \in Nat
    BY <2>1, BookAssumption
  <2>3. order \in Orders
    BY PriceAssumption, BookAssumption DEF Resting, Orders
  <2>. QED
    BY <1>3, <2>2, <2>3, BookAssumption DEF Levels, Words
<1>6. sl2 \in [Slots -> Orders]
  <2>1. ASSUME NEW j \in Slots PROVE sl2[j] \in Orders
    <3>1. CASE j = fh
      BY <3>1, <1>5 DEF Orders
    <3>2. CASE j # fh
      BY <3>2, <1>2 DEF Orders
    <3>. QED
      BY <3>1, <3>2
  <2>. QED
    BY <2>1
<1>7. \A j \in S \cup {fh} : /\ sl2[j] \in Resting
                             /\ sl2[j].side = side /\ sl2[j].price = MinPrice + tick
  <2>1. ASSUME NEW j \in S
        PROVE  sl2[j] \in Resting /\ sl2[j].side = side /\ sl2[j].price = MinPrice + tick
    <3>1. sl[j] \in Resting /\ sl[j].side = side /\ sl[j].price = MinPrice + tick
      BY DEF Store, Members
    <3>2. sl2[j] = IF ~IsEmpty(level) /\ j = level.tail THEN [sl[j] EXCEPT !.next = fh] ELSE sl[j]
      BY <1>1, <1>3
    <3>. QED
      BY <3>1, <3>2, <1>2 DEF Resting
  <2>2. sl2[fh] \in Resting /\ sl2[fh].side = side /\ sl2[fh].price = MinPrice + tick
    <3>1. sl2[fh] = [order EXCEPT !.prev = IF IsEmpty(level) THEN INVALID_INDEX ELSE level.tail,
                                  !.next = INVALID_INDEX]
      BY <1>1
    <3>2. order \in Resting /\ order.side = side /\ order.price = MinPrice + tick /\ INVALID_INDEX \in Words
      BY <1>5
    <3>3. PICK h \in Words : h = IF IsEmpty(level) THEN INVALID_INDEX ELSE level.tail
      BY <1>5
    <3>4. sl2[fh] = [order EXCEPT !.prev = h, !.next = INVALID_INDEX]
      BY <3>1, <3>3
    <3> HIDE DEF sl2, level, Rests
    <3>. QED
      BY <3>2, <3>4 DEF Resting
  <2>. QED
    BY <2>1, <2>2
<1>8. \A j \in A \ S : sl2[j] = sl[j] /\ pos2[j] = pos[j] /\ acc2[j] = acc[j]
  BY <1>1, <1>2, <1>3
<1>9. /\ pos2 \in [Slots -> Nat] /\ acc2 \in [Slots -> Nat] /\ rank2 \in [Slots -> Nat]
      /\ pos2[fh] = level.order_count + 1
      /\ acc2[fh] = level.total_quantity + order.quantity
      /\ \A j \in S : pos2[j] = pos[j] /\ acc2[j] = acc[j]
  <2>1. rank2 \in [Slots -> Nat]
    BY <1>1, <1>2
  <2>. QED
    BY <1>1, <1>2, <1>3, <1>5, <2>1
<1>10. Queue(sl2, S \cup {fh}, level2, pos2, acc2)
  <2>1. /\ sl2[fh].quantity = order.quantity
        /\ sl2[fh].next = INVALID_INDEX
        /\ sl2[fh].prev = IF IsEmpty(level) THEN INVALID_INDEX ELSE level.tail
    BY <1>1, <1>5 DEF Orders
  <2>2. ASSUME NEW j \in S
        PROVE  /\ sl2[j].next = IF j = level.tail THEN fh ELSE sl[j].next
               /\ sl2[j].prev = sl[j].prev
               /\ sl2[j].quantity = sl[j].quantity
    <3>1. sl[j] \in Orders /\ ~IsEmpty(level) /\ j # fh /\ j \in Slots
      BY <1>1, <1>2, <1>3
    <3>2. sl2[j] = IF j = level.tail THEN [sl[j] EXCEPT !.next = fh] ELSE sl[j]
      BY <3>1
    <3>. QED
      BY <3>1, <3>2 DEF Orders
  <2> HIDE DEF sl2, pos2, acc2, S, level
  <2>. QED
    BY <1>1, <1>2, <1>3, <1>5, <1>9, <2>1, <2>2, QueueAppend
<1>11. /\ Cardinality(A \cup {fh}) = Cardinality(A) + 1
       /\ level2 \in Levels
       /\ sl[fh].next \in Words
  <2>1. Cardinality(A \cup {fh}) = Cardinality(A) + 1
    BY <1>1, <1>2, CountChanges
  <2>2. Cardinality(S \cup {fh}) \in 0 .. Capacity /\ level2.order_count = Cardinality(S \cup {fh})
    <3>1. S \cup {fh} \in SUBSET Slots
      BY <1>1, <1>3
    <3>. QED
      BY <3>1, <1>10, SlotsFinite DEF Queue
  <2>3. level2 \in Levels
    BY <1>1, <1>2, <1>3, <1>5, <2>2 DEF Levels
  <2>4. sl[fh].next \in Words
    BY <1>1, <1>2 DEF Orders
  <2>. QED
    BY <2>1, <2>3, <2>4
<1>12. Chain(sl2, Slots \ (A \cup {fh}), Capacity - Cardinality(A \cup {fh}), sl[fh].next, rank2)
  <2> DEFINE F == Slots \ A
             n == Capacity - Cardinality(A)
  <2>1. F \in SUBSET Slots /\ fh \in F /\ n \in Nat /\ Chain(sl, F, n, fh, rank)
    BY <1>1, <1>2
  <2>2. \A j \in F \ {fh} : rank2[j] = rank[j] - 1 /\ sl2[j].next = sl[j].next
    <3> TAKE j \in F \ {fh}
    <3>1. sl2[j] = sl[j]
      BY <1>3
    <3>2. rank[j] \in 1 .. n /\ rank[j] # 1
      BY <2>1 DEF Chain
    <3>3. rank[j] > rank[fh]
      BY <1>1, <2>1, <3>2
    <3>4. rank2[j] = rank[j] - 1
      BY <3>3
    <3>. QED
      BY <3>1, <3>4
  <2>3. Chain(sl2, F \ {fh}, n - 1, sl[fh].next, rank2)
    <3> HIDE DEF sl2, rank2, F, n, Rests
    <3>. QED
      BY <1>2, <1>9, <2>1, <2>2, ChainPop, ZenonT(60)
  <2>4. F \ {fh} = Slots \ (A \cup {fh})
    OBVIOUS
  <2>5. n - 1 = Capacity - Cardinality(A \cup {fh})
    <3>1. Cardinality(A) \in Nat
      BY <1>2, SlotsFinite
    <3>. QED
      BY <1>11, <3>1, BookAssumption
  <2>. QED
    BY <2>3, <2>4, <2>5
<1>13. Store(sl2, A \cup {fh}, sl[fh].next, PutLevel(lv, side, tick, level2), pos2, acc2, rank2)
  <2>1. /\ A \cup {fh} = (S \cup {fh}) \cup (A \ S)
        /\ (S \cup {fh}) \cap (A \ S) = {}
        /\ A \cup {fh} \in SUBSET Slots
    BY <1>1, <1>2, <1>3
  <2>2. S = Members(sl, A, side, tick)
    OBVIOUS
  <2> HIDE DEF sl2, pos2, acc2, rank2, S, level2
  <2>. QED
    BY <1>6, <1>7, <1>8, <1>9, <1>10, <1>11, <1>12, <2>1, <2>2, StoreUpdate
<1>14. \A j \in Slots : sl2[j].id = IF j = fh THEN order.id ELSE sl[j].id
  <2> TAKE j \in Slots
  <2>1. CASE j = fh
    BY <2>1, <1>5 DEF Orders
  <2>2. CASE j # fh
    BY <2>2, <1>2 DEF Orders
  <2>. QED
    BY <2>1, <2>2
<1>15. ~IsEmpty(level2)
  BY <1>1 DEF IsEmpty
<1> HIDE DEF sl2, level2, pos2, acc2, rank2
<1>16. SameIds(sl, sl2, A) /\ sl2[fh].id = order.id
  BY <1>1, <1>14 DEF SameIds, Store
<1>. QED
  BY <1>1, <1>4, <1>13, <1>15, <1>16 DEF Rested

\* Relinking a slot keeps it what it is.
LEMMA RelinkedNext ==
  ASSUME NEW o \in Orders, NEW w \in Words, NEW r, r = [o EXCEPT !.next = w]
  PROVE  /\ r \in Orders /\ (o \in Resting => r \in Resting)
         /\ r.side = o.side /\ r.price = o.price /\ r.id = o.id
BY DEF Orders, Resting

\* The same for the link back.
LEMMA RelinkedPrev ==
  ASSUME NEW o \in Orders, NEW w \in Words, NEW r, r = [o EXCEPT !.prev = w]
  PROVE  /\ r \in Orders /\ (o \in Resting => r \in Resting)
         /\ r.side = o.side /\ r.price = o.price /\ r.id = o.id
BY DEF Orders, Resting

\* A freed slot is of the slot type.
LEMMA FreedType ==
  ASSUME NEW link \in Words
  PROVE  FreedSlot(link) \in Orders /\ FreedSlot(link).next = link
BY DEF FreedSlot, Orders

\* The slots after RemoveOrder, with slot i freed in front of the free list.
Released(rem, i, fh) == [rem.slot EXCEPT ![i] = FreedSlot(fh)]

\* rem is what RemoveOrder makes of the slots and of the level of the live order in slot i.
Leaves(sl, A, lv, i, side, tick, rem) ==
  /\ i \in A /\ side = sl[i].side /\ tick = sl[i].price - MinPrice
  /\ rem = RemoveOrder(lv[side][tick], sl, i)

\* An order leaves its level, and its slot goes to the front of the free list.
LEMMA StoreRemove ==
  ASSUME NEW sl, NEW A, NEW fh, NEW lv, NEW pos, NEW acc, NEW rank,
         Store(sl, A, fh, lv, pos, acc, rank),
         NEW i, NEW side, NEW tick, NEW rem, Leaves(sl, A, lv, i, side, tick, rem)
  PROVE  /\ SameIds(sl, Released(rem, i, fh), A \ {i})
         /\ \E pos2, acc2, rank2 :
              Store(Released(rem, i, fh), A \ {i}, i,
                    PutLevel(lv, side, tick, rem.level), pos2, acc2, rank2)
<1>1. PICK p, x, q, S, level :
        /\ p = sl[i].prev /\ x = sl[i].next /\ q = sl[i].quantity
        /\ S = Members(sl, A, side, tick) /\ level = lv[side][tick]
  OBVIOUS
<1>2. /\ i \in A /\ i \in Slots /\ i # INVALID_INDEX /\ i \in Words
      /\ side \in Sides /\ tick \in Ticks /\ i \in S
      /\ q \in 1 .. QuantityModulus - 1
  BY <1>1, LiveSlot DEF Leaves
<1>3. /\ sl \in [Slots -> Orders] /\ A \in SUBSET Slots /\ fh \in Words
      /\ pos \in [Slots -> Nat] /\ acc \in [Slots -> Nat] /\ rank \in [Slots -> Nat]
      /\ Chain(sl, Slots \ A, Capacity - Cardinality(A), fh, rank)
      /\ \A j \in A : sl[j] \in Resting
  BY DEF Store
<1>4. /\ Queue(sl, S, level, pos, acc)
      /\ S \in SUBSET Slots /\ S \in SUBSET A /\ level \in Levels
      /\ level.order_count \in Nat /\ level.total_quantity \in Nat
      /\ \A j \in S : sl[j].quantity \in Nat
      /\ level.head \in S /\ level.tail \in S
  BY <1>1, <1>2, LevelFacts
<1>5. /\ p \in S \cup {INVALID_INDEX} /\ x \in S \cup {INVALID_INDEX}
      /\ p \in Words /\ x \in Words
  <2>1. sl[i] \in Orders /\ sl[i] \in Resting
    BY <1>2, <1>3
  <2>2. p \in Words /\ x \in Words
    BY <1>1, <2>1 DEF Orders, Resting
  <2>3. p \in S \cup {INVALID_INDEX} /\ x \in S \cup {INVALID_INDEX}
    BY <1>1, <1>2, <1>4 DEF Queue, Chain, Backward
  <2>. QED
    BY <2>2, <2>3
<1>6. /\ rem = RemoveOrder(level, sl, i)
      /\ rem.level = [head |-> IF p = INVALID_INDEX THEN x ELSE level.head,
                      tail |-> IF x = INVALID_INDEX THEN p ELSE level.tail,
                      total_quantity |-> level.total_quantity - q,
                      order_count |-> level.order_count - 1]
      /\ rem.slot = [j \in Slots |->
           IF j = i THEN [sl[i] EXCEPT !.prev = INVALID_INDEX, !.next = INVALID_INDEX]
           ELSE IF j = p THEN [sl[j] EXCEPT !.next = x]
           ELSE IF j = x THEN [sl[j] EXCEPT !.prev = p]
           ELSE sl[j]]
  <2>1. rem = RemoveOrder(level, sl, i)
    BY <1>1 DEF Leaves
  <2>2. DOMAIN sl = Slots
    BY <1>3
  <2>. QED
    BY <1>1, <2>1, <2>2 DEF RemoveOrder
<1>7. PICK sl2 : sl2 = Released(rem, i, fh)
  OBVIOUS
<1>8. /\ \A j \in Slots \ {i} : sl2[j] = rem.slot[j]
      /\ sl2[i] = FreedSlot(fh)
      /\ sl2 = [j \in Slots |-> sl2[j]]
  <2>1. DOMAIN rem.slot = Slots
    BY <1>6
  <2>. QED
    BY <1>2, <1>7, <2>1 DEF Released
<1>9. \A j \in Slots \ {i} : sl2[j] = IF j = p THEN [sl[j] EXCEPT !.next = x]
                                      ELSE IF j = x THEN [sl[j] EXCEPT !.prev = p]
                                      ELSE sl[j]
  BY <1>6, <1>8
<1>10. \A j \in Slots \ {i} :
        /\ sl2[j] \in Orders /\ (sl[j] \in Resting => sl2[j] \in Resting)
        /\ sl2[j].side = sl[j].side /\ sl2[j].price = sl[j].price /\ sl2[j].id = sl[j].id
  <2> TAKE j \in Slots \ {i}
  <2>1. PICK o, r : o = sl[j] /\ r = sl2[j]
    OBVIOUS
  <2>2. /\ o \in Orders
        /\ r = IF j = p THEN [o EXCEPT !.next = x]
               ELSE IF j = x THEN [o EXCEPT !.prev = p] ELSE o
    BY <1>3, <1>9, <2>1
  <2>3. CASE r = [o EXCEPT !.next = x]
    <3>1. /\ r \in Orders /\ (o \in Resting => r \in Resting)
          /\ r.side = o.side /\ r.price = o.price /\ r.id = o.id
      BY <1>5, <2>2, <2>3, RelinkedNext
    <3>. QED
      BY <2>1, <3>1, Zenon
  <2>4. CASE r = [o EXCEPT !.prev = p]
    <3>1. /\ r \in Orders /\ (o \in Resting => r \in Resting)
          /\ r.side = o.side /\ r.price = o.price /\ r.id = o.id
      BY <1>5, <2>2, <2>4, RelinkedPrev
    <3>. QED
      BY <2>1, <3>1, Zenon
  <2>5. CASE r = o
    BY <2>1, <2>2, <2>5, Zenon
  <2>. QED
    BY <2>2, <2>3, <2>4, <2>5
<1>11. sl2 \in [Slots -> Orders]
  <2>1. sl2[i] \in Orders
    BY <1>3, <1>8, FreedType
  <2>2. \A j \in Slots : sl2[j] \in Orders
    BY <1>10, <2>1
  <2>. QED
    BY <1>8, <2>2
<1>12. \A j \in S \ {i} : /\ sl2[j] \in Resting
                          /\ sl2[j].side = side /\ sl2[j].price = MinPrice + tick
  <2> TAKE j \in S \ {i}
  <2>1. sl[j] \in Resting /\ sl[j].side = side /\ sl[j].price = MinPrice + tick
    BY <1>1, <1>3 DEF Members
  <2>2. j \in Slots \ {i}
    BY <1>4
  <2>. QED
    BY <1>10, <2>1, <2>2, Zenon
<1>13. PICK pos2, acc2, rank2 :
        /\ pos2 = [j \in Slots |-> IF j \in S /\ pos[j] > pos[i] THEN pos[j] - 1 ELSE pos[j]]
        /\ acc2 = [j \in Slots |-> IF j \in S /\ pos[j] > pos[i] THEN acc[j] - q ELSE acc[j]]
        /\ rank2 = [j \in Slots |-> IF j = i THEN 1 ELSE rank[j] + 1]
  OBVIOUS
<1>14. \A j \in Slots \ S : /\ sl2[j] = sl[j] /\ pos2[j] = pos[j] /\ acc2[j] = acc[j]
  <2> TAKE j \in Slots \ S
  <2>1. j # INVALID_INDEX
    BY SlotsFinite
  <2>2. j # i /\ j # p /\ j # x
    BY <1>2, <1>5, <2>1
  <2>3. sl2[j] = sl[j]
    BY <1>9, <2>2
  <2>4. pos2[j] = pos[j] /\ acc2[j] = acc[j]
    BY <1>13
  <2>. QED
    BY <2>3, <2>4
<1>15. \A j \in S \ {i} :
         /\ pos2[j] = IF pos[j] > pos[i] THEN pos[j] - 1 ELSE pos[j]
         /\ acc2[j] = IF pos[j] > pos[i] THEN acc[j] - q ELSE acc[j]
  BY <1>4, <1>13
<1>16. pos2 \in [Slots -> Nat] /\ acc2 \in [Slots -> Nat] /\ rank2 \in [Slots -> Nat]
  <2>1. ASSUME NEW j \in S, pos[j] > pos[i]
        PROVE  pos[j] - 1 \in Nat /\ acc[j] - q \in Nat
    <3>1. pos[j] \in Nat /\ pos[i] \in Nat /\ acc[j] \in Nat /\ acc[i] \in Nat
          /\ sl[j].quantity \in Nat /\ q \in Nat
      BY <1>2, <1>3, <1>4
    <3>2. acc[i] + sl[j].quantity <= acc[j]
      BY <1>2, <1>4, <2>1 DEF Queue, Sums
    <3>3. q <= acc[i]
      BY <1>1, <1>2, <1>3, <1>4, QueueTotal
    <3>. QED
      BY <2>1, <3>1, <3>2, <3>3
  <2>2. ASSUME NEW j \in Slots PROVE pos2[j] \in Nat /\ acc2[j] \in Nat /\ rank2[j] \in Nat
    <3>1. pos[j] \in Nat /\ acc[j] \in Nat /\ rank[j] \in Nat
      BY <1>3
    <3>2. CASE j \in S /\ pos[j] > pos[i]
      BY <1>13, <2>1, <3>1, <3>2
    <3>3. CASE ~(j \in S /\ pos[j] > pos[i])
      BY <1>13, <3>1, <3>3
    <3>. QED
      BY <3>2, <3>3
  <2>. QED
    BY <1>13, <2>2
<1>17. Queue(sl2, S \ {i}, rem.level, pos2, acc2)
  <2>1. \A j \in S \ {i} : sl2[j] = RemoveOrder(level, sl, i).slot[j]
    BY <1>4, <1>6, <1>8
  <2>2. \A j \in S \ {i} :
          /\ pos2[j] = IF pos[j] > pos[i] THEN pos[j] - 1 ELSE pos[j]
          /\ acc2[j] = IF pos[j] > pos[i] THEN acc[j] - sl[i].quantity ELSE acc[j]
    BY <1>1, <1>15
  <2>3. Queue(sl2, S \ {i}, RemoveOrder(level, sl, i).level, pos2, acc2)
    BY <1>2, <1>3, <1>4, <1>16, <2>1, <2>2, QueueRemove, ZenonT(40)
  <2>. QED
    BY <1>6, <2>3
<1>18. /\ Cardinality(A \ {i}) = Cardinality(A) - 1
       /\ Cardinality(A) \in Nat
       /\ rem.level \in Levels
  <2>1. Cardinality(A \ {i}) = Cardinality(A) - 1 /\ Cardinality(A) \in Nat
    BY <1>2, <1>3, CountChanges
  <2>2. S \ {i} \in SUBSET Slots
    BY <1>4
  <2>3. rem.level.order_count \in 0 .. Capacity
    BY <1>17, <2>2, SlotsFinite DEF Queue
  <2>4. q <= acc[i] /\ acc[i] <= level.total_quantity /\ acc[i] \in Nat
    BY <1>1, <1>2, <1>3, <1>4, QueueTotal
  <2>5. level.total_quantity - q \in Nat
    BY <1>2, <1>4, <2>4
  <2>7. level.head \in Words /\ level.tail \in Words
    BY <1>4 DEF Levels
  <2>8. rem.level.order_count = level.order_count - 1
    BY <1>6
  <2>9. PICK h \in Words, l \in Words :
          /\ h = IF p = INVALID_INDEX THEN x ELSE level.head
          /\ l = IF x = INVALID_INDEX THEN p ELSE level.tail
    BY <1>5, <2>7
  <2>10. PICK t \in Nat, c \in 0 .. Capacity : t = level.total_quantity - q /\ c = level.order_count - 1
    BY <2>3, <2>5, <2>8
  <2>11. rem.level = [head |-> h, tail |-> l, total_quantity |-> t, order_count |-> c]
    BY <1>6, <2>9, <2>10
  <2>12. rem.level \in Levels
    BY <2>11 DEF Levels
  <2>. QED
    BY <2>1, <2>12
<1>19. Chain(sl2, Slots \ (A \ {i}), Capacity - Cardinality(A \ {i}), i, rank2)
  <2>0. PICK F, n : F = Slots \ A /\ n = Capacity - Cardinality(A)
    OBVIOUS
  <2>1. /\ F \in SUBSET Slots /\ i \in Slots \ F /\ n \in Nat
        /\ Chain(sl, F, n, fh, rank)
    BY <1>2, <1>3, <2>0, FreeHead
  <2>2. Chain(sl2, F, n, fh, rank)
    <3>1. \A j \in F : sl2[j].next = sl[j].next /\ rank[j] = rank[j]
      BY <1>4, <1>14, <2>0
    <3>. QED
      BY <2>1, <3>1, ChainFrame
  <2>3. /\ sl2[i].next = fh /\ rank2[i] = 1
        /\ \A j \in F : rank2[j] = rank[j] + 1
    BY <1>2, <1>3, <1>8, <1>13, <2>0, FreedType
  <2>4. Chain(sl2, F \cup {i}, n + 1, i, rank2)
    BY <1>3, <1>16, <2>1, <2>2, <2>3, ChainPush
  <2>5. F \cup {i} = Slots \ (A \ {i})
    BY <1>2, <2>0
  <2>6. n + 1 = Capacity - Cardinality(A \ {i})
    BY <1>18, <2>0, BookAssumption
  <2>. QED
    BY <2>4, <2>5, <2>6
<1>20. Store(sl2, A \ {i}, i, PutLevel(lv, side, tick, rem.level), pos2, acc2, rank2)
  <2>1. /\ A \ {i} = (S \ {i}) \cup (A \ S)
        /\ (S \ {i}) \cap (A \ S) = {}
        /\ A \ {i} \in SUBSET Slots
    BY <1>2, <1>3, <1>4
  <2>2. S = Members(sl, A, side, tick)
    BY <1>1
  <2>3. \A j \in A \ S : sl2[j] = sl[j] /\ pos2[j] = pos[j] /\ acc2[j] = acc[j]
    BY <1>3, <1>14
  <2>. QED
    BY <1>2, <1>11, <1>12, <1>16, <1>17, <1>18, <1>19, <2>1, <2>2, <2>3, StoreUpdate
<1>21. \A j \in A \ {i} : sl2[j].id = sl[j].id
  BY <1>3, <1>10
<1>22. SameIds(sl, Released(rem, i, fh), A \ {i})
  BY <1>7, <1>21 DEF SameIds
<1>. QED
  BY <1>7, <1>20, <1>22

\* The slots after the chain S, which ends at tail, is spliced in front of fh.
Spliced(sl, S, tail, fh) ==
  [j \in Slots |-> IF j \in S THEN FreedSlot(IF j = tail THEN fh ELSE sl[j].next) ELSE sl[j]]

\* A whole queue goes to the front of the free list in one splice.
LEMMA StoreSplice ==
  ASSUME NEW sl, NEW A, NEW fh, NEW lv, NEW pos, NEW acc, NEW rank,
         Store(sl, A, fh, lv, pos, acc, rank),
         NEW side \in Sides, NEW tick \in Ticks,
         NEW S, S = Members(sl, A, side, tick),
         NEW level, level = lv[side][tick], ~IsEmpty(level),
         NEW sl2, sl2 = Spliced(sl, S, level.tail, fh)
  PROVE  /\ Cardinality(A \ S) = Cardinality(A) - level.order_count
         /\ \E pos2, acc2, rank2 :
              Store(sl2, A \ S, level.head, PutLevel(lv, side, tick, EmptyLevel), pos2, acc2, rank2)
<1> DEFINE m == level.order_count
           n == Capacity - Cardinality(A)
           F == Slots \ A
           rank2 == [j \in Slots |-> IF j \in S THEN pos[j] ELSE rank[j] + m]
<1>1. /\ sl \in [Slots -> Orders] /\ A \in SUBSET Slots /\ fh \in Words
      /\ pos \in [Slots -> Nat] /\ acc \in [Slots -> Nat] /\ rank \in [Slots -> Nat]
      /\ Chain(sl, F, n, fh, rank)
  BY DEF Store
<1>2. /\ Queue(sl, S, level, pos, acc)
      /\ S \in SUBSET Slots /\ S \in SUBSET A /\ level \in Levels
      /\ m \in Nat /\ m # 0
      /\ level.head \in S /\ level.tail \in S /\ pos[level.tail] = m
  BY LevelFacts
<1>3. m = Cardinality(S) /\ Chain(sl, S, m, level.head, pos)
  BY <1>2 DEF Queue
<1>4. Cardinality(A \ S) = Cardinality(A) - m /\ Cardinality(A) \in Nat /\ n \in Nat
  <2>1. IsFiniteSet(A) /\ Cardinality(A) \in Nat
    BY <1>1, SlotsFinite
  <2>2. A \cap S = S
    BY <1>2
  <2>3. Cardinality(A \ S) = Cardinality(A) - Cardinality(A \cap S)
    BY <2>1, FS_Difference
  <2>. QED
    BY <1>3, <2>1, <2>2, <2>3, FreeHead
<1>5. \A j \in S : j = level.tail <=> pos[j] = m
  BY <1>2, <1>3 DEF Chain
<1>6. \A j \in S : sl2[j] \in Orders /\ sl2[j].next = IF pos[j] = m THEN fh ELSE sl[j].next
  <2> TAKE j \in S
  <2>1. sl[j].next \in Words
    BY <1>1, <1>2 DEF Orders
  <2>2. sl2[j] = FreedSlot(IF pos[j] = m THEN fh ELSE sl[j].next)
    BY <1>2, <1>5 DEF Spliced
  <2>3. (IF pos[j] = m THEN fh ELSE sl[j].next) \in Words
    BY <1>1, <2>1
  <2>. QED
    BY <2>2, <2>3, FreedType
<1>7. \A j \in Slots \ S : sl2[j] = sl[j]
  BY DEF Spliced
<1>8. sl2 \in [Slots -> Orders]
  <2>1. sl2 = [j \in Slots |-> sl2[j]]
    BY DEF Spliced
  <2>. QED
    BY <1>1, <1>6, <1>7, <2>1
<1>9. rank2 \in [Slots -> Nat] /\ (\A j \in S : rank2[j] = pos[j]) /\ (\A j \in F : rank2[j] = rank[j] + m)
  BY <1>1, <1>2
<1>10. Chain(sl2, Slots \ (A \ S), Capacity - Cardinality(A \ S), level.head, rank2)
  <2>1. Chain(sl2, F, n, fh, rank)
    <3>1. \A j \in F : sl2[j].next = sl[j].next /\ rank[j] = rank[j]
      BY <1>2, <1>7
    <3> HIDE DEF F, n
    <3>. QED
      BY <1>1, <3>1, ChainFrame
  <2>2. F \in SUBSET Slots /\ S \cap F = {}
    BY <1>2
  <2>3. \A j \in S : /\ rank2[j] = pos[j]
                     /\ sl2[j].next = IF pos[j] = m THEN fh ELSE sl[j].next
    BY <1>6, <1>9
  <2>4. Chain(sl2, S \cup F, m + n, level.head, rank2)
    <3>1. /\ S \in SUBSET Slots /\ F \in SUBSET Slots /\ S \cap F = {}
          /\ m \in Nat /\ n \in Nat
          /\ pos \in [Slots -> Nat] /\ rank \in [Slots -> Nat] /\ rank2 \in [Slots -> Nat]
          /\ Chain(sl, S, m, level.head, pos) /\ Chain(sl2, F, n, fh, rank)
          /\ \A j \in F : rank2[j] = rank[j] + m
          /\ m # 0
      BY <1>1, <1>2, <1>3, <1>4, <1>9, <2>1, <2>2
    <3> HIDE DEF F, n, m, rank2
    <3>2. Joined(sl, S, m, level.head, pos, sl2, F, n, fh, rank, rank2)
      BY <3>1, <2>3 DEF Joined
    <3>3. Chain(sl2, S \cup F, m + n, IF m = 0 THEN fh ELSE level.head, rank2)
      BY <3>2, ChainConcat
    <3>. QED
      BY <3>1, <3>3
  <2>5. S \cup F = Slots \ (A \ S)
    BY <1>1, <1>2
  <2>6. m + n = Capacity - Cardinality(A \ S)
    BY <1>2, <1>4, BookAssumption
  <2>. QED
    BY <1>2, <2>4, <2>5, <2>6
<1>11. Queue(sl2, {}, EmptyLevel, pos, acc) /\ EmptyLevel \in Levels
  <2>1. EmptyLevel.order_count = 0 /\ EmptyLevel.head = INVALID_INDEX /\ EmptyLevel \in Levels
    BY BookAssumption DEF EmptyLevel, Levels, Words
  <2>. QED
    BY <2>1, FS_EmptySet DEF Queue, Chain, Backward, Sums
<1>12. Store(sl2, A \ S, level.head, PutLevel(lv, side, tick, EmptyLevel), pos, acc, rank2)
  <2>1. /\ A \ S = {} \cup (A \ S) /\ {} \cap (A \ S) = {}
        /\ A \ S \in SUBSET Slots /\ level.head \in Words
        /\ \A j \in A \ S : sl2[j] = sl[j] /\ pos[j] = pos[j] /\ acc[j] = acc[j]
    BY <1>1, <1>2, <1>7, SlotsFinite
  <2>2. PICK S2 : S2 = {}
    OBVIOUS
  <2>3. /\ A \ S = S2 \cup (A \ S) /\ S2 \cap (A \ S) = {}
        /\ Queue(sl2, S2, EmptyLevel, pos, acc)
        /\ \A j \in S2 : sl2[j] \in Resting /\ sl2[j].side = side /\ sl2[j].price = MinPrice + tick
    BY <1>11, <2>2
  <2> HIDE DEF rank2
  <2>. QED
    BY <1>1, <1>8, <1>9, <1>10, <1>11, <2>1, <2>3, StoreUpdate
<1> HIDE DEF rank2
<1>. QED
  BY <1>4, <1>12

\* The slots after slot i has lost d of its quantity.
Taken(sl, i, d) == [sl EXCEPT ![i].quantity = @ - d]

\* A partial fill of the first order of a level.
LEMMA StoreShrink ==
  ASSUME NEW sl, NEW A, NEW fh, NEW lv, NEW pos, NEW acc, NEW rank,
         Store(sl, A, fh, lv, pos, acc, rank),
         NEW side \in Sides, NEW tick \in Ticks,
         NEW level, level = lv[side][tick], ~IsEmpty(level),
         NEW i, i = level.head,
         NEW d \in Nat, d < sl[i].quantity,
         NEW sl2, sl2 = Taken(sl, i, d)
  PROVE  /\ SameIds(sl, sl2, Slots)
         /\ \E pos2, acc2, rank2 :
              Store(sl2, A, fh, PutLevel(lv, side, tick, ShrinkLevel(level, d)), pos2, acc2, rank2)
<1>1. PICK S : S = Members(sl, A, side, tick)
  OBVIOUS
<1>2. PICK acc2 : acc2 = [j \in Slots |-> IF j \in S THEN acc[j] - d ELSE acc[j]]
  OBVIOUS
<1>3. PICK level2 : level2 = ShrinkLevel(level, d)
  OBVIOUS
<1>4. /\ sl \in [Slots -> Orders] /\ A \in SUBSET Slots /\ fh \in Words
      /\ pos \in [Slots -> Nat] /\ acc \in [Slots -> Nat] /\ rank \in [Slots -> Nat]
      /\ Chain(sl, Slots \ A, Capacity - Cardinality(A), fh, rank)
      /\ \A j \in A : sl[j] \in Resting
  BY DEF Store
<1>5. /\ Queue(sl, S, level, pos, acc)
      /\ S \in SUBSET Slots /\ S \in SUBSET A /\ level \in Levels
      /\ level.order_count \in Nat /\ level.total_quantity \in Nat
      /\ \A j \in S : sl[j].quantity \in Nat
      /\ level.head \in S /\ pos[level.head] = 1
      /\ sl[level.head].quantity <= level.total_quantity
  BY <1>1, LevelFacts
<1>6. i \in S /\ i \in Slots /\ i \in A /\ sl[i] \in Orders /\ sl[i] \in Resting /\ sl[i].quantity \in Nat
  <2>1. i \in S /\ i \in Slots /\ i \in A
    BY <1>5, Zenon
  <2>. QED
    BY <1>4, <1>5, <2>1
<1>7. /\ sl2[i] = [sl[i] EXCEPT !.quantity = @ - d]
      /\ \A j \in Slots \ {i} : sl2[j] = sl[j]
      /\ sl2 = [j \in Slots |-> sl2[j]]
  BY <1>4, <1>6 DEF Taken
<1>8. sl[i].quantity - d \in 1 .. QuantityModulus - 1 /\ sl[i].quantity \in 1 .. QuantityModulus - 1
  <2>1. sl[i].quantity \in 1 .. QuantityModulus - 1
    BY <1>6 DEF Resting
  <2>. QED
    BY <2>1, <1>6, BookAssumption
<1>9. /\ sl2[i] \in Orders /\ sl2[i] \in Resting /\ sl2[i].id = sl[i].id
      /\ sl2[i].side = sl[i].side /\ sl2[i].price = sl[i].price /\ sl2[i].next = sl[i].next
  <2>1. PICK o, q : o = sl[i] /\ q = sl[i].quantity - d
    OBVIOUS
  <2>2. o \in Orders /\ o \in Resting /\ q \in 1 .. QuantityModulus - 1
        /\ sl2[i] = [o EXCEPT !.quantity = q]
    BY <1>6, <1>7, <1>8, <2>1
  <2>3. [o EXCEPT !.quantity = q] \in Resting
    BY <2>2 DEF Resting
  <2>4. [o EXCEPT !.quantity = q] \in Orders
    BY <2>2, BookAssumption DEF Orders
  <2>5. /\ [o EXCEPT !.quantity = q].id = o.id /\ [o EXCEPT !.quantity = q].side = o.side
        /\ [o EXCEPT !.quantity = q].price = o.price /\ [o EXCEPT !.quantity = q].next = o.next
    BY <2>2 DEF Orders
  <2>. QED
    BY <2>1, <2>2, <2>3, <2>4, <2>5, Zenon
<1>10. sl2 \in [Slots -> Orders]
  BY <1>4, <1>7, <1>9
<1>11. \A j \in S : /\ sl2[j] \in Resting
                    /\ sl2[j].side = side /\ sl2[j].price = MinPrice + tick
  <2> TAKE j \in S
  <2>1. sl[j] \in Resting /\ sl[j].side = side /\ sl[j].price = MinPrice + tick
    BY <1>1, <1>4 DEF Members
  <2>2. CASE j = i
    BY <1>9, <2>1, <2>2, Zenon
  <2>3. CASE j # i
    BY <1>5, <1>7, <2>1, <2>3
  <2>. QED
    BY <2>2, <2>3
<1>12. \A j \in S : acc[j] - d \in Nat
  <2> TAKE j \in S
  <2>1. acc[j] \in Nat /\ acc[i] \in Nat /\ sl[j].quantity \in Nat /\ acc[i] = sl[i].quantity
    BY <1>4, <1>5, <1>6 DEF Queue, Sums
  <2>2. CASE pos[j] = 1
    <3>1. j = i
      BY <1>5, <2>2 DEF Queue, Chain
    <3>. QED
      BY <3>1, <2>1, <1>6
  <2>3. CASE pos[j] # 1
    <3>1. pos[i] < pos[j]
      BY <1>4, <1>5, <2>3 DEF Queue, Chain
    <3>2. acc[i] + sl[j].quantity <= acc[j]
      BY <1>5, <1>6, <3>1 DEF Queue, Sums
    <3>. QED
      BY <1>6, <2>1, <3>2
  <2>. QED
    BY <2>2, <2>3
<1>13. acc2 \in [Slots -> Nat] /\ \A j \in S : acc2[j] = acc[j] - d
  BY <1>2, <1>4, <1>5, <1>12
<1>14. Queue(sl2, S, level2, pos, acc2)
  <2>1. \A j \in S :
          /\ sl2[j].next = sl[j].next /\ sl2[j].prev = sl[j].prev
          /\ sl2[j].quantity = IF j = level.head THEN sl[j].quantity - d ELSE sl[j].quantity
          /\ acc2[j] = acc[j] - d
    <3>1. sl2[i].prev = sl[i].prev /\ sl2[i].quantity = sl[i].quantity - d
      BY <1>6, <1>7 DEF Orders
    <3> TAKE j \in S
    <3>2. acc2[j] = acc[j] - d
      BY <1>13
    <3>3. CASE j = i
      BY <1>9, <3>1, <3>2, <3>3
    <3>4. CASE j # i
      <4>1. sl2[j] = sl[j]
        BY <1>5, <1>7, <3>4
      <4>. QED
        BY <3>2, <3>4, <4>1
    <3>. QED
      BY <3>3, <3>4
  <2>2. d <= sl[level.head].quantity
    BY <1>6
  <2>3. Queue(sl2, S, ShrinkLevel(level, d), pos, acc2)
    BY <1>4, <1>5, <1>13, <2>1, <2>2, QueueShrink
  <2>. QED
    BY <1>3, <2>3
<1>15. level2 \in Levels
  <2>1. level.total_quantity - d \in Nat
    BY <1>5, <1>6
  <2>. QED
    BY <1>3, <1>5, <2>1 DEF Levels, ShrinkLevel
<1>16. Chain(sl2, Slots \ A, Capacity - Cardinality(A), fh, rank)
  <2>1. \A j \in Slots \ A : sl2[j].next = sl[j].next /\ rank[j] = rank[j]
    BY <1>6, <1>7
  <2>. QED
    BY <1>4, <2>1, ChainFrame
<1>17. Store(sl2, A, fh, PutLevel(lv, side, tick, level2), pos, acc2, rank)
  <2>1. /\ A = S \cup (A \ S) /\ S \cap (A \ S) = {}
        /\ \A j \in A \ S : sl2[j] = sl[j] /\ pos[j] = pos[j] /\ acc2[j] = acc[j]
    BY <1>2, <1>4, <1>5, <1>6, <1>7
  <2>2. S = Members(sl, A, side, tick)
    BY <1>1
  <2>. QED
    BY <1>4, <1>10, <1>11, <1>13, <1>14, <1>15, <1>16, <2>1, <2>2, StoreUpdate
<1>18. SameIds(sl, sl2, Slots)
  <2> SUFFICES ASSUME NEW j \in Slots PROVE sl2[j].id = sl[j].id
    BY DEF SameIds
  <2>. QED
    BY <1>7, <1>9
<1>19. \E pos2, acc3, rank2 :
         Store(sl2, A, fh, PutLevel(lv, side, tick, level2), pos2, acc3, rank2)
  BY <1>17
<1>. QED
  BY <1>3, <1>18, <1>19

-----------------------------------------------------------------------------
(***************************************************************************)
(* What validate_book computes: the walk along a list, the quantities it adds *)
(* up, the orders of all levels and the entries of the map.  Each is a     *)
(* recursive function, and the lists give a function that satisfies the same *)
(* equations.                                                              *)
(***************************************************************************)
\* A list has a slot at each position.
LEMMA ChainOnto ==
  ASSUME NEW S \in SUBSET Slots, NEW n \in Nat, NEW first, NEW sl, NEW pos \in [Slots -> Nat],
         Chain(sl, S, n, first, pos)
  PROVE  \A m \in 0 .. n - 1 : \E i \in S : pos[i] = m + 1
<1> DEFINE B == {m \in 0 .. n - 1 : \A i \in S : pos[i] # m + 1}
<1>1. SUFFICES ASSUME B # {} PROVE FALSE
  OBVIOUS
<1>2. Min(B) \in B /\ \A y \in B : Min(B) <= y
  <2>1. B \in SUBSET Nat
    OBVIOUS
  <2> HIDE DEF B
  <2>. QED
    BY <1>1, <2>1, MinOfNat
<1>3. PICK m : m = Min(B)
  OBVIOUS
<1> HIDE DEF B
<1>4. m \in 0 .. n - 1 /\ (\A i \in S : pos[i] # m + 1) /\ \A y \in B : m <= y
  BY <1>2, <1>3 DEF B
<1>5. CASE m = 0
  BY <1>4, <1>5 DEF Chain
<1>6. CASE m # 0
  <2>1. m - 1 \in 0 .. n - 1 /\ m - 1 \notin B
    BY <1>4, <1>6
  <2>2. PICK i \in S : pos[i] = m
    BY <2>1, <1>4 DEF B
  <2>3. pos[i] # n
    BY <2>2, <1>4
  <2>4. sl[i].next \in S /\ pos[sl[i].next] = m + 1
    BY <2>2, <2>3 DEF Chain
  <2>. QED
    BY <2>4, <1>4
<1>. QED
  BY <1>5, <1>6

\* The slots met from the start of a list, and INVALID_INDEX after its end.
LEMMA HopsChain ==
  ASSUME NEW S \in SUBSET Slots, NEW n \in 0 .. Capacity, NEW first, NEW pos \in [Slots -> Nat],
         Chain(slot, S, n, first, pos)
  PROVE  \A m \in 0 .. Capacity :
           IF m < n THEN Hops(first)[m] \in S /\ pos[Hops(first)[m]] = m + 1
           ELSE Hops(first)[m] = INVALID_INDEX
<1> DEFINE g == [m \in 0 .. Capacity |-> IF m < n THEN CHOOSE i \in S : pos[i] = m + 1
                                         ELSE INVALID_INDEX]
<1>1. \A m \in 0 .. n - 1 : \E i \in S : pos[i] = m + 1
  BY ChainOnto
<1>2. \A m \in 0 .. Capacity : IF m < n THEN g[m] \in S /\ pos[g[m]] = m + 1
                               ELSE g[m] = INVALID_INDEX
  BY <1>1, BookAssumption
<1>3. INVALID_INDEX \notin Slots
  BY BookAssumption DEF Slots
<1>4. g = [m \in 0 .. Capacity |-> IF m = 0 THEN first
             ELSE IF g[m - 1] \in Slots THEN slot[g[m - 1]].next ELSE INVALID_INDEX]
  <2>1. ASSUME NEW m \in 0 .. Capacity
        PROVE  g[m] = IF m = 0 THEN first
             ELSE IF g[m - 1] \in Slots THEN slot[g[m - 1]].next ELSE INVALID_INDEX
    <3> HIDE DEF g
    <3>1. CASE m = 0 /\ n = 0
      BY <3>1, <1>2 DEF Chain
    <3>2. CASE m = 0 /\ n # 0
      BY <3>2, <1>2 DEF Chain
    <3>3. CASE m # 0
      <4>1. m - 1 \in 0 .. Capacity /\ (m - 1) + 1 = m
        BY <3>3, BookAssumption
      <4>2. CASE m < n
        <5>1. g[m - 1] \in S /\ pos[g[m - 1]] = m /\ g[m] \in S /\ pos[g[m]] = m + 1
          BY <4>1, <4>2, <1>2
        <5>2. slot[g[m - 1]].next \in S /\ pos[slot[g[m - 1]].next] = m + 1
          BY <4>2, <5>1 DEF Chain
        <5>3. slot[g[m - 1]].next = g[m]
          BY <5>1, <5>2 DEF Chain
        <5>. QED
          BY <3>3, <5>1, <5>3
      <4>3. CASE m = n
        <5>1. g[m - 1] \in S /\ pos[g[m - 1]] = m /\ g[m] = INVALID_INDEX
          BY <4>1, <4>3, <1>2
        <5>2. slot[g[m - 1]].next = INVALID_INDEX
          BY <4>3, <5>1 DEF Chain
        <5>. QED
          BY <3>3, <5>1, <5>2
      <4>4. CASE m > n
        <5>1. g[m - 1] = INVALID_INDEX /\ g[m] = INVALID_INDEX
          BY <4>1, <4>4, <1>2
        <5>. QED
          BY <3>3, <5>1, <1>3
      <4>. QED
        BY <4>2, <4>3, <4>4
    <3>. QED
      BY <3>1, <3>2, <3>3
  <2>2. g = [m \in 0 .. Capacity |-> g[m]]
    OBVIOUS
  <2> HIDE DEF g
  <2>. QED
    BY <2>1, <2>2, Zenon
<1>5. PICK h : h = [m \in 0 .. Capacity |-> IF m = 0 THEN first
             ELSE IF h[m - 1] \in Slots THEN slot[h[m - 1]].next ELSE INVALID_INDEX]
  <2> HIDE DEF g
  <2>. QED
    BY <1>4
<1>6. Hops(first) = [m \in 0 .. Capacity |-> IF m = 0 THEN first
             ELSE IF Hops(first)[m - 1] \in Slots THEN slot[Hops(first)[m - 1]].next
             ELSE INVALID_INDEX]
  BY <1>5, Zenon DEF Hops
<1> DEFINE B == {m \in 0 .. Capacity : Hops(first)[m] # g[m]}
<1>7. B = {}
  <2>1. SUFFICES ASSUME B # {} PROVE FALSE
    OBVIOUS
  <2>2. Min(B) \in B /\ \A y \in B : Min(B) <= y
    <3>1. B \in SUBSET Nat
      BY BookAssumption
    <3> HIDE DEF B
    <3>. QED
      BY <2>1, <3>1, MinOfNat
  <2>3. PICK m : m = Min(B)
    OBVIOUS
  <2>4. m \in 0 .. Capacity /\ Hops(first)[m] # g[m] /\ \A y \in B : m <= y
    <3> HIDE DEF g
    <3>. QED
      BY <2>2, <2>3
  <2> HIDE DEF g
  <2>5. m # 0
    BY <2>4, <1>4, <1>6
  <2>6. m - 1 \in 0 .. Capacity /\ ~(m <= m - 1)
    BY <2>4, <2>5, BookAssumption
  <2>7. Hops(first)[m - 1] = g[m - 1]
    BY <2>4, <2>6
  <2>8. Hops(first)[m] = IF Hops(first)[m - 1] \in Slots THEN slot[Hops(first)[m - 1]].next
             ELSE INVALID_INDEX
    BY <2>4, <2>5, <1>6
  <2>9. g[m] = IF g[m - 1] \in Slots THEN slot[g[m - 1]].next ELSE INVALID_INDEX
    BY <2>4, <2>5, <1>4
  <2>. QED
    BY <2>4, <2>7, <2>8, <2>9
<1> HIDE DEF g
<1>. QED
  BY <1>2, <1>7

\* w is the list of the n slots of S in the order of pos.
Lists(w, S, n, pos) ==
  /\ DOMAIN w = 1 .. n /\ Len(w) = n
  /\ \A k \in 1 .. n : w[k] \in S /\ pos[w[k]] = k

\* Walk meets the slots of a list in their order, and no other.
LEMMA WalkChain ==
  ASSUME NEW S \in SUBSET Slots, NEW n \in 0 .. Capacity, NEW first, NEW pos \in [Slots -> Nat],
         Chain(slot, S, n, first, pos)
  PROVE  Lists(Walk(first), S, n, pos)
<1> DEFINE hop == Hops(first)
           ends == {m \in 0 .. Capacity : hop[m] \notin Slots}
<1>1. \A m \in 0 .. Capacity : IF m < n THEN hop[m] \in S /\ pos[hop[m]] = m + 1
                               ELSE hop[m] = INVALID_INDEX
  BY HopsChain
<1>2. INVALID_INDEX \notin Slots
  BY BookAssumption DEF Slots
<1>3. ends = n .. Capacity
  BY <1>1, <1>2, BookAssumption
<1>4. ends # {} /\ Min(ends) = n
  <2>1. n .. Capacity \in SUBSET Nat /\ n \in n .. Capacity /\ \A y \in n .. Capacity : n <= y
    BY BookAssumption
  <2>2. Min(n .. Capacity) = n
    BY <2>1, MinIs
  <2>. QED
    BY <1>3, <2>1, <2>2
<1>5. Walk(first) = [k \in 1 .. n |-> hop[k - 1]]
  BY <1>4, Zenon DEF Walk
<1>6. \A k \in 1 .. n : hop[k - 1] \in S /\ pos[hop[k - 1]] = k
  BY <1>1, BookAssumption
<1> HIDE DEF hop
<1>7. Len([k \in 1 .. n |-> hop[k - 1]]) = n
  OBVIOUS
<1>8. \A k \in 1 .. n : Walk(first)[k] = hop[k - 1]
  BY <1>5
<1>9. DOMAIN Walk(first) = 1 .. n
  BY <1>5
<1>. QED
  BY <1>5, <1>6, <1>7, <1>8, <1>9, Zenon DEF Lists

\* g adds up the quantities of the n slots of w.
Adds(g, w, n) ==
  /\ n \in Nat /\ Len(w) = n /\ g \in [0 .. n -> Nat]
  /\ g[0] = 0 /\ \A k \in 1 .. n : g[k] = g[k - 1] + slot[w[k]].quantity

\* The sum of a walk is what any such sums give.
LEMMA QuantityIs ==
  ASSUME NEW w, NEW n, NEW g, Adds(g, w, n)
  PROVE  QuantityOf(w) = g[n]
<1> USE DEF Adds
<1> DEFINE Step(f) == [k \in 0 .. n |-> IF k = 0 THEN 0 ELSE f[k - 1] + slot[w[k]].quantity]
           q == CHOOSE f : f = Step(f)
<1>1. g = Step(g)
  <2>1. \A k \in 0 .. n : g[k] = IF k = 0 THEN 0 ELSE g[k - 1] + slot[w[k]].quantity
    OBVIOUS
  <2>2. g = [k \in 0 .. n |-> g[k]]
    OBVIOUS
  <2>. QED
    BY <2>1, <2>2, Zenon
<1>2. q = Step(q)
  <2> HIDE DEF Step
  <2>. QED
    BY <1>1
<1>3. QuantityOf(w) = q[n]
  BY Zenon DEF QuantityOf
<1> HIDE DEF q
<1> DEFINE B == {k \in 0 .. n : q[k] # g[k]}
<1>4. B = {}
  <2>1. SUFFICES ASSUME B # {} PROVE FALSE
    OBVIOUS
  <2>2. Min(B) \in B /\ \A y \in B : Min(B) <= y
    <3>1. B \in SUBSET Nat
      OBVIOUS
    <3> HIDE DEF B
    <3>. QED
      BY <2>1, <3>1, MinOfNat
  <2>3. PICK m : m = Min(B)
    OBVIOUS
  <2>4. m \in 0 .. n /\ q[m] # g[m] /\ \A y \in B : m <= y
    BY <2>2, <2>3
  <2>5. CASE m = 0
    BY <2>4, <2>5, <1>2
  <2>6. CASE m # 0
    <3>1. m - 1 \in 0 .. n /\ ~(m <= m - 1) /\ m \in 1 .. n
      BY <2>4, <2>6
    <3>2. q[m - 1] = g[m - 1]
      BY <2>4, <3>1
    <3>3. q[m] = q[m - 1] + slot[w[m]].quantity
      BY <2>4, <2>6, <1>2
    <3>. QED
      BY <2>4, <3>1, <3>2, <3>3
  <2>. QED
    BY <2>5, <2>6
<1>. QED
  BY <1>3, <1>4

\* The walk w meets the slots of S in order and adds up to the level's totals.
WalksLevel(w, S, level, pos) ==
  /\ Len(w) = level.order_count
  /\ \A k \in 1 .. level.order_count :
       /\ w[k] \in S /\ pos[w[k]] = k
       /\ slot[w[k]].prev = IF k = 1 THEN INVALID_INDEX ELSE w[k - 1]
  /\ level.order_count > 0 => level.tail = w[level.order_count]
  /\ level.total_quantity = QuantityOf(w)

\* What a walk from the head of a level meets and adds up.
LEMMA WalkQueue ==
  ASSUME NEW S \in SUBSET Slots, NEW level \in Levels,
         NEW pos \in [Slots -> Nat], NEW acc \in [Slots -> Nat],
         Queue(slot, S, level, pos, acc),
         \A j \in S : slot[j].quantity \in Nat,
         NEW w, w = Walk(level.head)
  PROVE  WalksLevel(w, S, level, pos)
<1> USE DEF WalksLevel
<1> DEFINE n == level.order_count
<1>1. n \in 0 .. Capacity /\ n \in Nat /\ level.total_quantity \in Nat
  BY BookAssumption DEF Levels
<1>2. /\ Chain(slot, S, n, level.head, pos)
      /\ Backward(slot, S, level, pos)
      /\ Sums(slot, S, level, pos, acc)
  BY DEF Queue
<1>3. Len(w) = n /\ \A k \in 1 .. n : w[k] \in S /\ pos[w[k]] = k
  <2>1. PICK first, m : first = level.head /\ m = n
    OBVIOUS
  <2>2. m \in 0 .. Capacity /\ Chain(slot, S, m, first, pos)
    BY <1>1, <1>2, <2>1
  <2>3. Lists(Walk(first), S, m, pos)
    BY <2>2, WalkChain
  <2>4. Lists(w, S, n, pos)
    BY <2>1, <2>3
  <2>. QED
    BY <2>4 DEF Lists
<1>4. ASSUME NEW k \in 1 .. n
      PROVE  slot[w[k]].prev = IF k = 1 THEN INVALID_INDEX ELSE w[k - 1]
  <2>1. CASE k = 1
    BY <2>1, <1>2, <1>3 DEF Backward
  <2>2. CASE k # 1
    <3>1. k - 1 \in 1 .. n
      BY <2>2, <1>1
    <3>2. slot[w[k]].prev \in S /\ pos[slot[w[k]].prev] = k - 1
      BY <2>2, <1>2, <1>3 DEF Backward
    <3>3. w[k - 1] \in S /\ pos[w[k - 1]] = k - 1
      BY <1>3, <3>1
    <3>4. slot[w[k]].prev = w[k - 1]
      BY <1>2, <3>2, <3>3 DEF Chain
    <3>. QED
      BY <2>2, <3>4
  <2>. QED
    BY <2>1, <2>2
<1>5. S = {} <=> n = 0
  BY <1>1, <1>2 DEF Chain
<1>6. n > 0 => level.tail = w[n]
  <2> HAVE n > 0
  <2>1. n \in 1 .. n
    BY <1>1
  <2>2. level.tail \in S /\ pos[level.tail] = n
    BY <1>2, <1>5 DEF Backward
  <2>3. w[n] \in S /\ pos[w[n]] = n
    BY <1>3, <2>1
  <2>. QED
    BY <1>2, <2>2, <2>3 DEF Chain
<1>7. level.total_quantity = QuantityOf(w)
  <2> DEFINE g == [k \in 0 .. n |-> IF k = 0 THEN 0 ELSE acc[w[k]]]
  <2>1. g \in [0 .. n -> Nat]
    BY <1>3
  <2>2. g[0] = 0
    BY <1>1
  <2>3. ASSUME NEW k \in 1 .. n
        PROVE  g[k] = g[k - 1] + slot[w[k]].quantity
    <3>1. w[k] \in S /\ pos[w[k]] = k /\ slot[w[k]].quantity \in Nat
      BY <1>3
    <3>2. CASE k = 1
      BY <3>1, <3>2, <1>1, <1>2, <2>2 DEF Sums
    <3>3. CASE k # 1
      <4>1. k - 1 \in 1 .. n /\ k = (k - 1) + 1
        BY <3>3, <1>1
      <4>2. w[k - 1] \in S /\ pos[w[k - 1]] = k - 1
        BY <1>3, <4>1
      <4>3. acc[w[k]] = acc[w[k - 1]] + slot[w[k]].quantity
        BY <1>2, <3>1, <4>1, <4>2 DEF Sums
      <4>. QED
        BY <4>1, <4>3, <1>1
    <3>. QED
      BY <3>2, <3>3
  <2>4. g[n] = level.total_quantity
    <3>1. CASE n = 0
      BY <3>1, <1>2, <1>5, <2>2 DEF Backward, EmptyLevel
    <3>2. CASE n # 0
      BY <3>2, <1>1, <1>2, <1>5, <1>6 DEF Sums
    <3>. QED
      BY <3>1, <3>2
  <2>5. QuantityOf(w) = g[n]
    <3>1. PICK h, m : h = g /\ m = n
      OBVIOUS
    <3> HIDE DEF g, n
    <3>2. Adds(h, w, m)
      BY <3>1, <1>1, <1>3, <2>1, <2>2, <2>3 DEF Adds
    <3>3. QuantityOf(w) = h[m]
      BY <3>2, QuantityIs
    <3>. QED
      BY <3>1, <3>3
  <2>. QED
    BY <2>4, <2>5
<1>. QED
  BY <1>3, <1>4, <1>6, <1>7

\* The counts of the levels add up to what sums over the first ticks give.
LEMMA RestingCountIs ==
  ASSUME NEW g \in [0 .. PriceRange -> Nat], g[0] = 0,
         \A m \in 1 .. PriceRange :
           g[m] = g[m - 1] + levels["Buy"][m - 1].order_count + levels["Sell"][m - 1].order_count
  PROVE  RestingCount = g[PriceRange]
<1> DEFINE Step(f) ==
      [m \in 0 .. PriceRange |-> IF m = 0 THEN 0
         ELSE f[m - 1] + levels["Buy"][m - 1].order_count + levels["Sell"][m - 1].order_count]
           q == CHOOSE f : f = Step(f)
<1>0. PriceRange \in Nat
  BY Sizes
<1>1. g = Step(g)
  <2>1. \A m \in 0 .. PriceRange : g[m] = IF m = 0 THEN 0
         ELSE g[m - 1] + levels["Buy"][m - 1].order_count + levels["Sell"][m - 1].order_count
    BY <1>0
  <2>2. g = [m \in 0 .. PriceRange |-> g[m]]
    OBVIOUS
  <2>. QED
    BY <2>1, <2>2, Zenon
<1>2. q = Step(q)
  <2> HIDE DEF Step
  <2>. QED
    BY <1>1
<1>3. RestingCount = q[PriceRange]
  BY Zenon DEF RestingCount
<1> HIDE DEF q
<1> DEFINE B == {m \in 0 .. PriceRange : q[m] # g[m]}
<1>4. B = {}
  <2>1. SUFFICES ASSUME B # {} PROVE FALSE
    OBVIOUS
  <2>2. Min(B) \in B /\ \A y \in B : Min(B) <= y
    <3>1. B \in SUBSET Nat
      OBVIOUS
    <3> HIDE DEF B
    <3>. QED
      BY <2>1, <3>1, MinOfNat
  <2>3. PICK m : m = Min(B)
    OBVIOUS
  <2>4. m \in 0 .. PriceRange /\ q[m] # g[m] /\ \A y \in B : m <= y
    BY <2>2, <2>3
  <2>5. CASE m = 0
    BY <2>4, <2>5, <1>2
  <2>6. CASE m # 0
    <3>1. m - 1 \in 0 .. PriceRange /\ ~(m <= m - 1) /\ m \in 1 .. PriceRange
      BY <1>0, <2>4, <2>6
    <3>2. q[m - 1] = g[m - 1]
      BY <2>4, <3>1
    <3>3. q[m] = q[m - 1] + levels["Buy"][m - 1].order_count + levels["Sell"][m - 1].order_count
      BY <2>4, <2>6, <1>2
    <3>. QED
      BY <2>4, <3>1, <3>2, <3>3
  <2>. QED
    BY <2>5, <2>6
<1>. QED
  BY <1>0, <1>3, <1>4

\* Every live slot is counted by the level it rests in, and by no other.
LEMMA RestingCountAll ==
  ASSUME NEW pos, NEW acc, NEW rank,
         Store(slot, allocated, free_head, levels, pos, acc, rank)
  PROVE  RestingCount = Cardinality(allocated)
<1> DEFINE Below(m) == {i \in allocated : slot[i].price < MinPrice + m}
           g == [m \in 0 .. PriceRange |-> Cardinality(Below(m))]
<1>1. /\ allocated \in SUBSET Slots
      /\ \A i \in allocated : slot[i].price \in MinPrice .. MaxPrice /\ slot[i].side \in Sides
      /\ \A i \in allocated : slot[i].price \in Nat
  <2>1. allocated \in SUBSET Slots
    BY DEF Store
  <2>. QED
    BY <2>1, LiveSlot, PriceAssumption
<1>2. \A m \in 0 .. PriceRange : Below(m) \in SUBSET Slots
  BY <1>1
<1>3. g \in [0 .. PriceRange -> Nat]
  BY <1>2, SlotsFinite, FS_CardinalityType
<1>4. g[0] = 0
  BY <1>1, FS_EmptySet, PriceAssumption, Sizes
<1>5. ASSUME NEW m \in 1 .. PriceRange
      PROVE  g[m] = g[m - 1] + levels["Buy"][m - 1].order_count + levels["Sell"][m - 1].order_count
  <2> DEFINE R == Below(m - 1)
             X == Members(slot, allocated, "Buy", m - 1)
             Y == Members(slot, allocated, "Sell", m - 1)
  <2>1. m - 1 \in Ticks /\ m - 1 \in 0 .. PriceRange /\ m \in 0 .. PriceRange
    BY Sizes DEF Ticks
  <2>2. /\ levels["Buy"][m - 1].order_count = Cardinality(X)
        /\ levels["Sell"][m - 1].order_count = Cardinality(Y)
    BY <2>1 DEF Store, Queue, Sides
  <2>3. Below(m) = (R \cup X) \cup Y
    BY <1>1, PriceAssumption, Sizes DEF Members, Sides
  <2>4. R \cap X = {} /\ (R \cup X) \cap Y = {}
    BY <1>1, PriceAssumption, Sizes DEF Members
  <2>5. R \in SUBSET Slots /\ X \in SUBSET Slots /\ Y \in SUBSET Slots /\ R \cup X \in SUBSET Slots
    BY <1>1 DEF Members
  <2> HIDE DEF R, X, Y
  <2>6. /\ IsFiniteSet(R) /\ IsFiniteSet(X) /\ IsFiniteSet(Y) /\ IsFiniteSet(R \cup X)
        /\ Cardinality(R) \in Nat /\ Cardinality(X) \in Nat /\ Cardinality(Y) \in Nat
    BY <2>5, SlotsFinite, FS_CardinalityType
  <2>7. Cardinality(R \cup X) = Cardinality(R) + Cardinality(X)
    <3>1. Cardinality(R \cup X) = Cardinality(R) + Cardinality(X) - Cardinality(R \cap X)
      BY <2>6, FS_Union
    <3>. QED
      BY <3>1, <2>4, <2>6, FS_EmptySet
  <2>8. Cardinality((R \cup X) \cup Y) = Cardinality(R) + Cardinality(X) + Cardinality(Y)
    <3>1. Cardinality((R \cup X) \cup Y) = Cardinality(R \cup X) + Cardinality(Y)
                                            - Cardinality((R \cup X) \cap Y)
      BY <2>6, FS_Union
    <3>. QED
      BY <3>1, <2>4, <2>6, <2>7, FS_EmptySet
  <2>9. g[m] = Cardinality(Below(m)) /\ g[m - 1] = Cardinality(R)
    BY <2>1 DEF R
  <2> HIDE DEF g, Below
  <2>. QED
    BY <2>2, <2>3, <2>8, <2>9
<1>6. g[PriceRange] = Cardinality(allocated)
  <2>1. PriceRange \in 0 .. PriceRange
    BY Sizes
  <2>2. Below(PriceRange) = allocated
    BY <1>1, PriceAssumption DEF PriceRange
  <2>. QED
    BY <2>1, <2>2
<1>7. RestingCount = g[PriceRange]
  <2> HIDE DEF g
  <2>. QED
    BY <1>3, <1>4, <1>5, RestingCountIs
<1>. QED
  BY <1>6, <1>7

\* The map has one entry for each live slot.
LEMMA MapCount ==
  ASSUME NEW A \in SUBSET Slots, NEW sl, NEW map,
         \A i \in A : sl[i].id \in 1 .. MaxOrderId /\ map[sl[i].id] = i,
         \A id \in 1 .. MaxOrderId : map[id] # INVALID_INDEX => map[id] \in A /\ sl[map[id]].id = id
  PROVE  Cardinality({id \in 1 .. MaxOrderId : map[id] # INVALID_INDEX}) = Cardinality(A)
<1> DEFINE T == {id \in 1 .. MaxOrderId : map[id] # INVALID_INDEX}
           f == [i \in A |-> sl[i].id]
<1>1. \A i \in A : i # INVALID_INDEX
  BY SlotsFinite, BookAssumption
<1>2. f \in [A -> T]
  BY <1>1
<1>3. \A a, b \in A : f[a] = f[b] => a = b
  OBVIOUS
<1>4. \A t \in T : \E a \in A : f[a] = t
  OBVIOUS
<1>5. IsFiniteSet(A)
  BY SlotsFinite
<1>6. f \in Bijection(A, T)
  <2> HIDE DEF f, T
  <2>. QED
    BY <1>2, <1>3, <1>4, Fun_IsBij
<1>7. Cardinality(T) = Cardinality(A)
  <2> HIDE DEF f, T
  <2>1. ExistsBijection(A, T)
    BY <1>6 DEF ExistsBijection
  <2>. QED
    BY <2>1, <1>5, FS_Bijection
<1>. QED
  BY <1>7

-----------------------------------------------------------------------------
(***************************************************************************)
(* The cached best prices.                                                 *)
(***************************************************************************)
\* b caches the best tick of T for the side, or that T is empty.
BestOn(T, side, b) ==
  IF b.has
  THEN /\ b.idx \in T /\ b.price = MinPrice + b.idx
       /\ \A t \in T : IF side = "Buy" THEN t <= b.idx ELSE b.idx <= t
  ELSE T = {}

\* BestAt caches the tick it is given.
LEMMA BestAtTick ==
  ASSUME NEW T \in SUBSET Ticks, NEW side \in Sides, NEW i \in T,
         \A t \in T : IF side = "Buy" THEN t <= i ELSE i <= t
  PROVE  BestAt(side, i) \in Bests /\ BestOn(T, side, BestAt(side, i))
<1>1. i \in Ticks /\ i \in Nat /\ i # NONE /\ MinPrice + i \in 0 .. MaxPrice + 1
  BY PriceAssumption, Sizes DEF NONE, Ticks, PriceRange
<1>2. BestAt(side, i) = [has |-> TRUE, price |-> MinPrice + i, idx |-> i]
  BY <1>1 DEF BestAt
<1>. QED
  BY <1>1, <1>2 DEF BestOn, Bests

\* BestAt of no tick is the cached best of an empty side.
LEMMA BestAtNone ==
  ASSUME NEW side \in Sides
  PROVE  BestAt(side, NONE) \in Bests /\ BestOn({}, side, BestAt(side, NONE))
<1>1. EmptyBest(side) \in Bests /\ ~EmptyBest(side).has
  BY PriceAssumption, Sizes DEF EmptyBest, Bests, Ticks, PriceRange
<1>. QED
  BY <1>1 DEF BestAt, BestOn

\* The scans after a removal find the best remaining tick.
LEMMA BestAfterRemove ==
  ASSUME NEW x, Sound(x), NEW side \in Sides, NEW i \in Ticks,
         \A t \in SetTicks(x) : IF side = "Buy" THEN t < i ELSE i < t
  PROVE  /\ UpdateBestAfterRemove(side, x, i) \in Bests
         /\ BestOn(SetTicks(x), side, UpdateBestAfterRemove(side, x, i))
<1> DEFINE T == SetTicks(x)
<1>1. T \in SUBSET Ticks /\ T \in SUBSET Nat /\ i \in Nat /\ PriceRange \in Nat
  BY Sizes DEF SetTicks
<1>2. CASE side = "Sell"
  <2>1. UpdateBestAfterRemove(side, x, i) = BestAt(side, FirstFrom(T, i))
    BY <1>2, ScanUpFinds DEF UpdateBestAfterRemove, UpdateBestAskAfterRemove
  <2> DEFINE U == {j \in T : j >= i}
  <2>2. U = T
    BY <1>1, <1>2
  <2>3. CASE T = {}
    <3>1. FirstFrom(T, i) = NONE
      BY <2>3 DEF FirstFrom
    <3>. QED
      BY <2>1, <2>3, <3>1, BestAtNone
  <2>4. CASE T # {}
    <3>1. FirstFrom(T, i) = Min(T)
      BY <2>2, <2>4 DEF FirstFrom
    <3>2. Min(T) \in T /\ \A y \in T : Min(T) <= y
      <4> HIDE DEF T
      <4>. QED
        BY <1>1, <2>4, MinOfNat
    <3> HIDE DEF T
    <3>. QED
      BY <1>1, <1>2, <2>1, <3>1, <3>2, BestAtTick DEF T
  <2>. QED
    BY <2>3, <2>4
<1>3. CASE side = "Buy"
  <2>1. UpdateBestAfterRemove(side, x, i) = BestAt(side, LastBelow(T, i))
    BY <1>3, ScanDownFinds DEF UpdateBestAfterRemove, UpdateBestBidAfterRemove
  <2> DEFINE U == {j \in T : j < i}
  <2>2. U = T
    BY <1>1, <1>3
  <2>3. CASE T = {}
    <3>1. LastBelow(T, i) = NONE
      BY <2>3 DEF LastBelow
    <3>. QED
      BY <2>1, <2>3, <3>1, BestAtNone
  <2>4. CASE T # {}
    <3>1. LastBelow(T, i) = Max(T)
      BY <2>2, <2>4 DEF LastBelow
    <3>2. Max(T) \in T /\ \A y \in T : Max(T) >= y
      <4>1. T \in SUBSET (0 .. PriceRange)
        BY <1>1 DEF Ticks
      <4> HIDE DEF T
      <4>. QED
        BY <1>1, <2>4, <4>1, MaxOfBounded
    <3> HIDE DEF T
    <3>3. \A y \in T : y <= Max(T)
      BY <1>1, <3>2
    <3>. QED
      BY <1>1, <1>3, <2>1, <3>1, <3>2, <3>3, BestAtTick DEF T
  <2>. QED
    BY <2>3, <2>4
<1>. QED
  BY <1>2, <1>3 DEF Sides

\* What the matching loop does after a level it has emptied: the adjacent level,
\* when it is occupied, is the best one.
LEMMA BestAdvances ==
  ASSUME NEW x, Sound(x), NEW side \in Sides, NEW i \in Ticks,
         \A t \in SetTicks(x) : IF side = "Buy" THEN t < i ELSE i < t,
         SetTicks(x) = Occupied(levels, side),
         NEW b, b = IF side = "Sell" THEN AdvanceBestAsk(x, i) ELSE AdvanceBestBid(x, i)
  PROVE  b \in Bests /\ BestOn(SetTicks(x), side, b)
<1> DEFINE T == SetTicks(x)
<1>1. T \in SUBSET Ticks /\ i \in Nat /\ T \in SUBSET Nat
  BY Sizes DEF SetTicks
<1>2. CASE b = UpdateBestAfterRemove(side, x, i)
  BY <1>2, BestAfterRemove
<1>3. CASE side = "Sell" /\ b # UpdateBestAfterRemove(side, x, i)
  <2>1. /\ MinPrice + i + 1 <= MaxPrice /\ ~IsEmpty(levels["Sell"][i + 1])
        /\ b = BestAt(side, i + 1)
    BY <1>3 DEF AdvanceBestAsk, UpdateBestAfterRemove
  <2>2. i + 1 \in Ticks
    BY <1>1, <2>1, PriceAssumption DEF Ticks, PriceRange
  <2>3. i + 1 \in T /\ \A t \in T : i + 1 <= t
    BY <1>1, <1>3, <2>1, <2>2 DEF Occupied
  <2> HIDE DEF T
  <2>. QED
    BY <1>1, <1>3, <2>1, <2>3, BestAtTick DEF T
<1>4. CASE side = "Buy" /\ b # UpdateBestAfterRemove(side, x, i)
  <2>1. /\ MinPrice + i > MinPrice /\ ~IsEmpty(levels["Buy"][i - 1])
        /\ b = BestAt(side, i - 1)
    BY <1>4 DEF AdvanceBestBid, UpdateBestAfterRemove
  <2>2. i - 1 \in Ticks
    BY <1>1, <2>1, PriceAssumption, Sizes DEF Ticks
  <2>3. i - 1 \in T /\ \A t \in T : t <= i - 1
    BY <1>1, <1>4, <2>1, <2>2 DEF Occupied
  <2> HIDE DEF T
  <2>. QED
    BY <1>1, <1>4, <2>1, <2>3, BestAtTick DEF T
<1>. QED
  BY <1>2, <1>3, <1>4 DEF Sides

\* What add_order does when it rests an order at a tick.
LEMMA BestImproves ==
  ASSUME NEW T \in SUBSET Ticks, NEW side \in Sides, NEW i \in Ticks,
         best \in [Sides -> Bests], BestOn(T, side, best[side]),
         NEW b, b = IF Improves(side, MinPrice + i) THEN BestAt(side, i) ELSE best[side]
  PROVE  b \in Bests /\ BestOn(T \cup {i}, side, b)
<1>1. T \in SUBSET Nat /\ i \in Nat /\ T \cup {i} \in SUBSET Ticks /\ MinPrice \in Nat
  BY Sizes, PriceAssumption
<1>2. best[side] \in Bests
  OBVIOUS
<1>3. CASE ~best[side].has
  <2>1. T = {} /\ b = BestAt(side, i)
    BY <1>3 DEF BestOn, Improves
  <2>2. \A t \in T \cup {i} : IF side = "Buy" THEN t <= i ELSE i <= t
    BY <1>1, <2>1
  <2>. QED
    BY <1>1, <2>1, <2>2, BestAtTick
<1>4. CASE best[side].has
  <2>1. /\ best[side].idx \in T /\ best[side].price = MinPrice + best[side].idx
        /\ \A t \in T : IF side = "Buy" THEN t <= best[side].idx ELSE best[side].idx <= t
    BY <1>4 DEF BestOn
  <2>2. best[side].idx \in Nat
    BY <1>1, <2>1
  <2>3. CASE Improves(side, MinPrice + i)
    <3>1. \A t \in T \cup {i} : IF side = "Buy" THEN t <= i ELSE i <= t
      BY <1>1, <1>4, <2>1, <2>2, <2>3 DEF Improves, Sides
    <3>. QED
      BY <1>1, <2>3, <3>1, BestAtTick
  <2>4. CASE ~Improves(side, MinPrice + i)
    <3>1. IF side = "Buy" THEN i <= best[side].idx ELSE best[side].idx <= i
      BY <1>1, <1>4, <2>1, <2>2, <2>4 DEF Improves, Sides
    <3>. QED
      BY <1>2, <1>4, <2>1, <2>4, <3>1 DEF BestOn
  <2>. QED
    BY <2>3, <2>4
<1>. QED
  BY <1>3, <1>4
=============================================================================
