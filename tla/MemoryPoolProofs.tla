-------------------------- MODULE MemoryPoolProofs --------------------------
(***************************************************************************)
(* The pool's free list for every capacity: it never cycles, never leaves  *)
(* the pool and never holds a slot that is handed out, whatever the client *)
(* passes; with a client that keeps the contract it also loses no slot.    *)
(*                                                                         *)
(* The invariant carries the list itself, as the function fl from          *)
(* positions to slots, and each operation says what it does to it:         *)
(* allocate drops the first position, deallocate puts one in front,        *)
(* deallocate_chain puts a whole chain in front.                           *)
(***************************************************************************)
EXTENDS MemoryPool, FiniteSetTheorems, FunctionTheorems, TLAPS

(***************************************************************************)
(* The types of everything but the counter.                                *)
(***************************************************************************)
PoolType ==
  /\ link \in [Slots -> Words]
  /\ free_head \in Words
  /\ allocated \in SUBSET Slots
  /\ handler \in Handlers
  /\ fault \in Faults
  /\ aborted \in BOOLEAN

Counted == live_count = Cardinality(allocated)

ListOf(n, fl) ==
  /\ IsFreeList(n, fl)
  /\ \A k \in 1 .. n : fl[k] \in FreeSlots

Covers(n, fl) == \A i \in FreeSlots : \E k \in 1 .. n : fl[k] = i

HasList == \E n \in Nat : \E fl \in [1 .. n -> Slots] : ListOf(n, fl)

HasFullList ==
  \E n \in Nat : \E fl \in [1 .. n -> Slots] : ListOf(n, fl) /\ Covers(n, fl)

-----------------------------------------------------------------------------
(***************************************************************************)
(* Finite sets.                                                            *)
(***************************************************************************)
LEMMA SlotsFinite ==
  /\ IsFiniteSet(Slots)
  /\ Cardinality(Slots) = Capacity
  /\ \A S \in SUBSET Slots : IsFiniteSet(S) /\ Cardinality(S) \in 0 .. Capacity
<1>1. IsFiniteSet(Slots) /\ Cardinality(Slots) = Capacity
  <2>1. 0 \in Int /\ Capacity - 1 \in Int
    BY CapacityAssumption
  <2>2. /\ IsFiniteSet(0 .. Capacity - 1)
        /\ Cardinality(0 .. Capacity - 1) = IF 0 > Capacity - 1 THEN 0 ELSE Capacity - 1 - 0 + 1
    BY <2>1, FS_Interval
  <2>. QED
    BY <2>2, CapacityAssumption DEF Slots
<1>2. ASSUME NEW S \in SUBSET Slots
      PROVE  IsFiniteSet(S) /\ Cardinality(S) \in 0 .. Capacity
  <2>1. IsFiniteSet(S) /\ Cardinality(S) <= Capacity
    BY <1>1, FS_Subset
  <2>2. Cardinality(S) \in Nat
    BY <2>1, FS_CardinalityType
  <2>. QED
    BY <2>1, <2>2, CapacityAssumption
<1>. QED
  BY <1>1, <1>2

(***************************************************************************)
(* An injective function from 1..n into a set of slots: its image has n    *)
(* elements, so n is at most the size of the set.                          *)
(***************************************************************************)
LEMMA InjectiveImage ==
  ASSUME NEW n \in Nat, NEW S \in SUBSET Slots, NEW f \in [1 .. n -> S],
         \A j, k \in 1 .. n : f[j] = f[k] => j = k
  PROVE  /\ Cardinality({f[k] : k \in 1 .. n}) = n
         /\ IsFiniteSet({f[k] : k \in 1 .. n})
         /\ n <= Cardinality(S)
<1> DEFINE T == {f[k] : k \in 1 .. n}
<1>1. f \in [1 .. n -> T]
  OBVIOUS
<1>2. f \in Bijection(1 .. n, T)
  BY <1>1, Fun_IsBij
<1>3. Cardinality(T) = n
  BY <1>2, FS_CountingElements DEF ExistsBijection
<1>4. T \in SUBSET S
  OBVIOUS
<1>5. IsFiniteSet(S)
  BY SlotsFinite
<1>6. IsFiniteSet(T) /\ Cardinality(T) <= Cardinality(S)
  BY <1>4, <1>5, FS_Subset
<1>. QED
  BY <1>3, <1>6

-----------------------------------------------------------------------------
(***************************************************************************)
(* The list after each operation.                                          *)
(***************************************************************************)
LEMMA AllocateList ==
  ASSUME PoolType, NEW n \in Nat, NEW fl \in [1 .. n -> Slots], ListOf(n, fl), Allocate
  PROVE  \E m \in Nat : \E g \in [1 .. m -> Slots] :
           ListOf(m, g)' /\ (Covers(n, fl) => Covers(m, g)')
<1> DEFINE g == [k \in 1 .. n - 1 |-> fl[k + 1]]
<1>1. n > 0 /\ free_head = fl[1] /\ free_head \in Slots /\ free_head \notin allocated
  BY DEF Allocate, ListOf, IsFreeList, FreeSlots
<1>2. n - 1 \in Nat /\ g \in [1 .. n - 1 -> Slots]
  BY <1>1
<1>3. FreeSlots' = FreeSlots \ {free_head}
  BY DEF Allocate, FreeSlots
<1>4. \A k \in 1 .. n - 1 : /\ g[k] = fl[k + 1]
                            /\ g[k] \in FreeSlots'
                            /\ link'[g[k]] = link[g[k]]
  <2> TAKE k \in 1 .. n - 1
  <2>1. g[k] = fl[k + 1] /\ k + 1 \in 1 .. n /\ 1 \in 1 .. n
    BY <1>1
  <2>2. fl[k + 1] \in FreeSlots /\ fl[k + 1] # free_head
    BY <1>1, <2>1 DEF ListOf, IsFreeList
  <2>. QED
    BY <1>3, <2>1, <2>2 DEF Allocate, FreeLinksKept
<1>5. \A j, k \in 1 .. n - 1 : g[j] = g[k] => j = k
  BY <1>1, <1>4 DEF ListOf, IsFreeList
<1>6. \A k \in 1 .. (n - 1) - 1 : link'[g[k]] = g[k + 1]
  BY <1>1, <1>4 DEF ListOf, IsFreeList
<1>7. IF n - 1 = 0 THEN free_head' = INVALID_INDEX
      ELSE free_head' = g[1] /\ link'[g[n - 1]] = INVALID_INDEX
  <2>1. CASE n = 1
    <3>1. free_head' = link[fl[1]] /\ link[fl[n]] = INVALID_INDEX
      BY <1>1 DEF Allocate, ListOf, IsFreeList
    <3>. QED
      BY <2>1, <3>1
  <2>2. CASE n # 1
    <3>1. 1 \in 1 .. n - 1 /\ n - 1 \in 1 .. n - 1 /\ (n - 1) + 1 = n /\ 1 + 1 = 2
      BY <1>1, <2>2
    <3>2. g[1] = fl[2] /\ g[n - 1] = fl[n] /\ link'[g[n - 1]] = link[g[n - 1]]
      BY <1>4, <3>1
    <3>3. link[fl[1]] = fl[2] /\ link[fl[n]] = INVALID_INDEX
      BY <1>1, <3>1 DEF ListOf, IsFreeList
    <3>4. free_head' = link[fl[1]]
      BY <1>1 DEF Allocate
    <3>. QED
      BY <1>1, <2>2, <3>2, <3>3, <3>4
  <2>. QED
    BY <2>1, <2>2
<1>8. ListOf(n - 1, g)'
  BY <1>4, <1>5, <1>6, <1>7 DEF ListOf, IsFreeList
<1>9. ASSUME Covers(n, fl) PROVE Covers(n - 1, g)'
  <2> SUFFICES ASSUME NEW i \in FreeSlots'
               PROVE  \E k \in 1 .. n - 1 : g[k] = i
    BY DEF Covers
  <2>1. i \in FreeSlots /\ i # free_head
    BY <1>3
  <2>2. PICK k \in 1 .. n : fl[k] = i
    BY <1>9, <2>1 DEF Covers
  <2>3. k # 1 /\ k - 1 \in 1 .. n - 1 /\ g[k - 1] = i
    BY <1>1, <2>1, <2>2
  <2>. QED
    BY <2>3
<1>. QED
  BY <1>2, <1>8, <1>9

(***************************************************************************)
(* A chain p of m live slots spliced in front; deallocate is the chain of  *)
(* one.                                                                    *)
(***************************************************************************)
LEMMA SpliceList ==
  ASSUME PoolType, NEW n \in Nat, NEW fl \in [1 .. n -> Slots], ListOf(n, fl),
         NEW m \in Nat \ {0}, NEW p \in [1 .. m -> Slots],
         IsWalk(link', m, p, p[m]), FreeLinksKept({}),
         link'[p[m]] = free_head, free_head' = p[1],
         allocated' = allocated \ {p[k] : k \in 1 .. m}
  PROVE  \E q \in Nat : \E g \in [1 .. q -> Slots] :
           ListOf(q, g)' /\ (Covers(n, fl) => Covers(q, g)')
<1> DEFINE g == [k \in 1 .. m + n |-> IF k <= m THEN p[k] ELSE fl[k - m]]
<1>1. m + n \in Nat /\ g \in [1 .. m + n -> Slots]
  OBVIOUS
<1>2. FreeSlots' = FreeSlots \cup {p[k] : k \in 1 .. m}
  BY DEF FreeSlots, IsWalk, PoolType
<1>3. \A k \in 1 .. m : k \in 1 .. m + n /\ g[k] = p[k] /\ p[k] \in allocated
  BY DEF IsWalk
<1>4. \A k \in 1 .. n : /\ m + k \in 1 .. m + n
                        /\ g[m + k] = fl[k]
                        /\ fl[k] \in FreeSlots
                        /\ link'[fl[k]] = link[fl[k]]
  BY DEF ListOf, FreeLinksKept
<1>5. \A k \in 1 .. m + n : k \in 1 .. m \/ (k - m \in 1 .. n /\ k = m + (k - m))
  OBVIOUS
<1>6. \A k \in 1 .. m + n : g[k] \in FreeSlots'
  <2> TAKE k \in 1 .. m + n
  <2>1. CASE k \in 1 .. m
    BY <2>1, <1>2, <1>3
  <2>2. CASE k - m \in 1 .. n /\ k = m + (k - m)
    <3>1. g[k] = fl[k - m] /\ fl[k - m] \in FreeSlots
      BY <2>2, <1>4
    <3>. QED
      BY <3>1, <1>2
  <2>. QED
    BY <2>1, <2>2, <1>5
<1>7. \A j, k \in 1 .. m + n : g[j] = g[k] => j = k
  <2> SUFFICES ASSUME NEW j \in 1 .. m + n, NEW k \in 1 .. m + n, g[j] = g[k]
               PROVE  j = k
    OBVIOUS
  <2>1. CASE j <= m /\ k <= m
    BY <2>1, <1>3 DEF IsWalk
  <2>2. CASE j <= m /\ k > m
    <3>1. g[j] \in allocated /\ g[k] \notin allocated
      <4>1. j \in 1 .. m
        BY <2>2
      <4>2. PICK i \in 1 .. n : k = m + i
        BY <2>2, <1>5
      <4>3. g[k] = fl[i] /\ fl[i] \in FreeSlots
        BY <4>2, <1>4
      <4>4. g[j] \in allocated
        BY <4>1, <1>3
      <4>. QED
        BY <4>3, <4>4 DEF FreeSlots
    <3>. QED
      BY <3>1
  <2>3. CASE j > m /\ k <= m
    <3>1. g[k] \in allocated /\ g[j] \notin allocated
      <4>1. k \in 1 .. m
        BY <2>3
      <4>2. PICK i \in 1 .. n : j = m + i
        BY <2>3, <1>5
      <4>3. g[j] = fl[i] /\ fl[i] \in FreeSlots
        BY <4>2, <1>4
      <4>4. g[k] \in allocated
        BY <4>1, <1>3
      <4>. QED
        BY <4>3, <4>4 DEF FreeSlots
    <3>. QED
      BY <3>1
  <2>4. CASE j > m /\ k > m
    <3>1. j - m \in 1 .. n /\ k - m \in 1 .. n /\ fl[j - m] = fl[k - m]
      BY <2>4
    <3>2. j - m = k - m
      BY <3>1 DEF ListOf, IsFreeList
    <3>. QED
      BY <3>2
  <2>. QED
    BY <2>1, <2>2, <2>3, <2>4
<1>8. \A k \in 1 .. (m + n) - 1 : link'[g[k]] = g[k + 1]
  <2> TAKE k \in 1 .. (m + n) - 1
  <2>1. CASE k < m
    <3>1. k \in 1 .. m - 1 /\ g[k] = p[k] /\ g[k + 1] = p[k + 1]
      BY <2>1
    <3>. QED
      BY <3>1 DEF IsWalk
  <2>2. CASE k = m
    <3>1. n > 0 /\ g[k] = p[m] /\ g[k + 1] = fl[1] /\ 1 \in 1 .. n
      BY <2>2
    <3>2. free_head = fl[1]
      BY <3>1 DEF ListOf, IsFreeList
    <3>. QED
      BY <3>1, <3>2
  <2>3. CASE k > m
    <3>0. PICK i \in 1 .. n - 1 : k = m + i
      <4>1. k - m \in 1 .. n - 1 /\ k = m + (k - m)
        BY <2>3
      <4>. QED
        BY <4>1
    <3>1. i \in 1 .. n /\ g[k] = fl[i] /\ g[k + 1] = fl[i + 1]
      BY <3>0
    <3>2. link[fl[i]] = fl[i + 1] /\ link'[fl[i]] = link[fl[i]]
      BY <3>0, <3>1, <1>4 DEF ListOf, IsFreeList
    <3>. QED
      BY <3>1, <3>2
  <2>. QED
    BY <2>1, <2>2, <2>3
<1>9. m + n # 0 /\ free_head' = g[1] /\ link'[g[m + n]] = INVALID_INDEX
  <2>1. free_head' = g[1]
    BY <1>3
  <2>2. CASE n = 0
    <3>1. free_head = INVALID_INDEX /\ m + n = m /\ g[m] = p[m]
      BY <2>2, <1>3 DEF ListOf, IsFreeList
    <3>. QED
      BY <2>1, <3>1
  <2>3. CASE n # 0
    <3>1. n \in 1 .. n /\ g[m + n] = fl[n]
      BY <2>3, <1>4
    <3>2. link[fl[n]] = INVALID_INDEX /\ link'[fl[n]] = link[fl[n]]
      BY <2>3, <3>1, <1>4 DEF ListOf, IsFreeList
    <3>. QED
      BY <2>1, <3>1, <3>2
  <2>. QED
    BY <2>2, <2>3
<1>10. ListOf(m + n, g)'
  BY <1>6, <1>7, <1>8, <1>9 DEF ListOf, IsFreeList
<1>11. ASSUME Covers(n, fl) PROVE Covers(m + n, g)'
  <2> SUFFICES ASSUME NEW i \in FreeSlots'
               PROVE  \E k \in 1 .. m + n : g[k] = i
    BY DEF Covers
  <2>1. CASE i \in {p[k] : k \in 1 .. m}
    BY <2>1, <1>3
  <2>2. CASE i \in FreeSlots
    <3>1. PICK k \in 1 .. n : fl[k] = i
      BY <2>2, <1>11 DEF Covers
    <3>. QED
      BY <3>1, <1>4
  <2>. QED
    BY <2>1, <2>2, <1>2
<1>. QED
  BY <1>1, <1>10, <1>11

-----------------------------------------------------------------------------
(***************************************************************************)
(* Releasing the m distinct live slots of a walk takes m off the count.    *)
(***************************************************************************)
LEMMA ReleasedCount ==
  ASSUME PoolType, NEW m \in Nat, NEW p \in [1 .. m -> Slots],
         \A k \in 1 .. m : p[k] \in allocated,
         \A j, k \in 1 .. m : p[j] = p[k] => j = k
  PROVE  Cardinality(allocated \ {p[k] : k \in 1 .. m}) = Cardinality(allocated) - m
<1> DEFINE T == {p[k] : k \in 1 .. m}
<1>1. p \in [1 .. m -> allocated] /\ allocated \in SUBSET Slots
  BY DEF PoolType
<1>2. Cardinality(T) = m
  BY <1>1, InjectiveImage
<1>3. IsFiniteSet(allocated)
  BY <1>1, SlotsFinite
<1>4. allocated \cap T = T
  OBVIOUS
<1>5. Cardinality(allocated \ T) = Cardinality(allocated) - Cardinality(allocated \cap T)
  BY <1>3, FS_Difference
<1>. QED
  BY <1>2, <1>4, <1>5

(***************************************************************************)
(* One step of a client that keeps the contract.                           *)
(***************************************************************************)
LEMMA TrustedStepList ==
  ASSUME PoolType, Counted, TrustedNext,
         NEW n \in Nat, NEW fl \in [1 .. n -> Slots], ListOf(n, fl)
  PROVE  /\ PoolType'
         /\ Counted'
         /\ \E m \in Nat : \E g \in [1 .. m -> Slots] :
              ListOf(m, g)' /\ (Covers(n, fl) => Covers(m, g)')
<1>0. handler' \in Handlers /\ fault' \in Faults /\ aborted' \in BOOLEAN
  BY DEF TrustedNext, PoolType, Faults
<1>1. CASE Allocate
  <2>1. free_head \in Slots /\ free_head \notin allocated
    BY <1>1 DEF Allocate, ListOf, IsFreeList, FreeSlots
  <2>2. PoolType'
    BY <1>0, <1>1, <2>1 DEF PoolType, Allocate, FreeLinksKept
  <2>3. IsFiniteSet(allocated)
    BY SlotsFinite DEF PoolType
  <2>4. Cardinality(allocated \cup {free_head}) = Cardinality(allocated) + 1
    BY <2>1, <2>3, FS_AddElement
  <2>5. Counted'
    BY <1>1, <2>4 DEF Allocate, Counted
  <2>. QED
    BY <1>1, <2>2, <2>5, AllocateList
<1>2. ASSUME NEW index \in Slots, Deallocate(index)
      PROVE  /\ PoolType'
             /\ Counted'
             /\ \E m \in Nat : \E g \in [1 .. m -> Slots] :
                  ListOf(m, g)' /\ (Covers(n, fl) => Covers(m, g)')
  <2> DEFINE p == [k \in 1 .. 1 |-> index]
  <2>1. PoolType'
    BY <1>0, <1>2, CapacityAssumption DEF PoolType, Deallocate, FreeLinksKept, Slots, Words
  <2>2. IsFiniteSet(allocated)
    BY SlotsFinite DEF PoolType
  <2>3. Cardinality(allocated \ {index}) = Cardinality(allocated) - 1
    BY <1>2, <2>2, FS_RemoveElement DEF Deallocate
  <2>4. Counted'
    BY <1>2, <2>3 DEF Deallocate, Counted
  <2>5. 1 \in Nat \ {0} /\ p \in [1 .. 1 -> Slots] /\ p[1] = index
    OBVIOUS
  <2>6. {p[k] : k \in 1 .. 1} = {index}
    OBVIOUS
  <2>7. IsWalk(link', 1, p, p[1])
    BY <1>2, <2>5 DEF IsWalk, Deallocate
  <2>8. /\ FreeLinksKept({}) /\ link'[p[1]] = free_head /\ free_head' = p[1]
        /\ allocated' = allocated \ {p[k] : k \in 1 .. 1}
    BY <1>2, <2>5, <2>6 DEF Deallocate
  <2> HIDE DEF p
  <2>9. \E m \in Nat : \E g \in [1 .. m -> Slots] :
          ListOf(m, g)' /\ (Covers(n, fl) => Covers(m, g)')
    BY <2>5, <2>7, <2>8, SpliceList
  <2>. QED
    BY <2>1, <2>4, <2>9
<1>3. ASSUME NEW c \in 1 .. Capacity, NEW p \in [1 .. c -> Slots], DeallocateChain(c, p)
      PROVE  /\ PoolType'
             /\ Counted'
             /\ \E m \in Nat : \E g \in [1 .. m -> Slots] :
                  ListOf(m, g)' /\ (Covers(n, fl) => Covers(m, g)')
  <2>1. c \in Nat \ {0} /\ 1 \in 1 .. c
    BY CapacityAssumption
  <2>2. PoolType'
    <3>1. p[1] \in Slots /\ Slots \subseteq Words
      BY <2>1, CapacityAssumption DEF Slots, Words
    <3>2. free_head' \in Words /\ link' \in [Slots -> Words] /\ allocated' \in SUBSET Slots
      BY <1>3, <3>1 DEF PoolType, DeallocateChain, FreeLinksKept
    <3>. QED
      BY <1>0, <3>2 DEF PoolType
  <2>3. Cardinality(allocated \ {p[k] : k \in 1 .. c}) = Cardinality(allocated) - c
    BY <1>3, <2>1, ReleasedCount DEF DeallocateChain, IsWalk
  <2>4. Counted'
    BY <1>3, <2>3 DEF DeallocateChain, Counted
  <2>5. \E m \in Nat : \E g \in [1 .. m -> Slots] :
          ListOf(m, g)' /\ (Covers(n, fl) => Covers(m, g)')
    BY <1>3, <2>1, SpliceList DEF DeallocateChain
  <2>. QED
    BY <2>2, <2>4, <2>5
<1>4. CASE ClientWrite
  <2>1. PoolType' /\ Counted'
    BY <1>0, <1>4 DEF PoolType, Counted, ClientWrite, FreeLinksKept
  <2>2. FreeSlots' = FreeSlots
    BY <1>4 DEF ClientWrite, FreeSlots
  <2>3. \A k \in 1 .. n : link'[fl[k]] = link[fl[k]]
    BY <1>4 DEF ClientWrite, FreeLinksKept, ListOf
  <2>4. ListOf(n, fl)'
    <3>1. \A k \in 1 .. n - 1 : link'[fl[k]] = fl[k + 1]
      BY <2>3 DEF ListOf, IsFreeList
    <3>2. n # 0 => n \in 1 .. n
      OBVIOUS
    <3>3. IF n = 0 THEN free_head' = INVALID_INDEX
          ELSE free_head' = fl[1] /\ link'[fl[n]] = INVALID_INDEX
      BY <1>4, <2>3, <3>2 DEF ListOf, IsFreeList, ClientWrite
    <3>. QED
      BY <2>2, <3>1, <3>3 DEF ListOf, IsFreeList
  <2>5. Covers(n, fl) => Covers(n, fl)'
    BY <2>2 DEF Covers
  <2>. QED
    BY <2>1, <2>4, <2>5
<1>. QED
  BY <1>1, <1>2, <1>3, <1>4 DEF TrustedNext, TrustedStep

(***************************************************************************)
(* The constructor's list: position k holds slot k - 1.                    *)
(***************************************************************************)
LEMMA InitList ==
  ASSUME Init
  PROVE  PoolType /\ Counted /\ HasFullList
<1> DEFINE fl == [k \in 1 .. Capacity |-> k - 1]
<1>1. PoolType
  <2>1. link \in [Slots -> Words]
    BY CapacityAssumption DEF Init, PoolInit, Slots, Words
  <2>2. free_head \in Words /\ allocated \in SUBSET Slots
    BY CapacityAssumption DEF Init, PoolInit, Words
  <2>3. handler \in Handlers /\ fault \in Faults /\ aborted \in BOOLEAN
    BY DEF Init, Handlers, Faults
  <2>. QED
    BY <2>1, <2>2, <2>3 DEF PoolType
<1>2. Counted
  BY FS_EmptySet DEF Init, PoolInit, Counted
<1>3. fl \in [1 .. Capacity -> Slots]
  BY CapacityAssumption DEF Slots
<1>4. ListOf(Capacity, fl)
  BY CapacityAssumption DEF Init, PoolInit, ListOf, IsFreeList, FreeSlots, Slots
<1>5. Covers(Capacity, fl)
  <2> SUFFICES ASSUME NEW i \in Slots PROVE \E k \in 1 .. Capacity : fl[k] = i
    BY DEF Covers, FreeSlots
  <2>1. i + 1 \in 1 .. Capacity /\ fl[i + 1] = i
    BY CapacityAssumption DEF Slots
  <2>. QED
    BY <2>1
<1>. QED
  BY <1>1, <1>2, <1>3, <1>4, <1>5, CapacityAssumption DEF HasFullList

-----------------------------------------------------------------------------
(***************************************************************************)
(* From the list that the invariants carry to the properties.              *)
(***************************************************************************)
LEMMA ListIsExact ==
  ASSUME PoolType, Counted, HasFullList
  PROVE  FreeListExact
<1>0. PICK n \in Nat : \E fl \in [1 .. n -> Slots] : ListOf(n, fl) /\ Covers(n, fl)
  BY DEF HasFullList
<1>1. PICK fl \in [1 .. n -> Slots] : ListOf(n, fl) /\ Covers(n, fl)
  BY <1>0
<1>2. {fl[k] : k \in 1 .. n} = FreeSlots
  BY <1>1 DEF ListOf, Covers
<1>3. Cardinality(FreeSlots) = n
  <2>1. fl \in [1 .. n -> FreeSlots] /\ FreeSlots \in SUBSET Slots
    BY <1>1 DEF ListOf, FreeSlots
  <2>2. \A j, k \in 1 .. n : fl[j] = fl[k] => j = k
    BY <1>1 DEF ListOf, IsFreeList
  <2>3. Cardinality({fl[k] : k \in 1 .. n}) = n
    BY <2>1, <2>2, InjectiveImage
  <2>. QED
    BY <1>2, <2>3
<1>4. Cardinality(FreeSlots) = Capacity - live_count
  <2>1. Slots \cap allocated = allocated
    BY DEF PoolType
  <2>2. Cardinality(Slots \ allocated) = Cardinality(Slots) - Cardinality(Slots \cap allocated)
    BY SlotsFinite, FS_Difference
  <2>. QED
    BY <2>1, <2>2, SlotsFinite DEF FreeSlots, Counted
<1>5. n = Capacity - live_count
  BY <1>3, <1>4
<1>. QED
  BY <1>1, <1>2, <1>5 DEF FreeListExact, ListOf

\* The list has no live slot on it.
LEMMA ListIsSafe ==
  ASSUME HasList
  PROVE  FreeListSafe
<1>0. PICK n \in Nat : \E fl \in [1 .. n -> Slots] : ListOf(n, fl)
  BY DEF HasList
<1>1. PICK fl \in [1 .. n -> Slots] : ListOf(n, fl)
  BY <1>0
<1>2. \A j, k \in 1 .. n : fl[j] = fl[k] => j = k
  BY <1>1 DEF ListOf, IsFreeList
<1>3. n <= Capacity
  BY <1>2, InjectiveImage, SlotsFinite
<1>4. n \in 0 .. Capacity
  BY <1>3, CapacityAssumption
<1>. QED
  BY <1>1, <1>4 DEF FreeListSafe, ListOf

\* The invariants include the type invariant.
LEMMA CountedType ==
  ASSUME PoolType, Counted
  PROVE  TypeOK
BY SlotsFinite DEF PoolType, Counted, TypeOK

\* A list of all free slots is a list of free slots.
LEMMA FullListIsList == HasFullList => HasList
BY DEF HasFullList, HasList

(***************************************************************************)
(* With a client that keeps the contract (the release build's documented   *)
(* trust) the pool keeps its types and its free list holds exactly the     *)
(* free slots, capacity - live_count of them: no leak, no double hand-out. *)
(***************************************************************************)
THEOREM TrustedFreeListExact == TrustedSpec => [](TypeOK /\ FreeListExact)
<1> DEFINE Inv == PoolType /\ Counted /\ HasFullList
<1>1. Init => Inv
  BY InitList
<1>2. Inv /\ [TrustedNext]_vars => Inv'
  <2> SUFFICES ASSUME Inv, [TrustedNext]_vars PROVE Inv'
    OBVIOUS
  <2>1. CASE TrustedNext
    <3>0. PICK n \in Nat : \E fl \in [1 .. n -> Slots] : ListOf(n, fl) /\ Covers(n, fl)
      BY DEF HasFullList
    <3>1. PICK fl \in [1 .. n -> Slots] : ListOf(n, fl) /\ Covers(n, fl)
      BY <3>0
    <3>2. /\ PoolType'
          /\ Counted'
          /\ \E m \in Nat : \E g \in [1 .. m -> Slots] :
               ListOf(m, g)' /\ (Covers(n, fl) => Covers(m, g)')
      BY <2>1, <3>1, TrustedStepList
    <3>. QED
      BY <3>1, <3>2 DEF HasFullList
  <2>2. CASE UNCHANGED vars
    <3>1. PoolType' /\ Counted'
      BY <2>2 DEF vars, PoolType, Counted
    <3>2. HasFullList'
      BY <2>2 DEF vars, HasFullList, ListOf, Covers, IsFreeList, FreeSlots
    <3>. QED
      BY <3>1, <3>2
  <2>. QED
    BY <2>1, <2>2
<1>3. Inv => TypeOK /\ FreeListExact
  BY CountedType, ListIsExact
<1>. QED
  BY <1>1, <1>2, <1>3, PTL DEF TrustedSpec

(***************************************************************************)
(* Whatever indices a client passes and whichever handler answers, the     *)
(* instrumented pool keeps its types and a free list without cycles, wild  *)
(* links or live slots, so allocate() never hands out an owned slot; only  *)
(* a broken chain under SkipOperation can make it forget slots.            *)
(***************************************************************************)
THEOREM FaultingFreeListSafe == Spec => [](TypeOK /\ FreeListSafe)
<1> DEFINE Inv == PoolType /\ Counted /\ HasList
<1>1. Init => Inv
  BY InitList, FullListIsList
<1>2. Inv /\ [Next]_vars => Inv'
  <2> SUFFICES ASSUME Inv, [Next]_vars PROVE Inv'
    OBVIOUS
  <2>0. PICK n \in Nat : \E fl \in [1 .. n -> Slots] : ListOf(n, fl)
    BY DEF HasList
  <2>1. PICK fl \in [1 .. n -> Slots] : ListOf(n, fl)
    BY <2>0
  <2>2. ASSUME UNCHANGED poolVars, handler' \in Handlers, fault' \in Faults, aborted' \in BOOLEAN
        PROVE  Inv'
    <3>1. PoolType' /\ Counted'
      BY <2>2 DEF poolVars, PoolType, Counted
    <3>2. HasList'
      BY <2>2 DEF poolVars, HasList, ListOf, IsFreeList, FreeSlots
    <3>. QED
      BY <3>1, <3>2
  <2>3. ASSUME NEW message \in Faults, PoolFault(message)
        PROVE  handler' \in Handlers /\ fault' \in Faults /\ aborted' \in BOOLEAN
    BY <2>3 DEF PoolFault, PoolType
  <2>4. CASE TrustedNext
    <3>1. /\ PoolType'
          /\ Counted'
          /\ \E m \in Nat : \E g \in [1 .. m -> Slots] :
               ListOf(m, g)' /\ (Covers(n, fl) => Covers(m, g)')
      BY <2>1, <2>4, TrustedStepList
    <3>. QED
      BY <3>1 DEF HasList
  <2>5. CASE \E h \in Handlers : SetPoolFaultHandler(h)
    BY <2>2, <2>5 DEF SetPoolFaultHandler, PoolType, Faults
  <2>6. ASSUME NEW index \in Words, DeallocateFault(index)
        PROVE  Inv'
    BY <2>2, <2>3, <2>6 DEF DeallocateFault, Faults
  <2>7. ASSUME NEW head \in Words, NEW tail \in Words, ChainRangeFault(head, tail)
        PROVE  Inv'
    BY <2>2, <2>3, <2>7 DEF ChainRangeFault, Faults
  <2>8. ASSUME NEW head \in Slots, NEW tail \in Slots, NEW m \in 0 .. Capacity,
               NEW p \in [1 .. m -> Slots], ChainBroken(head, tail, m, p)
        PROVE  Inv'
    <3>1. /\ IsWalk(link, m, p, tail)
          /\ allocated' = allocated \ {p[k] : k \in 1 .. m}
          /\ live_count' = live_count - m
          /\ link' = link /\ free_head' = free_head
      BY <2>8 DEF ChainBroken
    <3>2. handler' \in Handlers /\ fault' \in Faults /\ aborted' \in BOOLEAN
      BY <2>3, <2>8 DEF ChainBroken, Faults
    <3>3. PoolType'
      BY <3>1, <3>2 DEF PoolType
    <3>4. m \in Nat
      BY CapacityAssumption
    <3>5. Cardinality(allocated \ {p[k] : k \in 1 .. m}) = Cardinality(allocated) - m
      BY <3>1, <3>4, ReleasedCount DEF IsWalk
    <3>6. Counted'
      BY <3>1, <3>5 DEF Counted
    <3>7. \A k \in 1 .. n : fl[k] \in FreeSlots'
      BY <2>1, <3>1 DEF ListOf, FreeSlots
    <3>8. ListOf(n, fl)'
      BY <2>1, <3>1, <3>7 DEF ListOf, IsFreeList
    <3>. QED
      BY <3>3, <3>6, <3>8 DEF HasList
  <2>9. CASE UNCHANGED vars
    BY <2>2, <2>9 DEF vars, poolVars, PoolType
  <2>. QED
    BY <2>4, <2>5, <2>6, <2>7, <2>8, <2>9 DEF Next, ArbitraryStep
<1>3. Inv => TypeOK /\ FreeListSafe
  BY CountedType, ListIsSafe
<1>. QED
  BY <1>1, <1>2, <1>3, PTL DEF Spec

(***************************************************************************)
(* For every capacity: while the callers free only what they hold, the     *)
(* links, the head, the live count and the handler keep their types; the   *)
(* live count never goes below zero or above the capacity.                 *)
(***************************************************************************)
THEOREM TrustedTypes == TrustedSpec => []TypeOK
<1>. QED
  BY TrustedFreeListExact, PTL
=============================================================================
