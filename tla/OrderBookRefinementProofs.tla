--------------------- MODULE OrderBookRefinementProofs ---------------------
(***************************************************************************)
(* Proofs about OrderBookRefinement: the engine implements the reference   *)
(* book of the differential tests and reports the same trades, and it is a *)
(* client the contract of the pool allows.  Proofs about OrderBookJournal, *)
(* which follow from them: its entries tell what the engine did.           *)
(*                                                                         *)
(* The inductive invariant Inv of OrderBookProofs gives Viewed: what the   *)
(* mapping shows of a state.  One lemma per action then says which step of *)
(* the reference book it is, or that it is none.                           *)
(***************************************************************************)
EXTENDS OrderBookJournal, OrderBookProofs

-----------------------------------------------------------------------------
(***************************************************************************)
(* Sequences of slots that follow the links of the slots.  Two that start  *)
(* at the same slot are equal, so a queue is found by exhibiting one.      *)
(***************************************************************************)
\* w is the list of slots that starts at first and follows the links of sl.
Follows(sl, first, w) ==
  /\ w \in Seq(Slots)
  /\ IF w = <<>> THEN first = INVALID_INDEX
     ELSE first = w[1] /\ sl[w[Len(w)]].next = INVALID_INDEX
  /\ \A k \in 1 .. Len(w) - 1 : sl[w[k]].next = w[k + 1]

\* Of two lists from the same slot, the one begins like the other ...
LEMMA FollowsPrefix ==
  ASSUME NEW sl, NEW first, NEW v, NEW w, Follows(sl, first, v), Follows(sl, first, w)
  PROVE  Len(v) <= Len(w) /\ \A k \in 1 .. Len(v) : v[k] = w[k]
<1>1. /\ v \in Seq(Slots) /\ w \in Seq(Slots) /\ Len(v) \in Nat /\ Len(w) \in Nat
      /\ INVALID_INDEX \notin Slots
  BY Basics DEF Follows
<1>2. PICK B : B = {k \in 1 .. Len(v) : k > Len(w) \/ v[k] # w[k]}
  OBVIOUS
<1>3. SUFFICES ASSUME B # {} PROVE FALSE
  <2>1. \A k \in 1 .. Len(v) : k <= Len(w) /\ v[k] = w[k]
    BY <1>1, <1>2, <1>3
  <2>2. Len(v) <= Len(w)
    BY <1>1, <2>1
  <2>. QED
    BY <2>1, <2>2
<1>4. PICK m : m \in B /\ \A y \in B : m <= y
  <2>1. B \in SUBSET Nat
    BY <1>1, <1>2
  <2>. QED
    BY <1>3, <2>1, MinOfNat
<1>5. m \in 1 .. Len(v) /\ m \in Nat /\ (m > Len(w) \/ v[m] # w[m]) /\ v # <<>> /\ v[m] \in Slots
  BY <1>1, <1>2, <1>4
<1>6. m # 1
  <2>1. SUFFICES ASSUME m = 1 PROVE FALSE
    OBVIOUS
  <2>2. first = v[1] /\ first \in Slots
    BY <1>1, <1>5, <2>1 DEF Follows
  <2>3. w # <<>> /\ first = w[1]
    BY <1>1, <2>2 DEF Follows
  <2>. QED
    BY <1>1, <1>5, <2>1, <2>2, <2>3
<1>7. m - 1 \in 1 .. Len(v) /\ m - 1 \notin B
  BY <1>1, <1>4, <1>5, <1>6
<1>8. m - 1 <= Len(w) /\ v[m - 1] = w[m - 1]
  BY <1>1, <1>2, <1>5, <1>7
<1>9. sl[v[m - 1]].next = v[m]
  BY <1>1, <1>5, <1>7 DEF Follows
<1>10. m - 1 # Len(w)
  <2>1. SUFFICES ASSUME m - 1 = Len(w) PROVE FALSE
    OBVIOUS
  <2>2. w # <<>>
    BY <1>1, <1>7, <2>1
  <2>3. sl[w[m - 1]].next = INVALID_INDEX
    BY <2>1, <2>2 DEF Follows
  <2>. QED
    BY <1>1, <1>5, <1>8, <1>9, <2>3
<1>11. m - 1 \in 1 .. Len(w) - 1 /\ (m - 1) + 1 = m /\ m <= Len(w)
  BY <1>1, <1>5, <1>7, <1>8, <1>10
<1>12. sl[w[m - 1]].next = w[m]
  BY <1>11 DEF Follows
<1>. QED
  BY <1>1, <1>5, <1>8, <1>9, <1>11, <1>12

\* ... so there is one list.
LEMMA FollowsUnique ==
  ASSUME NEW sl, NEW first, NEW v, NEW w, Follows(sl, first, v), Follows(sl, first, w)
  PROVE  v = w
<1>1. /\ Len(v) <= Len(w) /\ \A k \in 1 .. Len(v) : v[k] = w[k]
      /\ Len(w) <= Len(v)
  BY FollowsPrefix
<1>2. v \in Seq(Slots) /\ w \in Seq(Slots)
  BY DEF Follows
<1>3. Len(v) = Len(w)
  BY <1>1, <1>2
<1>. QED
  BY <1>1, <1>2, <1>3

\* A list stands as long as the links of its slots do.
LEMMA FollowsFrame ==
  ASSUME NEW sl, NEW sl2, NEW first, NEW w, Follows(sl, first, w),
         \A k \in 1 .. Len(w) : sl2[w[k]].next = sl[w[k]].next
  PROVE  Follows(sl2, first, w)
<1>1. w \in Seq(Slots) /\ Len(w) \in Nat /\ (w # <<>> => Len(w) \in 1 .. Len(w))
  BY DEF Follows
<1>2. \A k \in 1 .. Len(w) - 1 : k \in 1 .. Len(w)
  BY <1>1
<1>. QED
  BY <1>1, <1>2 DEF Follows

\* What is left after the first slot.
LEMMA FollowsTail ==
  ASSUME NEW sl, NEW first, NEW w, Follows(sl, first, w), w # <<>>
  PROVE  /\ w[1] = first /\ first \in Slots
         /\ Follows(sl, sl[first].next, Tail(w))
         /\ Len(Tail(w)) = Len(w) - 1
         /\ \A k \in 1 .. Len(w) - 1 : Tail(w)[k] = w[k + 1]
<1>1. w \in Seq(Slots) /\ Len(w) \in Nat \ {0} /\ w[1] = first /\ first \in Slots
  BY DEF Follows
<1>2. PICK t : t = Tail(w)
  OBVIOUS
<1>3. t \in Seq(Slots) /\ Len(t) = Len(w) - 1 /\ \A k \in 1 .. Len(w) - 1 : t[k] = w[k + 1]
  BY <1>1, <1>2
<1>4. CASE Len(w) = 1
  <2>1. t = <<>>
    BY <1>3, <1>4
  <2>2. sl[first].next = INVALID_INDEX
    BY <1>1, <1>4 DEF Follows
  <2>3. Follows(sl, sl[first].next, t)
    BY <1>3, <2>1, <2>2 DEF Follows
  <2>. QED
    BY <1>1, <1>2, <1>3, <2>3
<1>5. CASE Len(w) # 1
  <2>1. t # <<>> /\ 1 \in 1 .. Len(w) - 1 /\ Len(t) \in 1 .. Len(w) - 1
    BY <1>1, <1>3, <1>5
  <2>2. sl[first].next = t[1]
    BY <1>1, <1>3, <2>1 DEF Follows
  <2>3. t[Len(t)] = w[Len(w)]
    BY <1>1, <1>3, <2>1
  <2>4. \A k \in 1 .. Len(t) - 1 : sl[t[k]].next = t[k + 1]
    <3> TAKE k \in 1 .. Len(t) - 1
    <3>1. k \in 1 .. Len(w) - 1 /\ k + 1 \in 1 .. Len(w) - 1
      BY <1>1, <1>3
    <3>. QED
      BY <1>3, <3>1 DEF Follows
  <2>5. sl[t[Len(t)]].next = INVALID_INDEX
    BY <1>1, <2>3 DEF Follows
  <2>6. Follows(sl, sl[first].next, t)
    BY <1>3, <2>1, <2>2, <2>4, <2>5 DEF Follows
  <2>. QED
    BY <1>1, <1>2, <1>3, <2>6
<1>. QED
  BY <1>4, <1>5

\* A new last slot.
LEMMA FollowsAppend ==
  ASSUME NEW sl, NEW first, NEW w, Follows(sl, first, w), NEW i \in Slots,
         NEW sl2, sl2[i].next = INVALID_INDEX,
         \A k \in 1 .. Len(w) : sl2[w[k]].next = IF k = Len(w) THEN i ELSE sl[w[k]].next,
         NEW first2, first2 = IF w = <<>> THEN i ELSE first
  PROVE  Follows(sl2, first2, Append(w, i))
<1>1. w \in Seq(Slots) /\ Len(w) \in Nat
  BY DEF Follows
<1>2. PICK v : v = Append(w, i)
  OBVIOUS
<1>3. /\ v \in Seq(Slots) /\ Len(v) = Len(w) + 1 /\ v # <<>>
      /\ v[Len(v)] = i /\ \A k \in 1 .. Len(w) : v[k] = w[k]
  BY <1>1, <1>2
<1>4. first2 = v[1]
  BY <1>1, <1>3 DEF Follows
<1>5. \A k \in 1 .. Len(v) - 1 : sl2[v[k]].next = v[k + 1]
  <2> TAKE k \in 1 .. Len(v) - 1
  <2>1. k \in 1 .. Len(w) /\ v[k] = w[k]
    BY <1>1, <1>3
  <2>2. CASE k = Len(w)
    BY <1>1, <1>3, <2>1, <2>2
  <2>3. CASE k # Len(w)
    <3>1. k \in 1 .. Len(w) - 1 /\ k + 1 \in 1 .. Len(w)
      BY <1>1, <2>1, <2>3
    <3>2. sl[w[k]].next = w[k + 1]
      BY <3>1 DEF Follows
    <3>. QED
      BY <1>3, <2>1, <2>3, <3>1, <3>2
  <2>. QED
    BY <2>2, <2>3
<1>6. Follows(sl2, first2, v)
  BY <1>3, <1>4, <1>5 DEF Follows
<1>. QED
  BY <1>2, <1>6

\* What RemoveAt leaves.
LEMMA RemoveAtIs ==
  ASSUME NEW T, NEW s \in Seq(T), NEW m \in 1 .. Len(s)
  PROVE  /\ Reference!RemoveAt(s, m) \in Seq(T)
         /\ Len(Reference!RemoveAt(s, m)) = Len(s) - 1
         /\ \A k \in 1 .. Len(s) - 1 :
              Reference!RemoveAt(s, m)[k] = IF k < m THEN s[k] ELSE s[k + 1]
<1>1. PICK a, b : a = SubSeq(s, 1, m - 1) /\ b = SubSeq(s, m + 1, Len(s))
  OBVIOUS
<1>2. Len(s) \in Nat /\ m \in Nat /\ m >= 1 /\ m <= Len(s)
  OBVIOUS
<1>3. a \in Seq(T) /\ Len(a) = m - 1 /\ \A k \in 1 .. m - 1 : a[k] = s[k]
  <2>1. CASE m = 1
    BY <1>1, <1>2, <2>1
  <2>2. CASE m # 1
    BY <1>1, <1>2, <2>2
  <2>. QED
    BY <2>1, <2>2
<1>4. b \in Seq(T) /\ Len(b) = Len(s) - m /\ \A k \in 1 .. Len(s) - m : b[k] = s[m + k]
  <2>1. CASE m = Len(s)
    BY <1>1, <1>2, <2>1
  <2>2. CASE m # Len(s)
    BY <1>1, <1>2, <2>2
  <2>. QED
    BY <2>1, <2>2
<1>5. PICK c : c = a \o b
  OBVIOUS
<1>6. c = Reference!RemoveAt(s, m)
  BY <1>1, <1>5 DEF Reference!RemoveAt
<1>7. /\ c \in Seq(T) /\ Len(c) = Len(a) + Len(b)
      /\ \A k \in 1 .. Len(a) + Len(b) : c[k] = IF k <= Len(a) THEN a[k] ELSE b[k - Len(a)]
  BY <1>3, <1>4, <1>5, ConcatProperties
<1>8. ASSUME NEW k \in 1 .. Len(s) - 1
      PROVE  c[k] = IF k < m THEN s[k] ELSE s[k + 1]
  <2>1. k \in 1 .. Len(a) + Len(b)
    BY <1>2, <1>3, <1>4
  <2>2. CASE k < m
    BY <1>2, <1>3, <1>7, <2>1, <2>2
  <2>3. CASE ~(k < m)
    <3>1. k - Len(a) \in 1 .. Len(s) - m /\ m + (k - Len(a)) = k + 1 /\ ~(k <= Len(a))
      BY <1>2, <1>3, <1>4, <2>3
    <3>. QED
      BY <1>4, <1>7, <2>1, <2>3, <3>1
  <2>. QED
    BY <2>2, <2>3
<1>. QED
  BY <1>2, <1>3, <1>4, <1>6, <1>7, <1>8

\* The slot at place m is unlinked.
LEMMA FollowsRemove ==
  ASSUME NEW sl, NEW first, NEW w, Follows(sl, first, w), NEW m \in 1 .. Len(w), NEW sl2,
         \A k \in 1 .. Len(w) : k # m =>
           sl2[w[k]].next = IF k = m - 1 THEN sl[w[m]].next ELSE sl[w[k]].next,
         NEW first2, first2 = IF m = 1 THEN sl[w[m]].next ELSE first
  PROVE  Follows(sl2, first2, Reference!RemoveAt(w, m))
<1>1. w \in Seq(Slots) /\ Len(w) \in Nat /\ m \in Nat /\ m >= 1 /\ m <= Len(w) /\ w # <<>>
  BY DEF Follows
<1>2. PICK v : v = Reference!RemoveAt(w, m)
  OBVIOUS
<1>3. /\ v \in Seq(Slots) /\ Len(v) = Len(w) - 1
      /\ \A k \in 1 .. Len(w) - 1 : v[k] = IF k < m THEN w[k] ELSE w[k + 1]
  BY <1>1, <1>2, RemoveAtIs
<1>4. \A k \in 1 .. Len(w) : sl[w[k]].next = IF k = Len(w) THEN INVALID_INDEX ELSE w[k + 1]
  BY <1>1 DEF Follows
<1>5. \A k \in 1 .. Len(v) - 1 : sl2[v[k]].next = v[k + 1]
  <2> TAKE k \in 1 .. Len(v) - 1
  <2>1. k \in Nat /\ k >= 1 /\ k <= Len(w) - 2
    BY <1>1, <1>3
  <2>2. CASE k + 1 < m
    <3>1. v[k] = w[k] /\ v[k + 1] = w[k + 1] /\ k \in 1 .. Len(w) /\ k # m /\ k # m - 1 /\ k # Len(w)
      BY <1>1, <1>3, <2>1, <2>2
    <3>. QED
      BY <1>4, <3>1
  <2>3. CASE k + 1 = m
    <3>1. /\ v[k] = w[k] /\ v[k + 1] = w[m + 1] /\ k \in 1 .. Len(w) /\ k # m /\ k = m - 1
          /\ m # Len(w)
      BY <1>1, <1>3, <2>1, <2>3
    <3>. QED
      BY <1>4, <3>1
  <2>4. CASE k + 1 > m
    <3>1. /\ v[k] = w[k + 1] /\ v[k + 1] = w[(k + 1) + 1] /\ k + 1 \in 1 .. Len(w)
          /\ k + 1 # m /\ k + 1 # m - 1 /\ k + 1 # Len(w)
      BY <1>1, <1>3, <2>1, <2>4
    <3>. QED
      BY <1>4, <3>1
  <2>. QED
    BY <1>1, <2>1, <2>2, <2>3, <2>4
<1>6. CASE v = <<>>
  <2>0. Len(w) - 1 = 0
    <3>1. Len(v) = 0
      BY <1>6
    <3>. QED
      BY <1>3, <3>1
  <2>1. Len(w) = 1 /\ m = 1
    <3>1. \A a, b \in Nat : b >= 1 /\ b <= a /\ a - 1 = 0 => a = 1 /\ b = 1
      OBVIOUS
    <3>. QED
      BY <1>1, <2>0, <3>1, Zenon
  <2>2. first2 = INVALID_INDEX
    BY <1>4, <2>1
  <2>. QED
    BY <1>2, <1>3, <1>6, <2>2 DEF Follows
<1>7. CASE v # <<>>
  <2>1. Len(v) >= 1 /\ Len(w) >= 2
    BY <1>1, <1>3, <1>7
  <2>2. first2 = v[1]
    <3>1. CASE m = 1
      BY <1>1, <1>3, <1>4, <2>1, <3>1
    <3>2. CASE m # 1
      <4>1. 1 < m /\ 1 \in 1 .. Len(w) - 1
        BY <1>1, <2>1, <3>2
      <4>. QED
        BY <1>1, <1>3, <3>2, <4>1 DEF Follows
    <3>. QED
      BY <3>1, <3>2
  <2>3. sl2[v[Len(v)]].next = INVALID_INDEX
    <3>1. CASE m = Len(w)
      <4>1. v[Len(v)] = w[m - 1] /\ m - 1 \in 1 .. Len(w) /\ m - 1 # m
        BY <1>1, <1>3, <2>1, <3>1
      <4>. QED
        BY <1>4, <3>1, <4>1
    <3>2. CASE m # Len(w)
      <4>1. v[Len(v)] = w[Len(w)] /\ Len(w) \in 1 .. Len(w) /\ Len(w) # m - 1
        BY <1>1, <1>3, <2>1, <3>2
      <4>. QED
        BY <1>4, <3>2, <4>1
    <3>. QED
      BY <3>1, <3>2
  <2>4. Follows(sl2, first2, v)
    BY <1>3, <1>5, <1>7, <2>2, <2>3 DEF Follows
  <2>. QED
    BY <1>2, <2>4
<1>. QED
  BY <1>6, <1>7

\* w lists the slots of S, each once.
Enumerates(w, S) ==
  /\ \A k \in 1 .. Len(w) : w[k] \in S
  /\ \A j, k \in 1 .. Len(w) : w[j] = w[k] => j = k
  /\ \A i \in S : \E k \in 1 .. Len(w) : w[k] = i

\* The list of a chain follows its links.
LEMMA ListsFollow ==
  ASSUME NEW sl, NEW S \in SUBSET Slots, NEW n \in Nat, NEW first, NEW pos, NEW w,
         Chain(sl, S, n, first, pos), Lists(w, S, n, pos), w = [k \in DOMAIN w |-> w[k]]
  PROVE  Follows(sl, first, w) /\ Enumerates(w, S)
<1>1. /\ DOMAIN w = 1 .. n /\ Len(w) = n
      /\ \A k \in 1 .. n : w[k] \in S /\ pos[w[k]] = k
  BY DEF Lists
<1>2. \A i \in S : pos[i] \in 1 .. n
  BY DEF Chain
<1>3. \A i, j \in S : pos[i] = pos[j] => i = j
  BY DEF Chain
<1>4. \A i \in S : w[pos[i]] = i
  BY <1>1, <1>2, <1>3
<1>5. Enumerates(w, S)
  BY <1>1, <1>2, <1>4 DEF Enumerates
<1>6. w \in Seq(Slots)
  <2>1. w = [k \in 1 .. n |-> w[k]] /\ \A k \in 1 .. n : w[k] \in Slots
    BY <1>1
  <2>2. w \in [1 .. n -> Slots]
    BY <2>1
  <2>. QED
    BY <2>2
<1>7. \A k \in 1 .. Len(w) - 1 : sl[w[k]].next = w[k + 1]
  <2> TAKE k \in 1 .. Len(w) - 1
  <2>1. k \in 1 .. n /\ k + 1 \in 1 .. n /\ k # n
    BY <1>1
  <2>2. sl[w[k]].next \in S /\ pos[sl[w[k]].next] = k + 1
    BY <1>1, <2>1 DEF Chain
  <2>. QED
    BY <1>1, <1>3, <2>1, <2>2
<1>8. CASE n = 0
  <2>1. w = <<>> /\ first = INVALID_INDEX
    BY <1>1, <1>6, <1>8 DEF Chain
  <2>. QED
    BY <1>5, <1>6, <1>7, <2>1 DEF Follows
<1>9. CASE n # 0
  <2>1. w # <<>> /\ 1 \in 1 .. n /\ n \in 1 .. n
    BY <1>1, <1>6, <1>9
  <2>2. first = w[1] /\ sl[w[n]].next = INVALID_INDEX
    BY <1>1, <2>1 DEF Chain
  <2>. QED
    BY <1>1, <1>5, <1>6, <1>7, <2>1, <2>2 DEF Follows
<1>. QED
  BY <1>8, <1>9

-----------------------------------------------------------------------------
(***************************************************************************)
(* The queues the mapping shows: the orders of a level the id map still    *)
(* knows, also while a chain of filled makers waits to be freed.           *)
(***************************************************************************)
\* The orders at a price that the taker has not filled: those the map still knows.
Waits(side, tick) == {i \in Members(slot, allocated, side, tick) : order_map[slot[i].id] = i}

\* The chain path has lost the map entries of exactly the slots it has walked.
LEMMA WaitsAre ==
  ASSUME NEW pos, NEW acc, NEW rank, BookInv(pos, acc, rank), NEW side \in Sides, NEW tick \in Ticks
  PROVE  Waits(side, tick) = {i \in Members(slot, allocated, side, tick) : ~Walked(i, pos)}
<1>1. MapInv(pos) /\ Store(slot, allocated, free_head, levels, pos, acc, rank)
  BY DEF BookInv, Consistent
<1>2. ASSUME NEW i \in Members(slot, allocated, side, tick)
      PROVE  order_map[slot[i].id] = i <=> ~Walked(i, pos)
  <2>1. i \in allocated
    BY DEF Members
  <2>2. i # INVALID_INDEX /\ slot[i].id \in 1 .. MaxOrderId
    BY <1>1, <2>1, LiveSlot
  <2>3. slot[i].id \in 0 .. MaxOrderId
    BY <2>2, BookAssumption
  <2>. QED
    BY <1>1, <2>1, <2>2, <2>3 DEF MapInv
<1>. QED
  BY <1>2 DEF Waits

\* W is the end of S from slot i on, and pos2 numbers it.
EndFrom(S, n, pos, i, W, m, pos2) ==
  /\ i \in S /\ W = {j \in S : ~(pos[j] < pos[i])}
  /\ pos2 = [j \in Slots |-> IF pos[j] < pos[i] THEN 0 ELSE pos[j] - pos[i] + 1]
  /\ m = n - pos[i] + 1

\* The end of a chain is a chain.
LEMMA ChainSuffix ==
  ASSUME NEW sl, NEW S \in SUBSET Slots, NEW n \in Nat, NEW first, NEW pos \in [Slots -> Nat],
         Chain(sl, S, n, first, pos),
         NEW i, NEW W, NEW pos2, NEW m, EndFrom(S, n, pos, i, W, m, pos2)
  PROVE  m \in Nat \ {0} /\ pos2 \in [Slots -> Nat] /\ Chain(sl, W, m, i, pos2)
<1> USE DEF EndFrom
<1>1. pos[i] \in 1 .. n /\ pos[i] \in Nat /\ i \in S
  BY DEF Chain
<1>2. m \in Nat \ {0}
  BY <1>1
<1>3. pos2 \in [Slots -> Nat]
  <2>1. ASSUME NEW j \in Slots PROVE (IF pos[j] < pos[i] THEN 0 ELSE pos[j] - pos[i] + 1) \in Nat
    BY <1>1
  <2>. QED
    BY <2>1
<1>4. ASSUME NEW j \in W
      PROVE  /\ j \in S /\ j \in Slots /\ pos[j] \in 1 .. n /\ pos[j] >= pos[i]
             /\ pos2[j] = pos[j] - pos[i] + 1
  <2>1. j \in S /\ j \in Slots /\ pos[j] \in 1 .. n
    BY DEF Chain
  <2>. QED
    BY <1>1, <2>1
<1>5. i \in W
  BY <1>1
<1>6. \A j \in W : pos2[j] \in 1 .. m
  <2> TAKE j \in W
  <2>1. PICK a, b : a = pos[j] /\ b = pos[i]
    OBVIOUS
  <2>2. a \in 1 .. n /\ a >= b /\ b \in 1 .. n /\ pos2[j] = a - b + 1 /\ m = n - b + 1
    BY <1>1, <1>4, <2>1
  <2>. QED
    BY <2>2
<1>7. \A j, k \in W : pos2[j] = pos2[k] => j = k
  <2> TAKE j, k \in W
  <2>1. HAVE pos2[j] = pos2[k]
  <2>2. pos[j] = pos[k]
    BY <1>1, <1>4, <2>1
  <2>. QED
    BY <1>4, <2>2 DEF Chain
<1>8. pos2[i] = 1
  BY <1>1, <1>4, <1>5
<1>9. ASSUME NEW j \in W
      PROVE  IF pos2[j] = m THEN sl[j].next = INVALID_INDEX
             ELSE sl[j].next \in W /\ pos2[sl[j].next] = pos2[j] + 1
  <2>1. CASE pos2[j] = m
    <3>1. pos[j] = n
      BY <1>1, <1>4, <2>1
    <3>. QED
      BY <1>4, <2>1, <3>1 DEF Chain
  <2>2. CASE pos2[j] # m
    <3>1. pos[j] # n
      BY <1>1, <1>4, <2>2
    <3>2. sl[j].next \in S /\ pos[sl[j].next] = pos[j] + 1
      BY <1>4, <3>1 DEF Chain
    <3>3. sl[j].next \in W
      BY <1>1, <1>4, <3>2
    <3>4. pos2[sl[j].next] = pos[sl[j].next] - pos[i] + 1
      BY <1>4, <3>3
    <3>. QED
      BY <1>1, <1>4, <2>2, <3>2, <3>3, <3>4
  <2>. QED
    BY <2>1, <2>2
<1>10. \A j \in W : pos2[j] = 1 <=> j = i
  BY <1>5, <1>7, <1>8
<1>. QED
  BY <1>2, <1>3, <1>5, <1>6, <1>7, <1>9, <1>10 DEF Chain

\* Walk returns a list.
LEMMA WalkIsList == ASSUME NEW first PROVE Walk(first) = [k \in DOMAIN Walk(first) |-> Walk(first)[k]]
BY DEF Walk

\* The list of a chain in the slots of the book.
LEMMA WalkFollows ==
  ASSUME NEW S \in SUBSET Slots, NEW n \in 0 .. Capacity, NEW first, NEW pos \in [Slots -> Nat],
         Chain(slot, S, n, first, pos)
  PROVE  Follows(slot, first, Walk(first)) /\ Enumerates(Walk(first), S) /\ Lists(Walk(first), S, n, pos)
<1>1. PICK w : w = Walk(first)
  OBVIOUS
<1>2. Lists(w, S, n, pos) /\ w = [k \in DOMAIN w |-> w[k]] /\ n \in Nat
  BY <1>1, WalkChain, WalkIsList, BookAssumption
<1>3. Follows(slot, first, w) /\ Enumerates(w, S)
  BY <1>2, ListsFollow
<1>. QED
  BY <1>1, <1>2, <1>3

\* w is the end of a queue, from its slot c on.
EndOfQueue(w, c, m, S, level, pos) ==
  /\ c \in S /\ m \in Nat \ {0} /\ Len(w) = m /\ m = level.order_count - pos[c] + 1
  /\ \A k \in 1 .. m : w[k] \in S /\ pos[w[k]] = pos[c] + k - 1

\* What the end of a queue holds.
LEMMA EndQuantity ==
  ASSUME NEW S \in SUBSET Slots, NEW level \in Levels,
         NEW pos \in [Slots -> Nat], NEW acc \in [Slots -> Nat],
         Queue(slot, S, level, pos, acc), \A j \in S : slot[j].quantity \in Nat,
         NEW w, NEW c, NEW m, EndOfQueue(w, c, m, S, level, pos)
  PROVE  QuantityOf(w) = level.total_quantity - acc[c] + slot[c].quantity
<1>1. /\ c \in S /\ c \in Slots /\ m \in Nat \ {0} /\ Len(w) = m
      /\ m = level.order_count - pos[c] + 1 /\ level.order_count \in Nat
      /\ acc[c] \in Nat /\ pos[c] \in Nat /\ slot[c].quantity \in Nat
  BY BookAssumption DEF EndOfQueue, Levels
<1>2. \A k \in 1 .. m : /\ w[k] \in S /\ pos[w[k]] = pos[c] + k - 1 /\ w[k] \in Slots
                        /\ acc[w[k]] \in Nat /\ slot[w[k]].quantity \in Nat
  BY DEF EndOfQueue
<1>3. \A i, j \in S : pos[i] = pos[j] => i = j
  BY DEF Queue, Chain
<1>4. w[1] = c
  <2>1. 1 \in 1 .. m /\ pos[c] + 1 - 1 = pos[c]
    BY <1>1
  <2>. QED
    BY <1>1, <1>2, <1>3, <2>1
<1>5. PICK g : g = [k \in 0 .. m |-> IF k = 0 THEN 0 ELSE acc[w[k]] - acc[c] + slot[c].quantity]
  OBVIOUS
<1>6. g[0] = 0 /\ \A k \in 1 .. m : g[k] = acc[w[k]] - acc[c] + slot[c].quantity
  BY <1>1, <1>5
<1>7. \A k \in 1 .. m : acc[c] <= acc[w[k]]
  <2> TAKE k \in 1 .. m
  <2>1. CASE k = 1
    BY <1>1, <1>4, <2>1
  <2>2. CASE k # 1
    <3>1. pos[c] < pos[w[k]]
      BY <1>1, <1>2, <2>2
    <3>2. acc[c] + slot[w[k]].quantity <= acc[w[k]]
      BY <1>1, <1>2, <3>1 DEF Queue, Sums
    <3>3. acc[c] \in Nat /\ acc[w[k]] \in Nat /\ slot[w[k]].quantity \in Nat
      BY <1>1, <1>2
    <3>. QED
      BY <3>2, <3>3
  <2>. QED
    BY <2>1, <2>2
<1>8. g \in [0 .. m -> Nat]
  <2>1. ASSUME NEW k \in 1 .. m PROVE g[k] \in Nat
    BY <1>1, <1>2, <1>6, <1>7
  <2>2. \A k \in 0 .. m : k = 0 \/ k \in 1 .. m
    BY <1>1
  <2>3. \A k \in 0 .. m : g[k] \in Nat
    BY <1>6, <2>1, <2>2
  <2>. QED
    BY <1>5, <2>3
<1>9. \A k \in 1 .. m : g[k] = g[k - 1] + slot[w[k]].quantity
  <2> TAKE k \in 1 .. m
  <2>1. CASE k = 1
    BY <1>1, <1>2, <1>4, <1>6, <2>1
  <2>2. CASE k # 1
    <3>1. k - 1 \in 1 .. m
      BY <1>1, <2>2
    <3>2. pos[w[k]] = pos[w[k - 1]] + 1
      <4>1. pos[w[k]] = pos[c] + k - 1 /\ pos[w[k - 1]] = pos[c] + (k - 1) - 1
        BY <1>2, <3>1
      <4>2. \A a \in Nat : a + k - 1 = (a + (k - 1) - 1) + 1
        OBVIOUS
      <4>. QED
        BY <1>1, <4>1, <4>2
    <3>3. acc[w[k]] = acc[w[k - 1]] + slot[w[k]].quantity
      BY <1>2, <3>1, <3>2 DEF Queue, Sums
    <3>4. g[k - 1] = acc[w[k - 1]] - acc[c] + slot[c].quantity
      BY <1>6, <3>1
    <3>5. acc[w[k - 1]] \in Nat
      BY <1>2, <3>1
    <3>6. g[k] = acc[w[k]] - acc[c] + slot[c].quantity /\ slot[w[k]].quantity \in Nat
      BY <1>2, <1>6
    <3>7. PICK a, b, d, q : a = acc[w[k - 1]] /\ b = acc[c] /\ d = slot[c].quantity /\ q = slot[w[k]].quantity
      OBVIOUS
    <3>8. a \in Nat /\ b \in Nat /\ d \in Nat /\ q \in Nat /\ g[k - 1] = a - b + d /\ g[k] = (a + q) - b + d
      BY <1>1, <3>3, <3>4, <3>5, <3>6, <3>7
    <3>. QED
      BY <3>7, <3>8
  <2>. QED
    BY <2>1, <2>2
<1>10. QuantityOf(w) = g[m]
  <2>1. Adds(g, w, m)
    BY <1>1, <1>6, <1>8, <1>9 DEF Adds
  <2>. QED
    BY <2>1, QuantityIs
<1>11. w[m] = level.tail
  <2>1. m \in 1 .. m /\ pos[c] + m - 1 = level.order_count
    <3>1. \A n, a \in Nat : a + (n - a + 1) - 1 = n
      OBVIOUS
    <3>2. m \in 1 .. m
      BY <1>1
    <3>. QED
      BY <1>1, <3>1, <3>2
  <2>2. level.tail \in S /\ pos[level.tail] = level.order_count
    BY <1>1 DEF Queue, Backward
  <2>. QED
    BY <1>2, <1>3, <2>1, <2>2
<1>12. acc[level.tail] = level.total_quantity
  BY <1>1 DEF Queue, Sums
<1>13. m \in 1 .. m
  BY <1>1
<1>. QED
  BY <1>6, <1>10, <1>11, <1>12, <1>13

\* The level whose chain is being walked.
Walking(side, tick) == InChain /\ side = MakerSide /\ tick = best[side].idx

\* The abstract queue of a level lists the orders that wait there.
QueueView(side, tick) ==
  /\ Follows(slot, QueueStart(side, tick), QueueSlots(side, tick))
  /\ Enumerates(QueueSlots(side, tick), Waits(side, tick))

\* Where no chain is walked these are all orders of the level.
LEMMA WholeView ==
  ASSUME NEW pos, NEW acc, NEW rank, BookInv(pos, acc, rank), NEW side \in Sides, NEW tick \in Ticks,
         ~Walking(side, tick)
  PROVE  /\ QueueView(side, tick)
         /\ QueueStart(side, tick) = levels[side][tick].head
         /\ Waits(side, tick) = Members(slot, allocated, side, tick)
<1>1. PICK S, level : S = Members(slot, allocated, side, tick) /\ level = levels[side][tick]
  OBVIOUS
<1>2. Store(slot, allocated, free_head, levels, pos, acc, rank) /\ pos \in [Slots -> Nat]
  BY DEF BookInv, Consistent, Store
<1>3. Queue(slot, S, level, pos, acc) /\ S \in SUBSET Slots /\ level \in Levels
  BY <1>1, <1>2, LevelFacts
<1>4. level.order_count \in 0 .. Capacity /\ Chain(slot, S, level.order_count, level.head, pos)
  BY <1>3 DEF Queue, Levels
<1>5. Follows(slot, level.head, Walk(level.head)) /\ Enumerates(Walk(level.head), S)
  <2>1. PICK first, n : first = level.head /\ n = level.order_count
    OBVIOUS
  <2>2. Follows(slot, first, Walk(first)) /\ Enumerates(Walk(first), S)
    BY <1>2, <1>3, <1>4, <2>1, WalkFollows
  <2>. QED
    BY <2>1, <2>2
<1>6. QueueStart(side, tick) = level.head
  BY <1>1 DEF QueueStart, Walking
<1>7. Waits(side, tick) = S
  <2>1. ASSUME NEW i \in S PROVE ~Walked(i, pos)
    <3>1. SUFFICES ASSUME Walked(i, pos) PROVE FALSE
      OBVIOUS
    <3>2. /\ InChain /\ MakerSide \in Sides /\ best[MakerSide].idx \in Ticks
          /\ slot[i].side = MakerSide /\ slot[i].price = MinPrice + best[MakerSide].idx
      BY <3>1, Matching DEF Walked, Members, InChain
    <3>3. slot[i].side = side /\ slot[i].price = MinPrice + tick
      BY <1>1 DEF Members
    <3>4. tick = best[MakerSide].idx
      BY <3>2, <3>3, PriceAssumption, Sizes DEF Ticks
    <3>. QED
      BY <3>2, <3>3, <3>4 DEF Walking
  <2>. QED
    BY <1>1, <2>1, WaitsAre
<1>. QED
  BY <1>1, <1>5, <1>6, <1>7 DEF QueueView, QueueSlots

\* Where one is walked they are the orders from the cursor on, and the taker
\* has still to trade what they hold.
LEMMA ChainView ==
  ASSUME NEW pos, NEW acc, NEW rank, BookInv(pos, acc, rank), NEW side \in Sides, NEW tick \in Ticks,
         Walking(side, tick)
  PROVE  /\ QueueView(side, tick)
         /\ QueueStart(side, tick) = cursor
         /\ AbstractRemaining = taker.quantity - reported
<1>1. PICK S, level : S = Members(slot, allocated, side, tick) /\ level = levels[side][tick]
  OBVIOUS
<1>2. /\ pc = "walk" /\ path = "chain" /\ side = MakerSide /\ tick = best[MakerSide].idx
      /\ level = BestLevel /\ QueueStart(side, tick) = cursor /\ InChain
  BY <1>1 DEF Walking, InChain, BestLevel, QueueStart
<1>3. /\ best[MakerSide].has /\ ChainInv(acc)
      /\ pos \in [Slots -> Nat] /\ acc \in [Slots -> Nat]
  BY <1>2 DEF BookInv, CallInv, AtBest, WalkInv, Consistent, Store
<1>4. /\ Queue(slot, S, level, pos, acc)
      /\ S \in SUBSET Slots /\ level \in Levels
      /\ level.order_count \in Nat \ {0} /\ level.total_quantity \in Nat
      /\ level.tail \in S /\ pos[level.tail] = level.order_count
      /\ \A j \in S : slot[j].quantity \in Nat
  BY <1>1, <1>2, <1>3, AtBestLevel
<1>5. /\ level.order_count \in 0 .. Capacity
      /\ Chain(slot, S, level.order_count, level.head, pos)
  BY <1>4 DEF Queue, Levels
<1>6. Waits(side, tick) = {i \in S : ~(cursor = INVALID_INDEX \/ pos[i] < pos[cursor])}
  BY <1>1, <1>2, WaitsAre DEF Walked
<1>7. /\ taker.quantity \in Nat /\ remaining \in Nat /\ reported \in Nat
  BY <1>2, Matching
<1>8. CASE cursor = INVALID_INDEX
  <2>1. Chain(slot, {}, 0, cursor, pos) /\ 0 \in 0 .. Capacity /\ {} \in SUBSET Slots
    BY <1>8, BookAssumption DEF Chain
  <2>2. Follows(slot, cursor, Walk(cursor)) /\ Enumerates(Walk(cursor), {}) /\ Lists(Walk(cursor), {}, 0, pos)
    BY <1>3, <2>1, WalkFollows
  <2>3. Waits(side, tick) = {}
    BY <1>6, <1>8
  <2>4. QuantityOf(Walk(cursor)) = 0
    <3>1. PICK w, g : w = Walk(cursor) /\ g = [k \in 0 .. 0 |-> 0]
      OBVIOUS
    <3>2. Len(w) = 0
      BY <2>2, <3>1 DEF Lists
    <3>3. Adds(g, w, 0) /\ g[0] = 0
      BY <3>1, <3>2 DEF Adds
    <3>. QED
      BY <3>1, <3>3, QuantityIs
  <2>5. reported = taker.quantity - remaining + level.total_quantity
    BY <1>2, <1>3, <1>8 DEF ChainInv
  <2>6. AbstractRemaining = remaining - (level.total_quantity - 0)
    BY <1>2, <2>4 DEF AbstractRemaining
  <2>7. AbstractRemaining = taker.quantity - reported
    BY <1>4, <1>7, <2>5, <2>6
  <2>. QED
    BY <1>2, <2>2, <2>3, <2>7 DEF QueueView, QueueSlots
<1>9. CASE cursor # INVALID_INDEX
  <2>1. /\ cursor \in S /\ cursor \in Slots /\ pos[cursor] \in 1 .. level.order_count
        /\ acc[cursor] \in Nat /\ slot[cursor].quantity \in Nat
        /\ reported = taker.quantity - remaining + acc[cursor] - slot[cursor].quantity
    BY <1>1, <1>2, <1>3, <1>4, <1>5, <1>9 DEF ChainInv, Chain
  <2>2. PICK W, pos2, m :
          /\ W = {j \in S : ~(pos[j] < pos[cursor])}
          /\ pos2 = [j \in Slots |-> IF pos[j] < pos[cursor] THEN 0 ELSE pos[j] - pos[cursor] + 1]
          /\ m = level.order_count - pos[cursor] + 1
    OBVIOUS
  <2>3. m \in Nat \ {0} /\ pos2 \in [Slots -> Nat] /\ Chain(slot, W, m, cursor, pos2)
    <3>1. PICK n, first, i : n = level.order_count /\ first = level.head /\ i = cursor
      OBVIOUS
    <3>2. n \in Nat /\ Chain(slot, S, n, first, pos) /\ EndFrom(S, n, pos, i, W, m, pos2)
      BY <1>4, <1>5, <2>1, <2>2, <3>1 DEF EndFrom
    <3>3. m \in Nat \ {0} /\ pos2 \in [Slots -> Nat] /\ Chain(slot, W, m, i, pos2)
      BY <1>3, <1>4, <3>2, ChainSuffix
    <3>. QED
      BY <3>1, <3>3
  <2>4. m \in 0 .. Capacity /\ W \in SUBSET Slots
    BY <1>4, <1>5, <2>1, <2>2, <2>3, BookAssumption
  <2>5. Follows(slot, cursor, Walk(cursor)) /\ Enumerates(Walk(cursor), W) /\ Lists(Walk(cursor), W, m, pos2)
    BY <2>3, <2>4, WalkFollows
  <2>6. Waits(side, tick) = W
    BY <1>6, <1>9, <2>2
  <2>7. QuantityOf(Walk(cursor)) = level.total_quantity - acc[cursor] + slot[cursor].quantity
    <3>1. PICK w, c : w = Walk(cursor) /\ c = cursor
      OBVIOUS
    <3>2. ASSUME NEW k \in 1 .. m PROVE w[k] \in S /\ pos[w[k]] = pos[c] + k - 1
      <4>1. w[k] \in W /\ pos2[w[k]] = k
        BY <2>5, <3>1 DEF Lists
      <4>2. w[k] \in S /\ w[k] \in Slots /\ pos[w[k]] \in Nat /\ ~(pos[w[k]] < pos[c])
        BY <1>3, <1>4, <2>2, <3>1, <4>1
      <4>3. pos2[w[k]] = pos[w[k]] - pos[c] + 1
        BY <2>2, <3>1, <4>2
      <4>4. pos[c] \in Nat
        BY <2>1, <3>1
      <4>. QED
        BY <4>1, <4>2, <4>3, <4>4
    <3>3. EndOfQueue(w, c, m, S, level, pos)
      BY <2>1, <2>2, <2>3, <2>5, <3>1, <3>2 DEF EndOfQueue, Lists
    <3>4. QuantityOf(w) = level.total_quantity - acc[c] + slot[c].quantity
      BY <1>3, <1>4, <3>3, EndQuantity
    <3>. QED
      BY <3>1, <3>4
  <2>8. AbstractRemaining = remaining - (level.total_quantity - QuantityOf(Walk(cursor)))
    BY <1>2 DEF AbstractRemaining
  <2>9. AbstractRemaining = taker.quantity - reported
    BY <1>4, <1>7, <2>1, <2>7, <2>8
  <2>10. QueueView(side, tick)
    BY <1>2, <2>5, <2>6, Zenon DEF QueueView, QueueSlots
  <2>. QED
    BY <1>2, <2>9, <2>10, Zenon
<1>. QED
  BY <1>8, <1>9

-----------------------------------------------------------------------------
(***************************************************************************)
(* What the mapping shows of a state, and what a step must leave alone for *)
(* a queue to stay.                                                        *)
(***************************************************************************)
\* What the mapping to the reference book shows of a state.
Viewed ==
  /\ \A side \in Sides, tick \in Ticks : QueueView(side, tick)
  /\ AbstractRemaining = IF pc \in {"match", "walk", "level"} THEN taker.quantity - reported
                         ELSE remaining

\* The mapping shows every queue, also inside a chain, and the quantity the taker
\* has not been told to trade.
LEMMA InvViewed == ASSUME Inv PROVE Viewed
<1>1. PICK pos, acc, rank : BookInv(pos, acc, rank)
  BY DEF Inv
<1>2. \A side \in Sides, tick \in Ticks : QueueView(side, tick)
  <2> TAKE side \in Sides, tick \in Ticks
  <2>1. CASE Walking(side, tick)
    BY <1>1, <2>1, ChainView
  <2>2. CASE ~Walking(side, tick)
    BY <1>1, <2>2, WholeView
  <2>. QED
    BY <2>1, <2>2
<1>3. CASE InChain
  <2>1. pc = "walk" /\ MakerSide \in Sides /\ best[MakerSide].idx \in Ticks
    BY <1>1, <1>3, Matching DEF InChain
  <2>2. Walking(MakerSide, best[MakerSide].idx)
    BY <1>3 DEF Walking
  <2>3. AbstractRemaining = taker.quantity - reported
    BY <1>1, <2>1, <2>2, ChainView
  <2>. QED
    BY <1>2, <2>1, <2>3 DEF Viewed
<1>4. CASE ~InChain
  <2>1. AbstractRemaining = remaining
    BY <1>4 DEF AbstractRemaining
  <2>2. ASSUME pc \in {"match", "walk", "level"} PROVE remaining = taker.quantity - reported
    <3>1. /\ taker.quantity \in Nat /\ remaining \in Nat
      BY <1>1, <2>2, Matching
    <3>2. reported = taker.quantity - remaining
      <4>1. CASE pc \in {"match", "level"}
        BY <1>1, <4>1 DEF BookInv, CallInv
      <4>2. CASE pc = "walk"
        BY <1>1, <1>4, <4>2 DEF BookInv, CallInv, WalkInv, SingleInv, SlowInv, InChain
      <4>. QED
        BY <2>2, <4>1, <4>2
    <3>. QED
      BY <3>1, <3>2
  <2>. QED
    BY <1>2, <2>1, <2>2 DEF Viewed
<1>. QED
  BY <1>3, <1>4

\* The ids and quantities of the slots of w, as the reference book keeps them.
Told(sl, w) == [k \in DOMAIN w |-> [id |-> sl[w[k]].id, quantity |-> sl[w[k]].quantity]]

\* Prices and ticks.
LEMMA TickOfPrice ==
  /\ \A tick \in Ticks : MinPrice + tick \in MinPrice .. MaxPrice /\ (MinPrice + tick) - MinPrice = tick
  /\ \A price \in MinPrice .. MaxPrice : price - MinPrice \in Ticks /\ MinPrice + (price - MinPrice) = price
  /\ \A s, t \in Ticks : MinPrice + s = MinPrice + t => s = t
BY PriceAssumption DEF Ticks, PriceRange

\* The abstract queues, by tick.
LEMMA QueueAt ==
  /\ DOMAIN AbstractQueue = Sides
  /\ \A side \in Sides : DOMAIN AbstractQueue[side] = MinPrice .. MaxPrice
  /\ AbstractQueue = [side \in Sides |-> [price \in MinPrice .. MaxPrice |-> AbstractQueue[side][price]]]
  /\ \A side \in Sides, tick \in Ticks :
       AbstractQueue[side][MinPrice + tick] = Told(slot, QueueSlots(side, tick))
<1>1. \A side \in Sides, price \in MinPrice .. MaxPrice :
        AbstractQueue[side][price] = Told(slot, QueueSlots(side, price - MinPrice))
  BY Zenon DEF AbstractQueue, Told
<1>2. \A side \in Sides, tick \in Ticks :
       AbstractQueue[side][MinPrice + tick] = Told(slot, QueueSlots(side, tick))
  <2> TAKE side \in Sides, tick \in Ticks
  <2>1. PICK p : p = MinPrice + tick
    OBVIOUS
  <2>2. p \in MinPrice .. MaxPrice /\ p - MinPrice = tick
    BY <2>1, TickOfPrice
  <2>3. AbstractQueue[side][p] = Told(slot, QueueSlots(side, p - MinPrice))
    BY <1>1, <2>2, Zenon
  <2>. QED
    BY <2>1, <2>2, <2>3, Zenon
<1>3. /\ DOMAIN AbstractQueue = Sides
      /\ \A side \in Sides : DOMAIN AbstractQueue[side] = MinPrice .. MaxPrice
      /\ AbstractQueue = [side \in Sides |-> [price \in MinPrice .. MaxPrice |-> AbstractQueue[side][price]]]
  BY Zenon DEF AbstractQueue
<1>. QED
  BY <1>2, <1>3

\* The same in the next state.
LEMMA QueueAtNext ==
  /\ DOMAIN AbstractQueue' = Sides
  /\ \A side \in Sides : DOMAIN AbstractQueue'[side] = MinPrice .. MaxPrice
  /\ AbstractQueue' = [side \in Sides |-> [price \in MinPrice .. MaxPrice |-> AbstractQueue'[side][price]]]
  /\ \A side \in Sides, tick \in Ticks :
       AbstractQueue'[side][MinPrice + tick] = Told(slot', QueueSlots(side, tick)')
<1>1. \A side \in Sides, price \in MinPrice .. MaxPrice :
        AbstractQueue'[side][price] = Told(slot', QueueSlots(side, price - MinPrice)')
  BY Zenon DEF AbstractQueue, Told
<1>2. \A side \in Sides, tick \in Ticks :
       AbstractQueue'[side][MinPrice + tick] = Told(slot', QueueSlots(side, tick)')
  <2> TAKE side \in Sides, tick \in Ticks
  <2>1. PICK p : p = MinPrice + tick
    OBVIOUS
  <2>2. p \in MinPrice .. MaxPrice /\ p - MinPrice = tick
    BY <2>1, TickOfPrice
  <2>3. AbstractQueue'[side][p] = Told(slot', QueueSlots(side, p - MinPrice)')
    BY <1>1, <2>2, Zenon
  <2>. QED
    BY <2>1, <2>2, <2>3, Zenon
<1>3. /\ DOMAIN AbstractQueue' = Sides
      /\ \A side \in Sides : DOMAIN AbstractQueue'[side] = MinPrice .. MaxPrice
      /\ AbstractQueue' = [side \in Sides |-> [price \in MinPrice .. MaxPrice |-> AbstractQueue'[side][price]]]
  BY Zenon DEF AbstractQueue
<1>. QED
  BY <1>2, <1>3

\* A queue stays when it starts where it did and its slots keep what it is made of.
Untouched(side, tick) ==
  /\ QueueStart(side, tick)' = QueueStart(side, tick)
  /\ \A i \in Waits(side, tick) :
       /\ slot'[i].next = slot[i].next
       /\ slot'[i].id = slot[i].id
       /\ slot'[i].quantity = slot[i].quantity

\* Such a queue shows the same orders after the step.
LEMMA QueueStays ==
  ASSUME Viewed, Viewed', NEW side \in Sides, NEW tick \in Ticks, Untouched(side, tick)
  PROVE  AbstractQueue'[side][MinPrice + tick] = AbstractQueue[side][MinPrice + tick]
<1>1. PICK w, v, first, sl, sl2 :
        /\ w = QueueSlots(side, tick) /\ v = QueueSlots(side, tick)'
        /\ first = QueueStart(side, tick) /\ sl = slot /\ sl2 = slot'
  OBVIOUS
<1>2. QueueView(side, tick) /\ QueueView(side, tick)'
  BY Zenon DEF Viewed
<1>3. Follows(sl, first, w) /\ Enumerates(w, Waits(side, tick))
  BY <1>1, <1>2, Zenon DEF QueueView
<1>4. Follows(sl2, first, v)
  <2>1. Follows(slot', QueueStart(side, tick)', QueueSlots(side, tick)')
    BY <1>2, Zenon DEF QueueView
  <2>. QED
    BY <1>1, <2>1, Zenon DEF Untouched
<1>5. \A k \in 1 .. Len(w) : /\ sl2[w[k]].next = sl[w[k]].next
                             /\ sl2[w[k]].id = sl[w[k]].id
                             /\ sl2[w[k]].quantity = sl[w[k]].quantity
  BY <1>1, <1>3, Zenon DEF Untouched, Enumerates
<1>6. Follows(sl2, first, w)
  BY <1>3, <1>5, FollowsFrame
<1>7. v = w
  BY <1>4, <1>6, FollowsUnique, Zenon
<1>8. DOMAIN w = 1 .. Len(w)
  BY <1>3 DEF Follows
<1>9. Told(sl2, w) = Told(sl, w)
  BY <1>5, <1>8 DEF Told
<1>10. AbstractQueue[side][MinPrice + tick] = Told(sl, w)
  BY <1>1, QueueAt
<1>11. AbstractQueue'[side][MinPrice + tick] = Told(sl2, v)
  BY <1>1, QueueAtNext
<1>. QED
  BY <1>7, <1>9, <1>10, <1>11, Zenon

\* All queues stay.
LEMMA QueuesStay ==
  ASSUME Viewed, Viewed', \A side \in Sides, tick \in Ticks : Untouched(side, tick)
  PROVE  AbstractQueue' = AbstractQueue
<1>1. ASSUME NEW side \in Sides, NEW price \in MinPrice .. MaxPrice
      PROVE  AbstractQueue'[side][price] = AbstractQueue[side][price]
  <2>1. PICK t : t = price - MinPrice
    OBVIOUS
  <2>2. t \in Ticks /\ MinPrice + t = price
    BY <2>1, TickOfPrice
  <2>3. AbstractQueue'[side][MinPrice + t] = AbstractQueue[side][MinPrice + t]
    BY <2>2, QueueStays
  <2>. QED
    BY <2>2, <2>3, Zenon
<1>2. PICK a, b : a = AbstractQueue /\ b = AbstractQueue'
  OBVIOUS
<1>3. /\ a = [side \in Sides |-> [price \in MinPrice .. MaxPrice |-> a[side][price]]]
      /\ b = [side \in Sides |-> [price \in MinPrice .. MaxPrice |-> b[side][price]]]
      /\ \A side \in Sides, price \in MinPrice .. MaxPrice : b[side][price] = a[side][price]
  BY <1>1, <1>2, QueueAt, QueueAtNext, Zenon
<1>4. b = a
  BY <1>3
<1>. QED
  BY <1>2, <1>4

\* One queue changes.
LEMMA QueuesChange ==
  ASSUME Viewed, Viewed', NEW side0 \in Sides, NEW tick0 \in Ticks,
         \A side \in Sides, tick \in Ticks : side # side0 \/ tick # tick0 => Untouched(side, tick)
  PROVE  AbstractQueue' = [AbstractQueue EXCEPT ![side0][MinPrice + tick0] =
                             Told(slot', QueueSlots(side0, tick0)')]
<1>1. PICK a, b, p0, q : /\ a = AbstractQueue /\ b = AbstractQueue' /\ p0 = MinPrice + tick0
                         /\ q = Told(slot', QueueSlots(side0, tick0)')
  OBVIOUS
<1>2. p0 \in MinPrice .. MaxPrice /\ b[side0][p0] = q
  BY <1>1, TickOfPrice, QueueAtNext, Zenon
<1>3. ASSUME NEW side \in Sides, NEW price \in MinPrice .. MaxPrice, side # side0 \/ price # p0
      PROVE  b[side][price] = a[side][price]
  <2>1. PICK t : t = price - MinPrice
    OBVIOUS
  <2>2. t \in Ticks /\ MinPrice + t = price
    BY <2>1, TickOfPrice
  <2>3. side # side0 \/ t # tick0
    BY <1>1, <1>3, <2>2, Zenon
  <2>4. AbstractQueue'[side][MinPrice + t] = AbstractQueue[side][MinPrice + t]
    BY <2>2, <2>3, QueueStays
  <2>. QED
    BY <1>1, <2>2, <2>4, Zenon
<1>4. /\ a = [side \in Sides |-> [price \in MinPrice .. MaxPrice |-> a[side][price]]]
      /\ b = [side \in Sides |-> [price \in MinPrice .. MaxPrice |-> b[side][price]]]
  BY <1>1, QueueAt, QueueAtNext, Zenon
<1>5. b = [a EXCEPT ![side0][p0] = q]
  <2>1. PICK c : c = [a EXCEPT ![side0] = [a[side0] EXCEPT ![p0] = q]]
    OBVIOUS
  <2>2. DOMAIN a = Sides /\ \A side \in Sides : DOMAIN a[side] = MinPrice .. MaxPrice
    BY <1>1, QueueAt, Zenon
  <2>3. /\ c = [side \in Sides |-> IF side = side0 THEN [a[side0] EXCEPT ![p0] = q] ELSE a[side]]
    BY <2>1, <2>2
  <2>4. ASSUME NEW side \in Sides PROVE c[side] = b[side]
    <3>1. b[side] = [price \in MinPrice .. MaxPrice |-> b[side][price]]
      BY <1>4
    <3>2. CASE side = side0
      <4>1. c[side] = [price \in MinPrice .. MaxPrice |-> IF price = p0 THEN q ELSE a[side][price]]
        BY <2>2, <2>3, <3>2
      <4>2. \A price \in MinPrice .. MaxPrice : b[side][price] = IF price = p0 THEN q ELSE a[side][price]
        BY <1>2, <1>3, <3>2
      <4>. QED
        BY <3>1, <4>1, <4>2
    <3>3. CASE side # side0
      <4>1. c[side] = a[side]
        BY <2>3, <3>3
      <4>2. a[side] = [price \in MinPrice .. MaxPrice |-> a[side][price]]
        BY <1>4
      <4>3. \A price \in MinPrice .. MaxPrice : b[side][price] = a[side][price]
        BY <1>3, <3>3
      <4>. QED
        BY <3>1, <4>1, <4>2, <4>3
    <3>. QED
      BY <3>2, <3>3
  <2>5. c = b
    <3>1. b = [side \in Sides |-> b[side]] /\ c = [side \in Sides |-> c[side]]
      BY <1>4, <2>3
    <3>. QED
      BY <2>4, <3>1
  <2>6. c = [a EXCEPT ![side0][p0] = q]
    BY <2>1
  <2>. QED
    BY <2>5, <2>6
<1>. QED
  BY <1>1, <1>5

-----------------------------------------------------------------------------
(***************************************************************************)
(* The best prices, and whether the taker crosses, are the reference's.    *)
(***************************************************************************)
\* A queue is empty when it has no first slot.
LEMMA QueueEmpty ==
  ASSUME Viewed, NEW side \in Sides, NEW tick \in Ticks
  PROVE  /\ AbstractQueue[side][MinPrice + tick] = <<>> <=> QueueStart(side, tick) = INVALID_INDEX
         /\ AbstractQueue[side][MinPrice + tick] = Told(slot, QueueSlots(side, tick))
         /\ QueueSlots(side, tick) \in Seq(Slots)
<1>1. PICK w, first, q : /\ w = QueueSlots(side, tick) /\ first = QueueStart(side, tick)
                         /\ q = AbstractQueue[side][MinPrice + tick]
  OBVIOUS
<1>2. Follows(slot, first, w)
  BY <1>1, Zenon DEF Viewed, QueueView
<1>3. q = Told(slot, w)
  BY <1>1, QueueAt
<1>4. w \in Seq(Slots) /\ DOMAIN w = 1 .. Len(w) /\ Len(w) \in Nat
  BY <1>2 DEF Follows
<1>5. q = <<>> <=> w = <<>>
  BY <1>3, <1>4 DEF Told
<1>6. w = <<>> <=> first = INVALID_INDEX
  BY <1>2, <1>4, Basics DEF Follows
<1>. QED
  BY <1>1, <1>3, <1>4, <1>5, <1>6

\* The states in which the reference book looks for the best price.
Looking == pc \in {"idle", "match"} \/ OnTrade

\* In them a tick has its bit exactly when the abstract queue holds an order.
LEMMA OccupiedAre ==
  ASSUME NEW pos, NEW acc, NEW rank, BookInv(pos, acc, rank), Viewed, Looking,
         NEW side \in Sides, NEW tick \in Ticks
  PROVE  AbstractQueue[side][MinPrice + tick] # <<>> <=> tick \in SetTicks(index[side])
<1>1. pc \in {"idle", "match", "walk"} /\ (pc = "walk" => cursor # INVALID_INDEX)
  BY DEF Looking, OnTrade
<1>2. SetTicks(index[side]) = Occupied(levels, side)
  BY <1>1 DEF BookInv, Consistent, IndexInv, Pending
<1>3. tick \in SetTicks(index[side]) <=> ~IsEmpty(levels[side][tick])
  BY <1>2 DEF Occupied
<1>4. AbstractQueue[side][MinPrice + tick] # <<>> <=> QueueStart(side, tick) # INVALID_INDEX
  BY QueueEmpty
<1>5. CASE Walking(side, tick)
  <2>1. QueueStart(side, tick) = cursor /\ cursor # INVALID_INDEX
    BY <1>1, <1>5 DEF Walking, InChain, QueueStart
  <2>2. pc = "walk" /\ path = "chain" /\ levels[side][tick] = BestLevel
    BY <1>5 DEF Walking, InChain, BestLevel
  <2>3. ~IsEmpty(BestLevel)
    BY <2>2 DEF BookInv, CallInv, WalkInv, ChainInv
  <2>. QED
    BY <1>3, <1>4, <2>1, <2>2, <2>3
<1>6. CASE ~Walking(side, tick)
  <2>1. QueueStart(side, tick) = levels[side][tick].head
    BY <1>6, WholeView
  <2>. QED
    BY <1>3, <1>4, <2>1 DEF IsEmpty
<1>. QED
  BY <1>5, <1>6

\* So the reference book finds a best price when the engine has one cached.
LEMMA OccupiedAgrees ==
  ASSUME NEW pos, NEW acc, NEW rank, BookInv(pos, acc, rank), Viewed, Looking, NEW side \in Sides
  PROVE  /\ Reference!Occupied(side) = {} <=> ~best[side].has
         /\ best[side].has =>
              /\ best[side].price = MinPrice + best[side].idx /\ best[side].idx \in Ticks
              /\ side = "Sell" => Reference!Min(Reference!Occupied(side)) = best[side].price
              /\ side = "Buy" => Reference!Max(Reference!Occupied(side)) = best[side].price
<1>1. PICK P, T, b : P = Reference!Occupied(side) /\ T = SetTicks(index[side]) /\ b = best[side]
  OBVIOUS
<1>2. P = {price \in MinPrice .. MaxPrice : AbstractQueue[side][price] # <<>>}
  BY <1>1 DEF Reference!Occupied, Reference!Prices
<1>3. \A tick \in Ticks : MinPrice + tick \in P <=> tick \in T
  <2> TAKE tick \in Ticks
  <2>1. MinPrice + tick \in MinPrice .. MaxPrice
    BY TickOfPrice
  <2>. QED
    BY <1>1, <1>2, <2>1, OccupiedAre
<1>4. BestOn(T, side, b) /\ b \in Bests
  BY <1>1 DEF BookInv, Consistent, BestInv, CallType
<1>5. T \in SUBSET Ticks
  <2>1. T = Occupied(levels, side)
    BY <1>1 DEF BookInv, Consistent, IndexInv, Pending, Looking, OnTrade
  <2>. QED
    BY <2>1 DEF Occupied
<1>6. P \in SUBSET Nat /\ \A price \in P : /\ price - MinPrice \in T
                                           /\ price = MinPrice + (price - MinPrice)
  <2>1. ASSUME NEW price \in P
        PROVE price \in Nat /\ price - MinPrice \in T /\ price = MinPrice + (price - MinPrice)
    <3>1. price \in MinPrice .. MaxPrice
      BY <1>2
    <3>2. price - MinPrice \in Ticks /\ MinPrice + (price - MinPrice) = price /\ price \in Nat
      BY <3>1, TickOfPrice, PriceAssumption
    <3>. QED
      BY <1>3, <3>2
  <2>. QED
    BY <2>1
<1>7. P = {} <=> T = {}
  BY <1>3, <1>5, <1>6
<1>8. T = {} <=> ~b.has
  BY <1>4 DEF BestOn
<1>9. ASSUME b.has
      PROVE  /\ b.price = MinPrice + b.idx /\ b.idx \in Ticks
             /\ side = "Sell" => Reference!Min(P) = b.price
             /\ side = "Buy" => Reference!Max(P) = b.price
  <2>1. /\ b.idx \in T /\ b.price = MinPrice + b.idx /\ b.idx \in Ticks
        /\ \A t \in T : IF side = "Buy" THEN t <= b.idx ELSE b.idx <= t
    BY <1>4, <1>5, <1>9 DEF BestOn
  <2>2. b.price \in P
    BY <1>3, <2>1
  <2>3. T \in SUBSET Nat /\ MinPrice \in Nat
    BY <1>5, PriceAssumption, Sizes DEF Ticks
  <2>4. CASE side = "Sell"
    <3>1. \A p \in P : b.price <= p
      <4> TAKE p \in P
      <4>1. PICK t : t = p - MinPrice
        OBVIOUS
      <4>2. t \in T /\ p = MinPrice + t /\ t \in Nat
        BY <1>6, <2>3, <4>1
      <4>3. b.idx <= t /\ b.idx \in Nat
        BY <2>1, <2>3, <2>4, <4>2
      <4>. QED
        BY <2>1, <2>3, <4>2, <4>3
    <3>2. Min(P) = b.price
      BY <1>6, <2>2, <3>1, MinIs
    <3>3. Reference!Min(P) = Min(P)
      BY DEF Reference!Min, Min
    <3>. QED
      BY <2>1, <2>4, <3>2, <3>3
  <2>5. CASE side = "Buy"
    <3>1. \A p \in P : b.price >= p
      <4> TAKE p \in P
      <4>1. PICK t : t = p - MinPrice
        OBVIOUS
      <4>2. t \in T /\ p = MinPrice + t /\ t \in Nat
        BY <1>6, <2>3, <4>1
      <4>3. t <= b.idx /\ b.idx \in Nat
        BY <2>1, <2>3, <2>5, <4>2
      <4>. QED
        BY <2>1, <2>3, <4>2, <4>3
    <3>2. Max(P) = b.price
      BY <1>6, <2>2, <3>1, MaxIs
    <3>3. Reference!Max(P) = Max(P)
      BY DEF Reference!Max, Max
    <3>. QED
      BY <2>1, <2>5, <3>2, <3>3
  <2>. QED
    BY <2>1, <2>4, <2>5 DEF Sides
<1>. QED
  BY <1>1, <1>7, <1>8, <1>9

\* The sides of the two books.
LEMMA ReferenceSides ==
  /\ Reference!Sides = Sides
  /\ Reference!MakerSide = MakerSide
  /\ \A side : Reference!Opposite(side) = Opposite(side)
  /\ Reference!NoTaker = NoTaker
  /\ Reference!Prices = MinPrice .. MaxPrice
BY DEF Reference!Sides, Sides, Reference!MakerSide, MakerSide, Reference!Opposite, Opposite,
       Reference!NoTaker, NoTaker, Reference!Prices

\* The reference book starts at the price the engine has cached.
LEMMA BestAgrees ==
  ASSUME NEW pos, NEW acc, NEW rank, BookInv(pos, acc, rank), Viewed,
         pc = "match" \/ OnTrade, best[MakerSide].has
  PROVE  /\ Reference!BestPrice = best[MakerSide].price
         /\ best[MakerSide].price = MinPrice + best[MakerSide].idx /\ best[MakerSide].idx \in Ticks
         /\ MakerSide \in Sides
<1>1. PICK side : side = MakerSide
  OBVIOUS
<1>2. side \in Sides /\ Looking
  <2>1. pc \in {"match", "walk", "level"}
    BY DEF OnTrade
  <2>. QED
    BY <1>1, <2>1, Matching DEF Looking
<1>3. /\ best[side].price = MinPrice + best[side].idx /\ best[side].idx \in Ticks
      /\ side = "Sell" => Reference!Min(Reference!Occupied(side)) = best[side].price
      /\ side = "Buy" => Reference!Max(Reference!Occupied(side)) = best[side].price
  BY <1>1, <1>2, OccupiedAgrees
<1>4. Reference!BestPrice = IF side = "Sell" THEN Reference!Min(Reference!Occupied(side))
                            ELSE Reference!Max(Reference!Occupied(side))
  BY <1>1, ReferenceSides DEF Reference!BestPrice
<1>. QED
  BY <1>1, <1>2, <1>3, <1>4 DEF Sides

\* The outer loops of the two books go on in the same states.
LEMMA CrossesAgrees ==
  ASSUME NEW pos, NEW acc, NEW rank, BookInv(pos, acc, rank), Viewed, pc = "match"
  PROVE  Reference!Crosses <=> Crosses
<1>1. AbstractRemaining = remaining
  BY DEF AbstractRemaining, InChain
<1>2. Looking /\ MakerSide \in Sides /\ taker.side \in Sides /\ taker \in Takers
  BY Matching DEF Looking
<1>3. Reference!Occupied(MakerSide) = {} <=> ~best[MakerSide].has
  BY <1>2, OccupiedAgrees
<1>4. Reference!Crosses <=>
        /\ remaining > 0
        /\ best[MakerSide].has
        /\ IF taker.side = "Buy" THEN Reference!BestPrice <= taker.price
           ELSE Reference!BestPrice >= taker.price
  BY <1>1, <1>3, ReferenceSides DEF Reference!Crosses
<1>5. taker.side = "Buy" => MakerSide = "Sell"
  BY DEF MakerSide, Opposite
<1>6. taker.side # "Buy" => MakerSide = "Buy"
  BY DEF MakerSide, Opposite
<1>7. CASE best[MakerSide].has
  <2>1. Reference!BestPrice = best[MakerSide].price
    BY <1>7, BestAgrees
  <2>2. best[MakerSide].price \in Nat /\ taker.price \in Nat
    <3>1. best[MakerSide].price \in 0 .. MaxPrice + 1 /\ taker.price \in 0 .. MARKET_BUY_PRICE
      BY <1>2 DEF BookInv, CallType, Bests, Takers
    <3>. QED
      BY <3>1
  <2>3. CASE taker.side = "Buy"
    BY <1>4, <1>5, <1>7, <2>1, <2>2, <2>3 DEF Crosses, BuyCrosses
  <2>4. CASE taker.side # "Buy"
    BY <1>4, <1>6, <1>7, <2>1, <2>2, <2>4 DEF Crosses, SellCrosses
  <2>. QED
    BY <2>3, <2>4
<1>8. CASE ~best[MakerSide].has
  BY <1>4, <1>5, <1>6, <1>8 DEF Crosses, BuyCrosses, SellCrosses
<1>. QED
  BY <1>7, <1>8

-----------------------------------------------------------------------------
(***************************************************************************)
(* The maker at the cursor is the first order of the reference's best      *)
(* queue, and the trade is the reference's.                                *)
(***************************************************************************)
\* What is told of one slot, and of any.
Shown(sl, i) == [id |-> sl[i].id, quantity |-> sl[i].quantity]
AllShown(sl) == {Shown(sl, i) : i \in Slots}

\* What Told tells, as a sequence.
LEMMA ToldIs ==
  ASSUME NEW sl, NEW w \in Seq(Slots)
  PROVE  /\ Told(sl, w) \in Seq(AllShown(sl))
         /\ Len(Told(sl, w)) = Len(w)
         /\ \A k \in 1 .. Len(w) : Told(sl, w)[k] = Shown(sl, w[k])
<1>1. PICK t, E : t = Told(sl, w) /\ E = AllShown(sl)
  OBVIOUS
<1>2. DOMAIN w = 1 .. Len(w) /\ Len(w) \in Nat /\ \A k \in 1 .. Len(w) : w[k] \in Slots
  OBVIOUS
<1>3. t = [k \in 1 .. Len(w) |-> Shown(sl, w[k])]
  BY <1>1, <1>2 DEF Told, Shown
<1>4. \A k \in 1 .. Len(w) : Shown(sl, w[k]) \in E
  BY <1>1, <1>2 DEF AllShown
<1>5. t \in Seq(E) /\ Len(t) = Len(w)
  BY <1>2, <1>3, <1>4
<1>. QED
  BY <1>1, <1>3, <1>5

\* The first entry goes with the first slot.
LEMMA ToldTail ==
  ASSUME NEW sl, NEW w \in Seq(Slots), w # <<>>
  PROVE  /\ Told(sl, Tail(w)) = Tail(Told(sl, w))
         /\ Head(Told(sl, w)) = Shown(sl, w[1])
         /\ Len(Told(sl, w)) - Len(Told(sl, Tail(w))) = 1
<1>1. PICK v, s, t, E : v = Tail(w) /\ s = Told(sl, w) /\ t = Told(sl, v) /\ E = AllShown(sl)
  OBVIOUS
<1>2. Len(w) \in Nat \ {0} /\ v \in Seq(Slots) /\ Len(v) = Len(w) - 1
      /\ \A k \in 1 .. Len(w) - 1 : v[k] = w[k + 1]
  BY <1>1
<1>3. /\ s \in Seq(E) /\ Len(s) = Len(w) /\ \A k \in 1 .. Len(w) : s[k] = Shown(sl, w[k])
  BY <1>1, ToldIs, Zenon
<1>4. /\ t \in Seq(E) /\ Len(t) = Len(v) /\ \A k \in 1 .. Len(v) : t[k] = Shown(sl, v[k])
  BY <1>1, <1>2, ToldIs, Zenon
<1>5. PICK u : u = Tail(s)
  OBVIOUS
<1>6. u \in Seq(E) /\ Len(u) = Len(s) - 1 /\ \A k \in 1 .. Len(s) - 1 : u[k] = s[k + 1]
  BY <1>2, <1>3, <1>5
<1>7. \A k \in 1 .. Len(t) : t[k] = u[k]
  <2> TAKE k \in 1 .. Len(t)
  <2>1. k \in 1 .. Len(w) - 1 /\ k \in 1 .. Len(s) - 1 /\ k + 1 \in 1 .. Len(w) /\ k \in 1 .. Len(v)
    BY <1>2, <1>3, <1>4
  <2>. QED
    BY <1>2, <1>3, <1>4, <1>6, <2>1
<1>8. t = u
  BY <1>2, <1>3, <1>4, <1>6, <1>7
<1>9. Head(s) = s[1] /\ 1 \in 1 .. Len(w)
  BY <1>2, <1>3
<1>10. Len(s) - Len(t) = 1
  BY <1>2, <1>3, <1>4
<1>. QED
  BY <1>1, <1>3, <1>5, <1>8, <1>9, <1>10

\* The maker of a trade is the first of its abstract queue.
Maker(side, tick) ==
  /\ side = MakerSide /\ tick = best[side].idx /\ side \in Sides /\ tick \in Ticks
  /\ best[side].has /\ best[side].price = MinPrice + tick
  /\ cursor \in Slots /\ cursor \in allocated
  /\ QueueStart(side, tick) = cursor
  /\ QueueSlots(side, tick) # <<>> /\ QueueSlots(side, tick)[1] = cursor
  /\ cursor \in Waits(side, tick)
  /\ slot[cursor].price = MinPrice + tick /\ slot[cursor].side = side
  /\ slot[cursor].quantity \in Nat \ {0} /\ slot[cursor].id \in 1 .. MaxOrderId
  /\ order_map[slot[cursor].id] = cursor

\* The makers of the trades.
LEMMA MakerFirst ==
  ASSUME NEW pos, NEW acc, NEW rank, BookInv(pos, acc, rank), Viewed, OnTrade
  PROVE  Maker(MakerSide, best[MakerSide].idx)
<1>1. PICK side, tick, w, S, level :
        /\ side = MakerSide /\ tick = best[MakerSide].idx
        /\ w = QueueSlots(side, tick)
        /\ S = Members(slot, allocated, MakerSide, best[MakerSide].idx) /\ level = BestLevel
  OBVIOUS
<1>2. pc = "walk" /\ cursor # INVALID_INDEX /\ (path = "slow" => remaining > 0)
      /\ pc \in {"match", "walk"} /\ pc \in {"match", "walk", "level"}
  BY DEF OnTrade
<1>3. best[MakerSide].has /\ WalkInv(acc) /\ Store(slot, allocated, free_head, levels, pos, acc, rank)
  BY <1>2 DEF BookInv, CallInv, AtBest, Consistent
<1>4. side \in Sides /\ tick \in Ticks
  BY <1>1, <1>2, Matching
<1>5. /\ best[MakerSide].price = MinPrice + best[MakerSide].idx
      /\ S \in SUBSET Slots /\ S \in SUBSET allocated
      /\ level.head \in S
      /\ \A j \in S : slot[j].side = MakerSide /\ slot[j].price = best[MakerSide].price
  BY <1>1, <1>2, <1>3, AtBestLevel
<1>6. cursor \in S
  BY <1>1, <1>2, <1>3, <1>5 DEF WalkInv, SingleInv, ChainInv, SlowInv
<1>7. QueueStart(side, tick) = cursor
  <2>1. CASE path = "chain"
    BY <1>1, <1>2, <2>1 DEF QueueStart, InChain
  <2>2. CASE path # "chain"
    <3>1. cursor = level.head
      BY <1>1, <1>2, <1>3, <2>2 DEF WalkInv, SingleInv, SlowInv
    <3>2. QueueStart(side, tick) = levels[side][tick].head
      BY <2>2 DEF QueueStart, InChain
    <3>. QED
      BY <1>1, <3>1, <3>2 DEF BestLevel
  <2>. QED
    BY <2>1, <2>2
<1>8. Follows(slot, cursor, w)
  BY <1>1, <1>4, <1>7, Zenon DEF Viewed, QueueView
<1>9. w # <<>> /\ w[1] = cursor
  BY <1>2, <1>8 DEF Follows
<1>10. cursor \in allocated /\ cursor \in Slots
  BY <1>5, <1>6
<1>11. slot[cursor].quantity \in 1 .. QuantityModulus - 1 /\ slot[cursor].id \in 1 .. MaxOrderId
  BY <1>3, <1>10, LiveSlot
<1>12. slot[cursor].quantity \in Nat \ {0}
  BY <1>11, BookAssumption
<1>13. order_map[slot[cursor].id] = cursor
  <2>1. CurrentTrade.maker_id = slot[cursor].id
    BY DEF CurrentTrade
  <2>2. Inv
    BY DEF Inv
  <2>. QED
    BY <2>1, <2>2, InvTradeAtBest DEF TradeAtBest
<1>14. cursor \in Waits(side, tick)
  BY <1>1, <1>6, <1>13 DEF Waits
<1>15. slot[cursor].price = MinPrice + tick /\ slot[cursor].side = side
  BY <1>1, <1>5, <1>6
<1>16. best[side].has /\ best[side].price = MinPrice + tick
  BY <1>1, <1>3, <1>5
<1>17. Maker(side, tick)
  BY <1>1, <1>4, <1>7, <1>9, <1>10, <1>11, <1>12, <1>13, <1>14, <1>15, <1>16 DEF Maker
<1>. QED
  BY <1>1, <1>17

\* The quantity both books trade.
LEMMA TradeQuantity ==
  ASSUME NEW pos, NEW acc, NEW rank, BookInv(pos, acc, rank), Viewed, OnTrade
  PROVE  /\ AbstractRemaining = taker.quantity - reported
         /\ AbstractRemaining \in Nat \ {0}
         /\ CurrentTrade.quantity = Min({AbstractRemaining, slot[cursor].quantity})
         /\ CurrentTrade.quantity \in Nat \ {0}
         /\ path # "slow" => CurrentTrade.quantity = slot[cursor].quantity
<1>1. pc = "walk" /\ cursor # INVALID_INDEX /\ (path = "slow" => remaining > 0)
      /\ pc \in {"match", "walk", "level"}
  BY DEF OnTrade
<1>2. PICK r, q, d, rep, tq : /\ r = AbstractRemaining /\ q = slot[cursor].quantity
                              /\ d = CurrentTrade.quantity /\ rep = reported /\ tq = taker.quantity
  OBVIOUS
<1>3. r = tq - rep
  BY <1>1, <1>2 DEF Viewed
<1>4. tq \in Nat /\ rep \in Nat /\ remaining \in Nat
  BY <1>1, <1>2, Matching
<1>5. q \in Nat \ {0}
  BY <1>2, MakerFirst DEF Maker
<1>6. d > 0 /\ rep + d <= tq
  <2>1. TradeAtBest
    BY InvTradeAtBest DEF Inv
  <2>. QED
    BY <1>2, <2>1 DEF TradeAtBest
<1>7. d = IF path = "slow" /\ remaining < q THEN remaining ELSE q
  BY <1>2 DEF CurrentTrade
<1>8. path = "slow" => remaining = r
  BY <1>2 DEF AbstractRemaining, InChain
<1>9. d \in Nat \ {0} /\ r \in Nat \ {0} /\ d <= r /\ d <= q /\ (d = r \/ d = q)
  BY <1>3, <1>4, <1>5, <1>6, <1>7, <1>8
<1>10. Min({r, q}) = d
  <2>1. {r, q} \in SUBSET Nat /\ d \in {r, q} /\ \A y \in {r, q} : d <= y
    BY <1>5, <1>9
  <2>. QED
    BY <2>1, MinIs
<1>. QED
  BY <1>2, <1>3, <1>7, <1>9, <1>10

\* What the reference book sees of the queue it trades with.
LEMMA TradeQueue ==
  ASSUME NEW pos, NEW acc, NEW rank, BookInv(pos, acc, rank), Viewed, OnTrade
  PROVE  /\ Reference!BestPrice = MinPrice + best[MakerSide].idx
         /\ AbstractQueue[MakerSide][MinPrice + best[MakerSide].idx] =
              Told(slot, QueueSlots(MakerSide, best[MakerSide].idx))
         /\ Head(Told(slot, QueueSlots(MakerSide, best[MakerSide].idx))) =
              [id |-> slot[cursor].id, quantity |-> slot[cursor].quantity]
         /\ QueueSlots(MakerSide, best[MakerSide].idx) \in Seq(Slots)
<1>1. PICK side, tick, w : /\ side = MakerSide /\ tick = best[MakerSide].idx /\ w = QueueSlots(side, tick)
  OBVIOUS
<1>2. Maker(side, tick)
  BY <1>1, MakerFirst
<1>3. side \in Sides /\ tick \in Ticks /\ w # <<>> /\ w[1] = cursor
  BY <1>1, <1>2 DEF Maker
<1>4. Reference!BestPrice = MinPrice + tick
  BY <1>1, <1>2, BestAgrees DEF Maker
<1>5. AbstractQueue[side][MinPrice + tick] = Told(slot, w) /\ w \in Seq(Slots)
  BY <1>1, <1>3, QueueEmpty
<1>6. Head(Told(slot, w)) = Shown(slot, cursor)
  BY <1>3, <1>5, ToldTail
<1>. QED
  BY <1>1, <1>4, <1>5, <1>6 DEF Shown

\* TradesAgree in every state of the invariant.
LEMMA InvTradesAgree == Inv => TradesAgree
<1> SUFFICES ASSUME NEW pos, NEW acc, NEW rank, BookInv(pos, acc, rank), OnTrade
             PROVE  CurrentTrade = Reference!CurrentTrade
  BY DEF Inv, TradesAgree
<1>1. Viewed
  BY InvViewed DEF Inv
<1>2. PICK side, p, q, d : /\ side = MakerSide /\ p = MinPrice + best[MakerSide].idx
                           /\ q = AbstractQueue[side][p] /\ d = CurrentTrade.quantity
  OBVIOUS
<1>3. /\ Reference!BestPrice = p
      /\ Head(q) = [id |-> slot[cursor].id, quantity |-> slot[cursor].quantity]
  BY <1>1, <1>2, TradeQueue
<1>4. d = Reference!Min({AbstractRemaining, slot[cursor].quantity})
  <2>1. d = Min({AbstractRemaining, slot[cursor].quantity})
    BY <1>1, <1>2, TradeQuantity
  <2>. QED
    BY <2>1 DEF Reference!Min, Min
<1>5. slot[cursor].price = p
  BY <1>1, <1>2, MakerFirst DEF Maker
<1>6. Reference!CurrentTrade = [maker_id |-> Head(q).id, taker_id |-> taker.id, price |-> p,
                                quantity |-> Reference!Min({AbstractRemaining, Head(q).quantity})]
  BY <1>2, <1>3, ReferenceSides DEF Reference!CurrentTrade
<1>7. CurrentTrade = [maker_id |-> slot[cursor].id, taker_id |-> taker.id, price |-> slot[cursor].price,
                      quantity |-> d]
  BY <1>2 DEF CurrentTrade
<1>8. Head(q).id = slot[cursor].id /\ Head(q).quantity = slot[cursor].quantity
  BY <1>3
<1>. QED
  BY <1>4, <1>5, <1>6, <1>7, <1>8

-----------------------------------------------------------------------------
(***************************************************************************)
(* A maker that is filled leaves the front of its queue.                   *)
(***************************************************************************)
\* Slots keep what the queues are made of.
SameOrder(sl, sl2, i) == sl2[i].next = sl[i].next /\ sl2[i].id = sl[i].id /\ sl2[i].quantity = sl[i].quantity

\* What Told tells stays, too.
LEMMA ToldStays ==
  ASSUME NEW sl, NEW sl2, NEW w \in Seq(Slots), \A k \in 1 .. Len(w) : SameOrder(sl, sl2, w[k])
  PROVE  Told(sl2, w) = Told(sl, w)
<1>1. DOMAIN w = 1 .. Len(w)
  OBVIOUS
<1>. QED
  BY <1>1 DEF Told, SameOrder

\* The id leaves the map of the reference book.
LEMMA MapLoses ==
  ASSUME order_map \in [0 .. MaxOrderId -> Words], NEW id \in 1 .. MaxOrderId,
         order_map[id] # INVALID_INDEX,
         order_map' = [order_map EXCEPT ![id] = INVALID_INDEX]
  PROVE  /\ AbstractOrderMap' = AbstractOrderMap \ {id} /\ id \in AbstractOrderMap
         /\ Cardinality(AbstractOrderMap') = Cardinality(AbstractOrderMap) - 1
<1>1. PICK A, B : A = AbstractOrderMap /\ B = AbstractOrderMap'
  OBVIOUS
<1>2. \A x \in 1 .. MaxOrderId : x \in 0 .. MaxOrderId
  BY BookAssumption
<1>3. id \in A /\ B = A \ {id}
  BY <1>1, <1>2 DEF AbstractOrderMap
<1>4. IsFiniteSet(A)
  <2>1. A \in SUBSET (1 .. MaxOrderId)
    BY <1>1 DEF AbstractOrderMap
  <2>2. IsFiniteSet(1 .. MaxOrderId)
    BY FS_Interval, BookAssumption
  <2>. QED
    BY <2>1, <2>2, FS_Subset
<1>5. Cardinality(B) = Cardinality(A) - 1
  BY <1>3, <1>4, FS_RemoveElement
<1>. QED
  BY <1>1, <1>3, <1>5

\* The maker waits in no other queue.
LEMMA MakerElsewhere ==
  ASSUME NEW side, NEW tick, Maker(side, tick), NEW s \in Sides, NEW t \in Ticks, s # side \/ t # tick,
         NEW i \in Waits(s, t)
  PROVE  i # cursor
<1>1. slot[i].side = s /\ slot[i].price = MinPrice + t /\ i \in allocated
  BY DEF Waits, Members
<1>. QED
  BY <1>1, TickOfPrice DEF Maker

\* The taker drains its maker: the rest of the queue stays, and so do the others.
Drains(side, tick) ==
  /\ CurrentTrade.quantity = slot[cursor].quantity
  /\ QueueStart(side, tick)' = slot[cursor].next
  /\ \A i \in Waits(side, tick) \ {cursor} : SameOrder(slot, slot', i)
  /\ \A s \in Sides, t \in Ticks : s # side \/ t # tick => Untouched(s, t)
  /\ order_map' = [order_map EXCEPT ![slot[cursor].id] = INVALID_INDEX]
  /\ reported' = reported + slot[cursor].quantity
  /\ UNCHANGED <<taker, ret, filled>>
  /\ pc' \in {"walk", "level"}
  /\ OnTrade' <=> slot[cursor].next # INVALID_INDEX /\ reported' < taker.quantity

\* The queue after it.
LEMMA DrainedQueue ==
  ASSUME NEW pos, NEW acc, NEW rank, BookInv(pos, acc, rank), Viewed, Viewed', OnTrade,
         NEW side, NEW tick, Maker(side, tick), Drains(side, tick)
  PROVE  /\ AbstractQueue' = [AbstractQueue EXCEPT ![side][MinPrice + tick] =
                                Tail(Told(slot, QueueSlots(side, tick)))]
         /\ Tail(Told(slot, QueueSlots(side, tick))) = <<>> <=> slot[cursor].next = INVALID_INDEX
<1>1. PICK w, v, c : w = QueueSlots(side, tick) /\ v = QueueSlots(side, tick)' /\ c = cursor
  OBVIOUS
<1>2. side \in Sides /\ tick \in Ticks /\ w # <<>> /\ w[1] = c /\ QueueStart(side, tick) = c
  BY <1>1 DEF Maker
<1>3. QueueView(side, tick) /\ QueueView(side, tick)'
  BY <1>2, Zenon DEF Viewed
<1>4. Follows(slot, c, w) /\ Enumerates(w, Waits(side, tick))
  BY <1>1, <1>2, <1>3, Zenon DEF QueueView
<1>5. Follows(slot', slot[c].next, v)
  <2>1. Follows(slot', QueueStart(side, tick)', QueueSlots(side, tick)')
    BY <1>3, Zenon DEF QueueView
  <2>. QED
    BY <1>1, <2>1, Zenon DEF Drains
<1>6. PICK u : u = Tail(w)
  OBVIOUS
<1>7. Follows(slot, slot[c].next, u)
  BY <1>2, <1>4, <1>6, FollowsTail
<1>8. w \in Seq(Slots) /\ u \in Seq(Slots) /\ Len(u) = Len(w) - 1 /\ Len(w) \in Nat
      /\ \A k \in 1 .. Len(w) - 1 : u[k] = w[k + 1]
  <2>1. w \in Seq(Slots)
    BY <1>4 DEF Follows
  <2>. QED
    BY <1>2, <1>6, <2>1
<1>9. \A k \in 1 .. Len(u) : SameOrder(slot, slot', u[k])
  <2> TAKE k \in 1 .. Len(u)
  <2>1. k + 1 \in 1 .. Len(w) /\ 1 \in 1 .. Len(w) /\ k + 1 # 1 /\ u[k] = w[k + 1]
    BY <1>8
  <2>2. w[k + 1] \in Waits(side, tick) /\ w[k + 1] # c
    BY <1>2, <1>4, <2>1 DEF Enumerates
  <2>. QED
    BY <1>1, <2>1, <2>2 DEF Drains
<1>10. v = u
  <2>1. Follows(slot', slot[c].next, u)
    BY <1>7, <1>9, FollowsFrame DEF SameOrder
  <2>. QED
    BY <1>5, <2>1, FollowsUnique
<1>11. Told(slot', v) = Tail(Told(slot, w))
  <2>1. Told(slot', u) = Told(slot, u)
    BY <1>8, <1>9, ToldStays
  <2>2. Told(slot, u) = Tail(Told(slot, w))
    BY <1>2, <1>6, <1>8, ToldTail
  <2>. QED
    BY <1>10, <2>1, <2>2
<1>12. AbstractQueue' = [AbstractQueue EXCEPT ![side][MinPrice + tick] = Told(slot', QueueSlots(side, tick)')]
  <2>1. \A s \in Sides, t \in Ticks : s # side \/ t # tick => Untouched(s, t)
    BY Zenon DEF Drains
  <2>. QED
    BY <1>2, <2>1, QueuesChange
<1>13. Told(slot', v) = <<>> <=> slot[c].next = INVALID_INDEX
  <2>1. AbstractQueue'[side][MinPrice + tick] = Told(slot', v)
    BY <1>1, <1>2, QueueAtNext
  <2>2. u = <<>> <=> slot[c].next = INVALID_INDEX
    BY <1>7, <1>8, Basics DEF Follows
  <2>3. Len(Told(slot', u)) = Len(u) /\ Told(slot', u) \in Seq(AllShown(slot'))
    BY <1>8, ToldIs
  <2>4. Told(slot', u) = <<>> <=> u = <<>>
    BY <1>8, <2>3
  <2>. QED
    BY <1>10, <2>2, <2>4
<1>14. AbstractQueue' = [AbstractQueue EXCEPT ![side][MinPrice + tick] = Told(slot', v)]
  BY <1>1, <1>12
<1>. QED
  BY <1>1, <1>11, <1>13, <1>14

\* Such a step is a trade of the reference book.
LEMMA DrainIsTrade ==
  ASSUME NEW pos, NEW acc, NEW rank, BookInv(pos, acc, rank), Viewed, Viewed', OnTrade,
         NEW side, NEW tick, Maker(side, tick), Drains(side, tick)
  PROVE  Reference!AfterTrade
<1>1. PICK p, w, q, d, r, c : /\ p = MinPrice + tick /\ w = QueueSlots(side, tick)
                              /\ q = Told(slot, w) /\ d = slot[cursor].quantity
                              /\ r = AbstractRemaining /\ c = slot[cursor].id
  OBVIOUS
<1>2. /\ side = MakerSide /\ tick = best[MakerSide].idx /\ w # <<>> /\ w[1] = cursor
      /\ c \in 1 .. MaxOrderId /\ order_map[c] = cursor /\ cursor \in Slots
  BY <1>1 DEF Maker
<1>3. /\ Reference!BestPrice = p /\ AbstractQueue[side][p] = q
      /\ Head(q) = [id |-> c, quantity |-> d] /\ w \in Seq(Slots)
  BY <1>1, <1>2, TradeQueue
<1>4. Reference!MakerSide = side
  BY <1>2, ReferenceSides
<1>5. Reference!CurrentTrade.quantity = d
  <2>1. CurrentTrade = Reference!CurrentTrade
    BY InvTradesAgree DEF TradesAgree, Inv
  <2>. QED
    BY <1>1, <2>1 DEF Drains
<1>6. /\ AbstractQueue' = [AbstractQueue EXCEPT ![side][p] = Tail(q)]
      /\ Tail(q) = <<>> <=> slot[cursor].next = INVALID_INDEX
  BY <1>1, DrainedQueue
<1>7. AbstractOrderMap' = AbstractOrderMap \ {c} /\ Cardinality(AbstractOrderMap') = Cardinality(AbstractOrderMap) - 1
  <2>1. order_map \in [0 .. MaxOrderId -> Words]
    BY DEF BookInv, CallType
  <2>2. order_map' = [order_map EXCEPT ![c] = INVALID_INDEX]
    BY <1>1 DEF Drains
  <2>3. order_map[c] # INVALID_INDEX
    BY <1>2, Basics
  <2>. QED
    BY <1>2, <2>1, <2>2, <2>3, MapLoses
<1>8. Len(q) - Len(Tail(q)) = 1
  <2>1. Told(slot, Tail(w)) = Tail(q) /\ Len(q) - Len(Told(slot, Tail(w))) = 1
    BY <1>1, <1>2, <1>3, ToldTail
  <2>. QED
    BY <2>1
<1>9. r = taker.quantity - reported /\ r \in Nat /\ d \in Nat /\ AbstractRemaining' = r - d
  <2>1. r = taker.quantity - reported /\ r \in Nat
    BY <1>1, TradeQuantity
  <2>2. AbstractRemaining' = taker'.quantity - reported'
    BY Zenon DEF Viewed, Drains
  <2>3. taker' = taker /\ reported' = reported + d
    BY <1>1 DEF Drains
  <2>4. taker.quantity \in Nat /\ reported \in Nat /\ d \in Nat
    <3>1. pc \in {"match", "walk", "level"}
      BY DEF OnTrade
    <3>. QED
      BY <1>1, <3>1, Matching DEF Maker
  <2>. QED
    BY <2>1, <2>2, <2>3, <2>4
<1>10. AbstractPc = "trade"
  BY DEF AbstractPc
<1>11. AbstractPc' = IF Tail(q) # <<>> /\ r - d > 0 THEN "trade" ELSE "match"
  <2>1. AbstractPc' = IF OnTrade' THEN "trade" ELSE "match"
    BY DEF AbstractPc, Drains
  <2>2. reported' < taker.quantity <=> r - d > 0
    <3>1. taker.quantity \in Nat /\ reported \in Nat
      <4>1. pc \in {"match", "walk", "level"}
        BY DEF OnTrade
      <4>. QED
        BY <4>1, Matching
    <3>2. reported' = reported + d
      BY <1>1 DEF Drains
    <3>. QED
      BY <1>9, <3>1, <3>2
  <2>3. OnTrade' <=> slot[cursor].next # INVALID_INDEX /\ reported' < taker.quantity
    BY DEF Drains
  <2>. QED
    BY <1>6, <2>1, <2>2, <2>3
<1>12. UNCHANGED <<taker, ret, filled>>
  BY DEF Drains
<1>13. Head(q).quantity = d /\ Head(q).id = c
  BY <1>3
<1>. QED
  BY <1>1, <1>3, <1>4, <1>5, <1>6, <1>7, <1>8, <1>9, <1>10, <1>11, <1>12, <1>13 DEF Reference!AfterTrade

-----------------------------------------------------------------------------
(***************************************************************************)
(* The three paths on which a maker is filled.                             *)
(***************************************************************************)
\* The queues where no chain is walked.
LEMMA QueueStartAt ==
  /\ ~InChain => \A side, tick : QueueStart(side, tick) = levels[side][tick].head
  /\ ~InChain' => \A side, tick : QueueStart(side, tick)' = levels'[side][tick].head
BY DEF QueueStart

\* One level is replaced, and the orders of the others keep what they are: the
\* other queues stay.
LEMMA OthersStay ==
  ASSUME NEW side \in Sides, NEW tick \in Ticks, NEW level,
         levels \in [Sides -> [Ticks -> Levels]],
         levels' = PutLevel(levels, side, tick, level), ~InChain, ~InChain',
         \A s \in Sides, t \in Ticks : s # side \/ t # tick =>
           \A i \in Waits(s, t) : SameOrder(slot, slot', i)
  PROVE  \A s \in Sides, t \in Ticks : s # side \/ t # tick => Untouched(s, t)
<1> SUFFICES ASSUME NEW s \in Sides, NEW t \in Ticks, s # side \/ t # tick PROVE Untouched(s, t)
  OBVIOUS
<1>1. levels'[s][t] = levels[s][t]
  BY DEF PutLevel
<1>2. QueueStart(s, t)' = QueueStart(s, t)
  BY <1>1, QueueStartAt
<1>. QED
  BY <1>2 DEF Untouched, SameOrder

\* The levels of the book are of their type, and every live order is one of the book's.
LEMMA BookTypes ==
  ASSUME NEW pos, NEW acc, NEW rank, BookInv(pos, acc, rank)
  PROVE  /\ slot \in [Slots -> Orders] /\ allocated \in SUBSET Slots
         /\ levels \in [Sides -> [Ticks -> Levels]]
         /\ \A side \in Sides, tick \in Ticks : Waits(side, tick) \in SUBSET Slots
<1>1. /\ slot \in [Slots -> Orders] /\ allocated \in SUBSET Slots
      /\ levels \in [Sides -> [Ticks -> Levels]]
  BY DEF BookInv, Consistent, Store
<1>. QED
  BY <1>1 DEF Waits, Members

\* The one-order fast path is a trade of the reference book.
LEMMA SingleIsTrade ==
  ASSUME NEW pos, NEW acc, NEW rank, BookInv(pos, acc, rank), Viewed, Viewed', FillSingle
  PROVE  Reference!AfterTrade
<1>1. OnTrade /\ path = "single" /\ pc' = "level" /\ pc = "walk"
  BY DEF FillSingle, OnTrade
<1>2. PICK side, tick, c : side = MakerSide /\ tick = best[MakerSide].idx /\ c = cursor
  OBVIOUS
<1>3. Maker(side, tick) /\ side \in Sides /\ tick \in Ticks
  BY <1>1, <1>2, MakerFirst DEF Maker
<1>4. ~InChain /\ ~InChain' /\ ~OnTrade'
  BY <1>1 DEF InChain, OnTrade
<1>5. slot' = [slot EXCEPT ![c] = FreedSlot(free_head)] /\ c \in Slots
  BY <1>2, <1>3 DEF FillSingle, Maker
<1>6. levels' = PutLevel(levels, side, tick, EmptyLevel)
  BY <1>2 DEF FillSingle, PutLevel
<1>7. \A i \in Slots : i # c => SameOrder(slot, slot', i)
  BY <1>5, BookTypes DEF SameOrder
<1>8. \A s \in Sides, t \in Ticks : s # side \/ t # tick => Untouched(s, t)
  <2>1. \A s \in Sides, t \in Ticks : s # side \/ t # tick =>
           \A i \in Waits(s, t) : SameOrder(slot, slot', i)
    BY <1>2, <1>3, <1>7, MakerElsewhere, BookTypes
  <2>. QED
    BY <1>3, <1>4, <1>6, <2>1, OthersStay, BookTypes
<1>9. slot[c].next = INVALID_INDEX
  <2>1. PICK S, level : S = Members(slot, allocated, MakerSide, best[MakerSide].idx) /\ level = BestLevel
    OBVIOUS
  <2>2. best[MakerSide].has /\ SingleInv
    BY <1>1 DEF BookInv, CallInv, AtBest, WalkInv
  <2>3. Queue(slot, S, level, pos, acc) /\ level.head \in S /\ pos[level.head] = 1
    BY <1>1, <2>1, <2>2, AtBestLevel
  <2>4. level.order_count = 1 /\ c = level.head
    BY <1>2, <2>1, <2>2 DEF SingleInv
  <2>. QED
    BY <2>3, <2>4 DEF Queue, Chain
<1>10. QueueStart(side, tick)' = INVALID_INDEX
  <2>1. levels'[side][tick] = EmptyLevel
    BY <1>3, <1>6, BookTypes DEF PutLevel
  <2>. QED
    BY <1>4, <2>1, QueueStartAt DEF EmptyLevel
<1>11. CurrentTrade.quantity = slot[c].quantity
  BY <1>1, <1>2 DEF CurrentTrade
<1>12. \A i \in Waits(side, tick) \ {c} : SameOrder(slot, slot', i)
  BY <1>3, <1>7, BookTypes
<1>13. /\ order_map' = [order_map EXCEPT ![slot[c].id] = INVALID_INDEX]
       /\ reported' = reported + slot[c].quantity /\ UNCHANGED <<taker, ret, filled>>
  BY <1>2, <1>11 DEF FillSingle
<1>14. Drains(side, tick)
  BY <1>1, <1>2, <1>4, <1>8, <1>9, <1>10, <1>11, <1>12, <1>13 DEF Drains
<1>. QED
  BY <1>1, <1>3, <1>14, DrainIsTrade

\* Each maker of a chain is one, although nothing but the map is changed.
LEMMA ChainIsTrade ==
  ASSUME NEW pos, NEW acc, NEW rank, BookInv(pos, acc, rank), Viewed, Viewed', Inv', FillChain
  PROVE  Reference!AfterTrade
<1>1. OnTrade /\ path = "chain" /\ pc' = pc /\ path' = path /\ pc = "walk" /\ taker' = taker
      /\ best' = best /\ levels' = levels /\ slot' = slot
  BY DEF FillChain, OnTrade
<1>2. PICK side, tick, c : side = MakerSide /\ tick = best[MakerSide].idx /\ c = cursor
  OBVIOUS
<1>3. Maker(side, tick) /\ side \in Sides /\ tick \in Ticks
  BY <1>1, <1>2, MakerFirst DEF Maker
<1>4. InChain /\ InChain' /\ MakerSide' = MakerSide
  BY <1>1 DEF InChain, MakerSide
<1>5. QueueStart(side, tick)' = slot[c].next /\ cursor' = slot[c].next
  BY <1>1, <1>2, <1>4 DEF QueueStart, FillChain
<1>6. \A s \in Sides, t \in Ticks : s # side \/ t # tick => Untouched(s, t)
  <2> SUFFICES ASSUME NEW s \in Sides, NEW t \in Ticks, s # side \/ t # tick PROVE Untouched(s, t)
    OBVIOUS
  <2>1. QueueStart(s, t)' = QueueStart(s, t)
    BY <1>1, <1>2, <1>4 DEF QueueStart
  <2>. QED
    BY <1>1, <2>1 DEF Untouched
<1>7. CurrentTrade.quantity = slot[c].quantity
  BY <1>1, <1>2 DEF CurrentTrade
<1>8. /\ order_map' = [order_map EXCEPT ![slot[c].id] = INVALID_INDEX]
      /\ reported' = reported + slot[c].quantity /\ UNCHANGED <<taker, ret, filled>>
  BY <1>2, <1>7 DEF FillChain
<1>9. OnTrade' <=> slot[c].next # INVALID_INDEX /\ reported' < taker.quantity
  <2>1. OnTrade' <=> slot[c].next # INVALID_INDEX
    BY <1>1, <1>5 DEF OnTrade
  <2>2. ASSUME OnTrade' PROVE reported' < taker.quantity
    <3>1. PICK rep, d, tq : rep = reported' /\ d = CurrentTrade'.quantity /\ tq = taker'.quantity
      OBVIOUS
    <3>2. TradeAtBest'
      BY InvTradeAtBest, PTL
    <3>3. d > 0 /\ rep + d <= tq
      BY <2>2, <3>1, <3>2 DEF TradeAtBest
    <3>4. PICK pos2, acc2, rank2 : BookInv(pos2, acc2, rank2)'
      BY DEF Inv
    <3>5. rep \in Nat /\ tq \in Nat
      <4>1. pc' \in {"match", "walk", "level"}
        BY <1>1
      <4>2. reported' \in 0 .. QuantityModulus - 1 /\ taker' \in Takers
        BY <3>4, <4>1 DEF BookInv, CallInv, CallType, TakerInv
      <4>3. taker'.quantity \in 0 .. QuantityModulus - 1
        BY <4>2 DEF Takers
      <4>. QED
        BY <3>1, <4>2, <4>3, Basics
    <3>6. d \in Nat
      <4>1. CurrentTrade'.quantity = slot'[cursor'].quantity
        BY <1>1 DEF CurrentTrade
      <4>2. cursor' \in allocated' /\ allocated' = allocated
        BY <2>2, <3>2 DEF TradeAtBest, FillChain
      <4>3. slot[cursor'].quantity \in 1 .. QuantityModulus - 1
        BY <4>2, LiveSlot DEF BookInv, Consistent
      <4>. QED
        BY <1>1, <3>1, <4>1, <4>3
    <3>. QED
      BY <1>1, <3>1, <3>3, <3>5, <3>6
  <2>. QED
    BY <2>1, <2>2
<1>10. \A i \in Waits(side, tick) \ {c} : SameOrder(slot, slot', i)
  BY <1>1 DEF SameOrder
<1>11. Drains(side, tick)
  BY <1>1, <1>2, <1>5, <1>6, <1>7, <1>8, <1>9, <1>10 DEF Drains
<1>. QED
  BY <1>1, <1>3, <1>11, DrainIsTrade

\* A maker drained by a taker that ends inside the level.
LEMMA SlowDrainIsTrade ==
  ASSUME NEW pos, NEW acc, NEW rank, BookInv(pos, acc, rank), Viewed, Viewed', FillSlowDrain
  PROVE  Reference!AfterTrade
<1>1. OnTrade /\ path = "slow" /\ pc' = pc /\ path' = path /\ pc = "walk" /\ taker' = taker
  BY DEF FillSlowDrain, OnTrade
<1>2. PICK side, tick, c : side = MakerSide /\ tick = best[MakerSide].idx /\ c = cursor
  OBVIOUS
<1>3. Maker(side, tick) /\ side \in Sides /\ tick \in Ticks
  BY <1>1, <1>2, MakerFirst DEF Maker
<1>4. ~InChain /\ ~InChain'
  BY <1>1 DEF InChain
<1>5. slot' = FreedHead(slot, c, free_head) /\ c \in Slots
  BY <1>2, <1>3 DEF FillSlowDrain, Maker, FreedHead
<1>6. PICK level2 : level2 = WithoutHead(levels[side][tick], slot[c].quantity, slot[c].next)
  OBVIOUS
<1>7. levels' = PutLevel(levels, side, tick, level2)
  BY <1>2, <1>3, <1>6, BookTypes DEF FillSlowDrain, PutLevel
<1>8. \A i \in Slots : i # c => SameOrder(slot, slot', i)
  <2> SUFFICES ASSUME NEW i \in Slots, i # c PROVE SameOrder(slot, slot', i)
    OBVIOUS
  <2>1. slot'[i] = slot[i] \/ slot'[i] = [slot[i] EXCEPT !.prev = INVALID_INDEX]
    BY <1>5 DEF FreedHead
  <2>2. slot[i] \in Orders
    BY BookTypes
  <2>. QED
    BY <2>1, <2>2 DEF SameOrder, Orders
<1>9. \A s \in Sides, t \in Ticks : s # side \/ t # tick => Untouched(s, t)
  <2>1. \A s \in Sides, t \in Ticks : s # side \/ t # tick =>
           \A i \in Waits(s, t) : SameOrder(slot, slot', i)
    BY <1>2, <1>3, <1>8, MakerElsewhere, BookTypes
  <2>. QED
    BY <1>3, <1>4, <1>7, <2>1, OthersStay, BookTypes
<1>10. QueueStart(side, tick)' = slot[c].next
  <2>1. levels'[side][tick] = level2 /\ levels[side][tick] \in Levels
    BY <1>3, <1>7, BookTypes DEF PutLevel
  <2>2. level2.head = slot[c].next
    BY <1>6, <2>1 DEF WithoutHead, ShrinkLevel, Levels
  <2>. QED
    BY <1>4, <2>1, <2>2, QueueStartAt
<1>11. /\ order_map' = [order_map EXCEPT ![slot[c].id] = INVALID_INDEX]
       /\ reported' = reported + slot[c].quantity /\ UNCHANGED <<taker, ret, filled>>
       /\ CurrentTrade.quantity = slot[c].quantity
       /\ cursor' = slot[c].next /\ remaining' = remaining - slot[c].quantity
  BY <1>2 DEF FillSlowDrain
<1>12. OnTrade' <=> slot[c].next # INVALID_INDEX /\ reported' < taker.quantity
  <2>1. OnTrade' <=> slot[c].next # INVALID_INDEX /\ remaining' > 0
    BY <1>1, <1>11 DEF OnTrade
  <2>2. reported = taker.quantity - remaining
    BY <1>1 DEF BookInv, CallInv, WalkInv, SlowInv
  <2>3. PICK rep, tq, r, q : rep = reported /\ tq = taker.quantity /\ r = remaining /\ q = slot[c].quantity
    OBVIOUS
  <2>4. rep \in Nat /\ tq \in Nat /\ r \in Nat /\ q \in Nat
    BY <1>1, <1>2, <1>3, <2>3, Matching DEF Maker
  <2>5. reported' = rep + q /\ remaining' = r - q /\ rep = tq - r
    BY <1>11, <2>2, <2>3
  <2>6. remaining' > 0 <=> reported' < tq
    BY <2>4, <2>5
  <2>. QED
    BY <2>1, <2>3, <2>6
<1>13. \A i \in Waits(side, tick) \ {c} : SameOrder(slot, slot', i)
  BY <1>3, <1>8, BookTypes
<1>14. Drains(side, tick)
  BY <1>1, <1>2, <1>9, <1>10, <1>11, <1>12, <1>13 DEF Drains
<1>. QED
  BY <1>1, <1>3, <1>14, DrainIsTrade

-----------------------------------------------------------------------------
(***************************************************************************)
(* The calls, their refusals, and the entry into a level.                  *)
(***************************************************************************)
\* The reference book does not see a step that keeps the levels, the slots and the map.
LEMMA SameBook ==
  ASSUME Viewed, Viewed', UNCHANGED <<levels, slot, order_map>>, ~InChain, ~InChain'
  PROVE  /\ AbstractQueue' = AbstractQueue /\ AbstractOrderMap' = AbstractOrderMap
         /\ Cardinality(AbstractOrderMap)' = Cardinality(AbstractOrderMap)
<1>1. \A side \in Sides, tick \in Ticks : Untouched(side, tick)
  BY QueueStartAt DEF Untouched
<1>2. AbstractQueue' = AbstractQueue
  BY <1>1, QueuesStay
<1>3. AbstractOrderMap' = AbstractOrderMap
  BY DEF AbstractOrderMap
<1>. QED
  BY <1>2, <1>3

\* The client resumes.
LEMMA ResumesIs ==
  ASSUME Viewed, Viewed', ClientResumes
  PROVE  Reference!ClientResumes
<1>1. pc = "done" /\ pc' = "idle" /\ ~InChain /\ ~InChain' /\ ~OnTrade /\ ~OnTrade'
      /\ UNCHANGED <<levels, slot, order_map>>
  BY DEF ClientResumes, InChain, OnTrade, bookVars
<1>2. AbstractPc = "done" /\ AbstractPc' = "idle" /\ AbstractRemaining' = 0
  BY <1>1 DEF AbstractPc, AbstractRemaining, ClientResumes
<1>3. /\ AbstractQueue' = AbstractQueue /\ AbstractOrderMap' = AbstractOrderMap
      /\ Cardinality(AbstractOrderMap)' = Cardinality(AbstractOrderMap)
  BY <1>1, SameBook
<1>. QED
  BY <1>2, <1>3, ReferenceSides DEF Reference!ClientResumes, ClientResumes

\* What a call that ends without touching the book is for the reference book.
LEMMA ReturnIs ==
  ASSUME Viewed, Viewed', pc \in {"idle", "match"}, NEW reason, NEW quantity, Return(reason, quantity),
         UNCHANGED bookVars
  PROVE  /\ AbstractPc = pc
         /\ Reference!Return(reason, quantity)
         /\ UNCHANGED <<AbstractQueue, AbstractOrderMap, taker, AbstractRemaining>>
         /\ Cardinality(AbstractOrderMap)' = Cardinality(AbstractOrderMap)
<1>1. pc' = "done" /\ ~InChain /\ ~InChain' /\ ~OnTrade /\ ~OnTrade' /\ UNCHANGED <<levels, slot, order_map>>
  BY DEF Return, InChain, OnTrade, bookVars
<1>2. AbstractPc = pc /\ AbstractPc' = "done" /\ AbstractRemaining' = AbstractRemaining
  BY <1>1 DEF AbstractPc, AbstractRemaining, Return
<1>3. /\ AbstractQueue' = AbstractQueue /\ AbstractOrderMap' = AbstractOrderMap
      /\ Cardinality(AbstractOrderMap)' = Cardinality(AbstractOrderMap)
  BY <1>1, SameBook
<1>. QED
  BY <1>2, <1>3 DEF Reference!Return, Return

\* The ids of the clients are looked up alike, as far as they are inside the map.
LEMMA LookupAgrees ==
  ASSUME NEW id \in 1 .. MaxOrderId
  PROVE  id \in AbstractOrderMap <=> order_map[id] # INVALID_INDEX
BY DEF AbstractOrderMap

\* A refused cancel.
LEMMA RejectCancelIs ==
  ASSUME Viewed, Viewed', NEW id \in 1 .. MaxOrderId, RejectCancel(id)
  PROVE  Reference!RejectCancel(id) /\ AbstractPc = "idle"
<1>1. id # 0 /\ ~(id > MaxOrderId)
  BY BookAssumption
<1>2. Reference!CancelVerdict(id) = CancelVerdict(id)
  BY <1>1, LookupAgrees DEF Reference!CancelVerdict, CancelVerdict
<1>3. PICK reason : reason = CancelVerdict(id)
  OBVIOUS
<1>4. pc = "idle" /\ Return(reason, 0) /\ UNCHANGED bookVars /\ reason # "Accepted"
  BY <1>3 DEF RejectCancel
<1>5. /\ AbstractPc = pc
      /\ Reference!Return(reason, 0)
      /\ UNCHANGED <<AbstractQueue, AbstractOrderMap, taker, AbstractRemaining>>
      /\ Cardinality(AbstractOrderMap)' = Cardinality(AbstractOrderMap)
  BY <1>4, ReturnIs
<1>. QED
  BY <1>2, <1>3, <1>4, <1>5 DEF Reference!RejectCancel

\* The validations of an order agree.
LEMMA AddVerdictAgrees ==
  ASSUME NEW pos, NEW acc, NEW rank, BookInv(pos, acc, rank), Viewed, pc = "idle",
         NEW id \in Nat, NEW type, NEW price, NEW quantity, NEW side \in Sides
  PROVE  Reference!AddVerdict(id, type, price, quantity, side) = AddVerdict(id, type, price, quantity, side)
<1>1. PICK opp : opp = Opposite(side)
  OBVIOUS
<1>2. opp \in Sides /\ Looking /\ Reference!Opposite(side) = opp
  BY <1>1, Basics, ReferenceSides DEF Looking
<1>3. Reference!Occupied(opp) = {} <=> ~best[opp].has
  BY <1>2, OccupiedAgrees
<1>4. CASE id = 0 \/ id > MaxOrderId
  BY <1>4 DEF Reference!AddVerdict, AddVerdict
<1>5. CASE ~(id = 0 \/ id > MaxOrderId)
  <2>1. id \in 1 .. MaxOrderId
    BY <1>5, BookAssumption
  <2>2. id \in AbstractOrderMap <=> order_map[id] # INVALID_INDEX
    BY <2>1, LookupAgrees
  <2>. QED
    BY <1>1, <1>2, <1>3, <1>5, <2>2 DEF Reference!AddVerdict, AddVerdict
<1>. QED
  BY <1>4, <1>5

\* A refused order.
LEMMA RejectAddIs ==
  ASSUME NEW pos, NEW acc, NEW rank, BookInv(pos, acc, rank), Viewed, Viewed',
         NEW id \in Nat, NEW type, NEW price, NEW quantity, NEW side \in Sides,
         RejectAdd(id, type, price, quantity, side)
  PROVE  Reference!RejectAdd(id, type, price, quantity, side) /\ AbstractPc = "idle"
<1>1. PICK reason : reason = AddVerdict(id, type, price, quantity, side)
  OBVIOUS
<1>2. pc = "idle" /\ Return(reason, 0) /\ UNCHANGED bookVars /\ reason # "Accepted"
  BY <1>1 DEF RejectAdd
<1>3. Reference!AddVerdict(id, type, price, quantity, side) = reason
  BY <1>1, <1>2, AddVerdictAgrees
<1>4. /\ AbstractPc = pc
      /\ Reference!Return(reason, 0)
      /\ UNCHANGED <<AbstractQueue, AbstractOrderMap, taker, AbstractRemaining>>
      /\ Cardinality(AbstractOrderMap)' = Cardinality(AbstractOrderMap)
  BY <1>2, ReturnIs
<1>5. AbstractPc' = "done"
  BY <1>4 DEF Reference!Return
<1>. QED
  BY <1>2, <1>3, <1>4, <1>5 DEF Reference!RejectAdd

\* An accepted order.
LEMMA AcceptAddIs ==
  ASSUME NEW pos, NEW acc, NEW rank, BookInv(pos, acc, rank), Viewed, Viewed',
         NEW id \in Nat, NEW type \in {"Limit", "Market"}, NEW price, NEW quantity, NEW side \in Sides,
         AcceptAdd(id, type, price, quantity, side)
  PROVE  Reference!AcceptAdd(id, type, price, quantity, side) /\ AbstractPc = "idle"
<1>1. pc = "idle" /\ pc' = "match" /\ ~InChain /\ ~InChain' /\ ~OnTrade /\ ~OnTrade'
      /\ UNCHANGED <<levels, slot, order_map, ret, filled>> /\ remaining' = quantity
  BY DEF AcceptAdd, InChain, OnTrade, bookVars
<1>2. AbstractPc = "idle" /\ AbstractPc' = "match" /\ AbstractRemaining' = quantity
  BY <1>1 DEF AbstractPc, AbstractRemaining
<1>3. /\ AbstractQueue' = AbstractQueue /\ AbstractOrderMap' = AbstractOrderMap
      /\ Cardinality(AbstractOrderMap)' = Cardinality(AbstractOrderMap)
  BY <1>1, SameBook
<1>4. Reference!AddVerdict(id, type, price, quantity, side) = "Accepted"
  <2>1. AddVerdict(id, type, price, quantity, side) = "Accepted"
    BY DEF AcceptAdd
  <2>. QED
    BY <1>1, <2>1, AddVerdictAgrees
<1>5. taker' = [id |-> id, type |-> type, side |-> side,
               price |-> IF type = "Limit" THEN price
                         ELSE IF side = "Buy" THEN MARKET_BUY_PRICE ELSE 0,
               quantity |-> quantity]
  <2>1. ResolvedPrice(type, price, side) =
          IF type = "Limit" THEN price ELSE IF side = "Buy" THEN MARKET_BUY_PRICE ELSE 0
    BY DEF ResolvedPrice, MARKET_SELL_PRICE
  <2>. QED
    BY <2>1 DEF AcceptAdd
<1>. QED
  BY <1>1, <1>2, <1>3, <1>4, <1>5 DEF Reference!AcceptAdd

\* The matching loop turns to a level: the reference book is about to trade.
LEMMA EnterLevelIs ==
  ASSUME NEW pos, NEW acc, NEW rank, BookInv(pos, acc, rank), Viewed, Viewed', EnterLevel
  PROVE  Reference!EnterLevel
<1>1. pc = "match" /\ Crosses /\ pc' = "walk" /\ ~InChain /\ ~OnTrade
      /\ UNCHANGED <<levels, slot, order_map, best, taker, reported, remaining, ret, filled>>
  BY DEF EnterLevel, InChain, OnTrade, bookVars
<1>2. Reference!Crosses
  BY <1>1, CrossesAgrees
<1>3. best[MakerSide].has /\ remaining > 0
  BY <1>1 DEF Crosses, BuyCrosses, SellCrosses, MakerSide, Opposite
<1>4. cursor' # INVALID_INDEX /\ cursor' = BestLevel.head
  <2>1. ~IsEmpty(BestLevel)
    BY <1>1, <1>3, AtBestLevel
  <2>. QED
    BY <2>1 DEF IsEmpty, EnterLevel
<1>5. AbstractPc = "match" /\ AbstractPc' = "trade"
  BY <1>1, <1>3, <1>4 DEF AbstractPc, OnTrade
<1>6. AbstractRemaining' = AbstractRemaining
  BY <1>1, Zenon DEF Viewed
<1>7. \A side \in Sides, tick \in Ticks : Untouched(side, tick)
  <2> SUFFICES ASSUME NEW side \in Sides, NEW tick \in Ticks PROVE Untouched(side, tick)
    OBVIOUS
  <2>1. MakerSide' = MakerSide
    BY <1>1 DEF MakerSide
  <2>2. QueueStart(side, tick)' = QueueStart(side, tick)
    BY <1>1, <1>4, <2>1 DEF QueueStart, BestLevel
  <2>. QED
    BY <1>1, <2>2 DEF Untouched
<1>8. AbstractQueue' = AbstractQueue
  BY <1>7, QueuesStay
<1>9. AbstractOrderMap' = AbstractOrderMap /\ Cardinality(AbstractOrderMap)' = Cardinality(AbstractOrderMap)
  BY <1>1 DEF AbstractOrderMap
<1>. QED
  BY <1>1, <1>2, <1>5, <1>6, <1>8, <1>9 DEF Reference!EnterLevel

-----------------------------------------------------------------------------
(***************************************************************************)
(* Leaving a level, and the ends of a call that leave the book alone.      *)
(***************************************************************************)
\* Leaving a level is no step of the reference book.
LEMMA LeavesLevel ==
  ASSUME Viewed, Viewed', SlowDone \/ LevelDone
  PROVE  UNCHANGED Reference!vars
<1>1. /\ ~InChain /\ ~InChain' /\ ~OnTrade /\ ~OnTrade'
      /\ pc \in {"walk", "level"} /\ pc' \in {"level", "match"}
      /\ UNCHANGED <<levels, slot, order_map, taker, remaining, ret, filled>>
  BY DEF SlowDone, LevelDone, InChain, OnTrade, bookVars
<1>2. AbstractPc = "match" /\ AbstractPc' = "match"
  BY <1>1 DEF AbstractPc
<1>3. AbstractRemaining' = AbstractRemaining
  BY <1>1 DEF AbstractRemaining
<1>4. /\ AbstractQueue' = AbstractQueue /\ AbstractOrderMap' = AbstractOrderMap
      /\ Cardinality(AbstractOrderMap)' = Cardinality(AbstractOrderMap)
  BY <1>1, SameBook
<1>. QED
  BY <1>1, <1>2, <1>3, <1>4 DEF Reference!vars

\* Nor is the splice of a chain: its orders have traded one by one.
LEMMA SpliceUnseen ==
  ASSUME NEW pos, NEW acc, NEW rank, BookInv(pos, acc, rank), Viewed, Viewed', ChainDone
  PROVE  UNCHANGED Reference!vars
<1>1. /\ pc = "walk" /\ path = "chain" /\ cursor = INVALID_INDEX /\ pc' = "level"
      /\ InChain /\ ~InChain' /\ ~OnTrade /\ ~OnTrade'
      /\ UNCHANGED <<order_map, taker, reported, ret, filled>>
  BY DEF ChainDone, InChain, OnTrade
<1>2. AbstractPc = "match" /\ AbstractPc' = "match"
  BY <1>1 DEF AbstractPc
<1>3. AbstractRemaining' = AbstractRemaining
  BY <1>1, Zenon DEF Viewed
<1>4. PICK side, tick, S, level, n :
        /\ side = MakerSide /\ tick = best[MakerSide].idx
        /\ S = Members(slot, allocated, MakerSide, best[MakerSide].idx) /\ level = BestLevel
        /\ n = level.order_count
  OBVIOUS
<1>5. /\ side \in Sides /\ tick \in Ticks /\ S = Members(slot, allocated, side, tick)
      /\ slot' = Spliced(slot, S, level.tail, free_head)
      /\ levels' = PutLevel(levels, side, tick, EmptyLevel)
  BY <1>4, ChainSpliced
<1>6. \A i \in Slots : i \notin S => SameOrder(slot, slot', i)
  BY <1>5 DEF Spliced, SameOrder
<1>7. ASSUME NEW s \in Sides, NEW t \in Ticks PROVE Untouched(s, t)
  <2>1. CASE s = side /\ t = tick
    <3>1. QueueStart(s, t) = INVALID_INDEX
      BY <1>1, <1>4, <2>1 DEF QueueStart
    <3>2. QueueStart(s, t)' = INVALID_INDEX
      <4>1. levels'[side][tick] = EmptyLevel
        BY <1>5, BookTypes DEF PutLevel
      <4>. QED
        BY <1>1, <2>1, <4>1, QueueStartAt DEF EmptyLevel
    <3>3. Waits(s, t) = {}
      <4>1. PICK w : w = QueueSlots(s, t)
        OBVIOUS
      <4>2. Follows(slot, INVALID_INDEX, w) /\ Enumerates(w, Waits(s, t))
        BY <3>1, <4>1, Zenon DEF Viewed, QueueView
      <4>3. w = <<>>
        BY <4>2, Basics DEF Follows
      <4>. QED
        BY <4>2, <4>3 DEF Enumerates
    <3>. QED
      BY <3>1, <3>2, <3>3 DEF Untouched
  <2>2. CASE s # side \/ t # tick
    <3>1. QueueStart(s, t) = levels[s][t].head
      BY <1>4, <2>2 DEF QueueStart
    <3>2. QueueStart(s, t)' = levels[s][t].head
      <4>1. levels'[s][t] = levels[s][t]
        BY <1>5, <2>2, BookTypes DEF PutLevel
      <4>. QED
        BY <1>1, <4>1, QueueStartAt
    <3>3. ASSUME NEW i \in Waits(s, t) PROVE SameOrder(slot, slot', i)
      <4>1. i \in Slots /\ slot[i].side = s /\ slot[i].price = MinPrice + t
        BY <3>3, BookTypes DEF Waits, Members
      <4>2. i \notin S
        BY <1>5, <2>2, <4>1, TickOfPrice DEF Members
      <4>. QED
        BY <1>6, <4>1, <4>2
    <3>. QED
      BY <3>1, <3>2, <3>3 DEF Untouched, SameOrder
  <2>. QED
    BY <2>1, <2>2
<1>8. AbstractQueue' = AbstractQueue
  BY <1>7, QueuesStay
<1>9. AbstractOrderMap' = AbstractOrderMap /\ Cardinality(AbstractOrderMap)' = Cardinality(AbstractOrderMap)
  BY <1>1 DEF AbstractOrderMap
<1>. QED
  BY <1>1, <1>2, <1>3, <1>8, <1>9 DEF Reference!vars

\* The order is filled, or the rest of a market order is dropped.
LEMMA AddFilledIs ==
  ASSUME NEW pos, NEW acc, NEW rank, BookInv(pos, acc, rank), Viewed, Viewed', AddFilled
  PROVE  Reference!AddFilled
<1>1. pc = "match" /\ ~Crosses /\ Return("Accepted", Filled) /\ UNCHANGED bookVars
      /\ (remaining = 0 \/ taker.type = "Market")
  BY DEF AddFilled, MatchOver
<1>2. AbstractRemaining = remaining
  BY <1>1 DEF AbstractRemaining, InChain
<1>3. ~Reference!Crosses
  BY <1>1, CrossesAgrees
<1>4. /\ AbstractPc = pc
      /\ Reference!Return("Accepted", Filled)
      /\ UNCHANGED <<AbstractQueue, AbstractOrderMap, taker, AbstractRemaining>>
      /\ Cardinality(AbstractOrderMap)' = Cardinality(AbstractOrderMap)
  BY <1>1, ReturnIs
<1>. QED
  BY <1>1, <1>2, <1>3, <1>4 DEF Reference!AddFilled, Filled

\* Outside the chain path the map of the reference book has as many ids as the
\* pool has live slots, so the two books are full in the same states.
LEMMA FullAgrees ==
  ASSUME NEW pos, NEW acc, NEW rank, BookInv(pos, acc, rank), ~InChain
  PROVE  /\ Cardinality(AbstractOrderMap) = Cardinality(allocated)
         /\ Cardinality(AbstractOrderMap) \in Nat
         /\ free_head = INVALID_INDEX <=> Cardinality(AbstractOrderMap) + 1 > Capacity
<1>1. Store(slot, allocated, free_head, levels, pos, acc, rank) /\ allocated \in SUBSET Slots
  BY DEF BookInv, Consistent, Store
<1>2. MapOf(order_map, allocated, slot)
  BY MapWhole DEF InChain
<1>3. /\ \A i \in allocated : slot[i].id \in 1 .. MaxOrderId /\ order_map[slot[i].id] = i
      /\ \A id \in 1 .. MaxOrderId :
           order_map[id] # INVALID_INDEX => order_map[id] \in allocated /\ slot[order_map[id]].id = id
  BY <1>2 DEF MapOf
<1>4. Cardinality(AbstractOrderMap) = Cardinality(allocated)
  BY <1>1, <1>3, MapCount DEF AbstractOrderMap
<1>5. Cardinality(allocated) \in 0 .. Capacity /\ Capacity \in Nat
  BY <1>1, SlotsFinite, BookAssumption
<1>6. Cardinality(allocated) + 1 > Capacity <=> allocated = Slots
  <2>1. allocated = Slots => Cardinality(allocated) = Capacity
    BY SlotsFinite
  <2>2. Cardinality(allocated) = Capacity => allocated = Slots
    BY <1>1, SlotsFinite, FS_Subset
  <2>. QED
    BY <1>5, <2>1, <2>2
<1>7. free_head = INVALID_INDEX <=> allocated = Slots
  BY <1>1, FreeHead
<1>. QED
  BY <1>4, <1>5, <1>6, <1>7

\* The pool is exhausted.
LEMMA AddExhaustedIs ==
  ASSUME NEW pos, NEW acc, NEW rank, BookInv(pos, acc, rank), Viewed, Viewed', Inv', AddExhausted
  PROVE  Reference!AddExhausted
<1>1. pc = "match" /\ ~Crosses /\ Return("PoolExhausted", Filled) /\ UNCHANGED bookVars
      /\ remaining > 0 /\ taker.type = "Limit" /\ free_head = INVALID_INDEX /\ ~InChain
  BY DEF AddExhausted, MatchOver, InChain
<1>2. AbstractRemaining = remaining
  BY <1>1 DEF AbstractRemaining
<1>3. ~Reference!Crosses
  BY <1>1, CrossesAgrees
<1>4. Filled = 0
  <2>1. filled' = 0
    BY <1>1 DEF Inv, BookInv, CallInv, Return
  <2>. QED
    BY <1>1, <2>1 DEF Return
<1>5. /\ AbstractPc = pc
      /\ Reference!Return("PoolExhausted", 0)
      /\ UNCHANGED <<AbstractQueue, AbstractOrderMap, taker, AbstractRemaining>>
      /\ Cardinality(AbstractOrderMap)' = Cardinality(AbstractOrderMap)
  BY <1>1, <1>4, ReturnIs
<1>6. Cardinality(AbstractOrderMap) + 1 > Capacity
  BY <1>1, FullAgrees
<1>. QED
  BY <1>1, <1>2, <1>3, <1>5, <1>6 DEF Reference!AddExhausted

-----------------------------------------------------------------------------
(***************************************************************************)
(* The last maker of a slow level is filled in part.                       *)
(***************************************************************************)
\* A partial fill of the first order.
LessHead(q, d) == [q EXCEPT ![1].quantity = @ - d]

\* What is told of a queue whose first slot has lost d of its quantity.
LEMMA ToldShrinks ==
  ASSUME NEW sl \in [Slots -> Orders], NEW w \in Seq(Slots), w # <<>>, NEW d, NEW sl2, sl2 = Taken(sl, w[1], d),
         \A j, k \in 1 .. Len(w) : w[j] = w[k] => j = k
  PROVE  Told(sl2, w) = LessHead(Told(sl, w), d)
<1>1. PICK s, t, n, c : s = Told(sl, w) /\ t = Told(sl2, w) /\ n = Len(w) /\ c = w[1]
  OBVIOUS
<1>2. DOMAIN w = 1 .. n /\ n \in Nat \ {0} /\ 1 \in 1 .. n /\ \A k \in 1 .. n : w[k] \in Slots
  BY <1>1
<1>3. /\ s = [k \in 1 .. n |-> [id |-> sl[w[k]].id, quantity |-> sl[w[k]].quantity]]
      /\ t = [k \in 1 .. n |-> [id |-> sl2[w[k]].id, quantity |-> sl2[w[k]].quantity]]
  BY <1>1, <1>2 DEF Told
<1>4. /\ \A i \in Slots : i # c => sl2[i] = sl[i]
      /\ sl2[c].id = sl[c].id /\ sl2[c].quantity = sl[c].quantity - d
  <2>1. sl[c] \in Orders /\ c \in Slots
    BY <1>1, <1>2
  <2>2. sl2[c] = [sl[c] EXCEPT !.quantity = @ - d]
    BY <1>1, <2>1 DEF Taken
  <2>3. \A i \in Slots : i # c => sl2[i] = sl[i]
    BY <1>1 DEF Taken
  <2>. QED
    BY <2>1, <2>2, <2>3 DEF Orders
<1>5. \A k \in 1 .. n : k # 1 => t[k] = s[k]
  <2> SUFFICES ASSUME NEW k \in 1 .. n, k # 1 PROVE t[k] = s[k]
    OBVIOUS
  <2>1. w[k] # c /\ w[k] \in Slots
    BY <1>1, <1>2
  <2>. QED
    BY <1>3, <1>4, <2>1
<1>6. t[1] = [s[1] EXCEPT !.quantity = @ - d]
  <2>1. s[1] = [id |-> sl[c].id, quantity |-> sl[c].quantity]
    BY <1>1, <1>2, <1>3
  <2>2. t[1] = [id |-> sl2[c].id, quantity |-> sl2[c].quantity]
    BY <1>1, <1>2, <1>3
  <2>. QED
    BY <1>4, <2>1, <2>2
<1>7. PICK e, u : e = [s[1] EXCEPT !.quantity = @ - d] /\ u = [s EXCEPT ![1] = e]
  OBVIOUS
<1>8. u = [s EXCEPT ![1].quantity = @ - d]
  BY <1>7
<1>9. t = u
  <2>1. DOMAIN s = 1 .. n /\ t = [k \in 1 .. n |-> t[k]]
    BY <1>3
  <2>2. u = [k \in 1 .. n |-> IF k = 1 THEN e ELSE s[k]]
    BY <1>7, <2>1
  <2>3. \A k \in 1 .. n : t[k] = IF k = 1 THEN e ELSE s[k]
    BY <1>5, <1>6, <1>7
  <2>. QED
    BY <2>1, <2>2, <2>3
<1>. QED
  BY <1>1, <1>8, <1>9 DEF LessHead

\* The taker ends inside its maker.
LEMMA PartialIsTrade ==
  ASSUME NEW pos, NEW acc, NEW rank, BookInv(pos, acc, rank), Viewed, Viewed', FillSlowPartial
  PROVE  Reference!AfterTrade
<1>1. OnTrade /\ path = "slow" /\ pc' = pc /\ path' = path /\ pc = "walk" /\ taker' = taker
      /\ order_map' = order_map /\ ret' = ret /\ filled' = filled
  BY DEF FillSlowPartial, OnTrade
<1>2. PICK side, tick, c, d, q, r, p, w :
        /\ side = MakerSide /\ tick = best[MakerSide].idx /\ c = cursor /\ d = CurrentTrade.quantity
        /\ w = QueueSlots(side, tick) /\ q = Told(slot, w) /\ r = AbstractRemaining /\ p = MinPrice + tick
  OBVIOUS
<1>3. /\ Maker(side, tick) /\ side \in Sides /\ tick \in Ticks /\ w # <<>> /\ w[1] = c /\ c \in Slots
      /\ QueueStart(side, tick) = c /\ slot[c].quantity \in Nat
  BY <1>1, <1>2, MakerFirst DEF Maker
<1>4. ~InChain /\ ~InChain'
  BY <1>1 DEF InChain
<1>5. slot' = Taken(slot, c, d) /\ d < slot[c].quantity /\ reported' = reported + d /\ remaining' = remaining - d
  BY <1>2 DEF FillSlowPartial, Taken
<1>6. /\ r = taker.quantity - reported /\ r \in Nat /\ d \in Nat \ {0} /\ r = remaining
      /\ taker.quantity \in Nat /\ reported \in Nat
  BY <1>1, <1>2, <1>4, TradeQuantity, Matching DEF AbstractRemaining
<1>7. d = r
  BY <1>1, <1>2, <1>3, <1>5, <1>6 DEF CurrentTrade
<1>8. ~OnTrade' /\ AbstractPc = "trade" /\ AbstractPc' = "match"
  <2>1. remaining' = 0
    BY <1>5, <1>6, <1>7
  <2>2. ~OnTrade'
    BY <1>1, <2>1 DEF OnTrade
  <2>. QED
    BY <1>1, <2>2 DEF AbstractPc
<1>9. AbstractRemaining' = r - d
  <2>1. AbstractRemaining' = taker'.quantity - reported'
    BY <1>1, Zenon DEF Viewed
  <2>. QED
    BY <1>1, <1>5, <1>6, <2>1
<1>10. PICK level2 : level2 = ShrinkLevel(levels[side][tick], d)
  OBVIOUS
<1>11. levels' = PutLevel(levels, side, tick, level2)
  BY <1>2, <1>3, <1>10, BookTypes DEF FillSlowPartial, PutLevel
<1>12. \A i \in Slots : slot'[i].next = slot[i].next /\ slot'[i].id = slot[i].id /\ (i # c => SameOrder(slot, slot', i))
  <2> SUFFICES ASSUME NEW i \in Slots
               PROVE  slot'[i].next = slot[i].next /\ slot'[i].id = slot[i].id /\ (i # c => SameOrder(slot, slot', i))
    OBVIOUS
  <2>1. slot'[i] = IF i = c THEN [slot[i] EXCEPT !.quantity = @ - d] ELSE slot[i]
    BY <1>5, BookTypes DEF Taken
  <2>2. slot[i] \in Orders
    BY BookTypes
  <2>. QED
    BY <2>1, <2>2 DEF SameOrder, Orders
<1>13. \A s \in Sides, t \in Ticks : s # side \/ t # tick => Untouched(s, t)
  <2>1. \A s \in Sides, t \in Ticks : s # side \/ t # tick =>
           \A i \in Waits(s, t) : SameOrder(slot, slot', i)
    BY <1>2, <1>3, <1>12, MakerElsewhere, BookTypes
  <2>. QED
    BY <1>3, <1>4, <1>11, <2>1, OthersStay, BookTypes
<1>14. QueueStart(side, tick)' = c
  <2>1. levels'[side][tick] = level2 /\ levels[side][tick] \in Levels
    BY <1>3, <1>11, BookTypes DEF PutLevel
  <2>2. level2.head = levels[side][tick].head
    BY <1>10, <2>1 DEF ShrinkLevel, Levels
  <2>3. levels[side][tick].head = c
    BY <1>3, <1>4, QueueStartAt
  <2>. QED
    BY <1>4, <2>1, <2>2, <2>3, QueueStartAt
<1>15. Follows(slot, c, w) /\ Enumerates(w, Waits(side, tick)) /\ w \in Seq(Slots)
  BY <1>2, <1>3, Zenon DEF Viewed, QueueView, Follows
<1>16. QueueSlots(side, tick)' = w
  <2>1. Follows(slot', c, QueueSlots(side, tick)')
    <3>1. Follows(slot', QueueStart(side, tick)', QueueSlots(side, tick)')
      BY <1>3, Zenon DEF Viewed, QueueView
    <3>. QED
      BY <1>14, <3>1
  <2>2. \A k \in 1 .. Len(w) : slot'[w[k]].next = slot[w[k]].next
    BY <1>12, <1>15
  <2>3. Follows(slot', c, w)
    BY <1>15, <2>2, FollowsFrame
  <2>. QED
    BY <2>1, <2>3, FollowsUnique
<1>17. PICK left : left = LessHead(q, d)
  OBVIOUS
<1>18. Told(slot', w) = left
  <2>1. \A j, k \in 1 .. Len(w) : w[j] = w[k] => j = k
    BY <1>15 DEF Enumerates
  <2>2. slot' = Taken(slot, w[1], d) /\ slot \in [Slots -> Orders]
    BY <1>3, <1>5, BookTypes
  <2>3. w \in Seq(Slots) /\ w # <<>>
    BY <1>3, <1>15
  <2>4. PICK sl, sl2 : sl = slot /\ sl2 = slot'
    OBVIOUS
  <2>5. Told(sl2, w) = LessHead(Told(sl, w), d)
    BY <2>1, <2>2, <2>3, <2>4, ToldShrinks
  <2>. QED
    BY <1>2, <1>17, <2>4, <2>5, Zenon
<1>19. AbstractQueue' = [AbstractQueue EXCEPT ![side][p] = left]
  BY <1>2, <1>3, <1>13, <1>16, <1>18, QueuesChange
<1>20. Len(q) - Len(left) = 0 /\ left # <<>>
  <2>1. Len(Told(slot, w)) = Len(w) /\ Len(Told(slot', w)) = Len(w)
        /\ Told(slot', w) \in Seq(AllShown(slot'))
    BY <1>15, ToldIs
  <2>2. Len(w) \in Nat \ {0}
    BY <1>3, <1>15
  <2>3. Len(q) = Len(w) /\ Len(left) = Len(w) /\ left \in Seq(AllShown(slot'))
    BY <1>2, <1>18, <2>1, Zenon
  <2>. QED
    BY <2>2, <2>3
<1>21. /\ Reference!BestPrice = p /\ AbstractQueue[side][p] = q
       /\ Head(q) = [id |-> slot[c].id, quantity |-> slot[c].quantity]
  BY <1>1, <1>2, TradeQueue
<1>22. Reference!MakerSide = side
  BY <1>2, ReferenceSides
<1>23. Reference!CurrentTrade.quantity = d
  <2>1. CurrentTrade = Reference!CurrentTrade
    BY <1>1, InvTradesAgree DEF TradesAgree, Inv
  <2>. QED
    BY <1>2, <2>1
<1>24. Head(q).quantity # d
  BY <1>3, <1>5, <1>6, <1>21
<1>25. AbstractOrderMap' = AbstractOrderMap /\ Cardinality(AbstractOrderMap') = Cardinality(AbstractOrderMap) - 0
  <2>1. AbstractOrderMap' = AbstractOrderMap
    BY <1>1 DEF AbstractOrderMap
  <2>2. Cardinality(AbstractOrderMap) \in Nat
    BY <1>4, FullAgrees
  <2>. QED
    BY <2>1, <2>2
<1>26. r - d = 0
  BY <1>6, <1>7
<1>27. left = IF d = Head(q).quantity THEN Tail(q) ELSE LessHead(q, d)
  BY <1>17, <1>24
<1>28. "match" = IF left # <<>> /\ r - d > 0 THEN "trade" ELSE "match"
  BY <1>26
<1>29. Cardinality(AbstractOrderMap') = Cardinality(AbstractOrderMap) - (Len(q) - Len(left))
  BY <1>20, <1>25
<1>30. Reference!AfterTrade <=>
         LET rest == IF d = Head(q).quantity THEN Tail(q) ELSE LessHead(q, d)
         IN  /\ AbstractPc = "trade"
             /\ AbstractQueue' = [AbstractQueue EXCEPT ![side][p] = rest]
             /\ AbstractOrderMap' = IF d = Head(q).quantity THEN AbstractOrderMap \ {Head(q).id}
                                    ELSE AbstractOrderMap
             /\ Cardinality(AbstractOrderMap') = Cardinality(AbstractOrderMap) - (Len(q) - Len(rest))
             /\ AbstractRemaining' = r - d
             /\ AbstractPc' = IF rest # <<>> /\ r - d > 0 THEN "trade" ELSE "match"
             /\ UNCHANGED <<taker, ret, filled>>
  BY <1>2, <1>21, <1>22, <1>23, Zenon DEF Reference!AfterTrade, LessHead
<1>. QED
  BY <1>1, <1>8, <1>9, <1>19, <1>24, <1>25, <1>27, <1>28, <1>29, <1>30

-----------------------------------------------------------------------------
(***************************************************************************)
(* A cancel takes an order out of the middle of its queue.                 *)
(***************************************************************************)
\* What is told of a queue without its place m.
LEMMA ToldRemove ==
  ASSUME NEW sl, NEW w \in Seq(Slots), NEW m \in 1 .. Len(w)
  PROVE  Told(sl, Reference!RemoveAt(w, m)) = Reference!RemoveAt(Told(sl, w), m)
<1>1. PICK v, s, t, u, E : /\ v = Reference!RemoveAt(w, m) /\ s = Told(sl, w) /\ t = Told(sl, v)
                           /\ u = Reference!RemoveAt(s, m) /\ E = AllShown(sl)
  OBVIOUS
<1>2. /\ v \in Seq(Slots) /\ Len(v) = Len(w) - 1 /\ Len(w) \in Nat /\ m \in Nat
      /\ \A k \in 1 .. Len(w) - 1 : v[k] = IF k < m THEN w[k] ELSE w[k + 1]
  <2>1. Len(w) \in Nat /\ m \in Nat
    OBVIOUS
  <2>. QED
    BY <1>1, <2>1, RemoveAtIs, Zenon
<1>3. s \in Seq(E) /\ Len(s) = Len(w) /\ \A k \in 1 .. Len(w) : s[k] = Shown(sl, w[k])
  BY <1>1, ToldIs
<1>4. t \in Seq(E) /\ Len(t) = Len(v) /\ \A k \in 1 .. Len(v) : t[k] = Shown(sl, v[k])
  BY <1>1, <1>2, ToldIs
<1>5. /\ u \in Seq(E) /\ Len(u) = Len(s) - 1
      /\ \A k \in 1 .. Len(s) - 1 : u[k] = IF k < m THEN s[k] ELSE s[k + 1]
  <2>1. m \in 1 .. Len(s)
    BY <1>3
  <2>. QED
    BY <1>1, <1>3, <2>1, RemoveAtIs
<1>6. \A k \in 1 .. Len(t) : t[k] = u[k]
  <2> TAKE k \in 1 .. Len(t)
  <2>1. k \in 1 .. Len(w) - 1 /\ k \in 1 .. Len(s) - 1 /\ k \in 1 .. Len(v)
        /\ k \in 1 .. Len(w) /\ k + 1 \in 1 .. Len(w)
    BY <1>2, <1>3, <1>4
  <2>2. t[k] = Shown(sl, v[k]) /\ v[k] = IF k < m THEN w[k] ELSE w[k + 1]
    BY <1>2, <1>4, <2>1
  <2>3. u[k] = IF k < m THEN s[k] ELSE s[k + 1]
    BY <1>5, <2>1
  <2>4. s[k] = Shown(sl, w[k]) /\ s[k + 1] = Shown(sl, w[k + 1])
    BY <1>3, <2>1
  <2>. QED
    BY <2>2, <2>3, <2>4
<1>7. t = u
  BY <1>2, <1>3, <1>4, <1>5, <1>6
<1>. QED
  BY <1>1, <1>7

\* What remove_order and deallocate write.
LEMMA ReleasedLinks ==
  ASSUME NEW sl \in [Slots -> Orders], NEW i \in Slots, NEW level, NEW rem, rem = RemoveOrder(level, sl, i),
         NEW fh, NEW k \in Slots, k # i
  PROVE  /\ Released(rem, i, fh)[k].next = IF k = sl[i].prev THEN sl[i].next ELSE sl[k].next
         /\ Released(rem, i, fh)[k].id = sl[k].id
         /\ Released(rem, i, fh)[k].quantity = sl[k].quantity
<1>1. PICK o, a, b : o = sl[k] /\ a = sl[i].prev /\ b = sl[i].next
  OBVIOUS
<1>2. o \in Orders
  BY <1>1
<1>3. rem.slot = [j \in Slots |->
         IF j = i THEN [sl[i] EXCEPT !.prev = INVALID_INDEX, !.next = INVALID_INDEX]
         ELSE IF j = a THEN [sl[j] EXCEPT !.next = b]
         ELSE IF j = b THEN [sl[j] EXCEPT !.prev = a]
         ELSE sl[j]]
  <2>1. DOMAIN sl = Slots
    OBVIOUS
  <2>. QED
    BY <1>1, <2>1 DEF RemoveOrder
<1>4. Released(rem, i, fh)[k] = rem.slot[k]
  BY <1>3 DEF Released
<1>5. rem.slot[k] = IF k = a THEN [o EXCEPT !.next = b] ELSE IF k = b THEN [o EXCEPT !.prev = a] ELSE o
  BY <1>1, <1>3
<1>6. CASE k = a
  BY <1>1, <1>2, <1>4, <1>5, <1>6 DEF Orders
<1>7. CASE k # a
  BY <1>1, <1>2, <1>4, <1>5, <1>7 DEF Orders
<1>. QED
  BY <1>6, <1>7

\* w is the queue of slot i, at place m, with its links back.
Stands(w, side, tick, i, m) ==
  /\ side \in Sides /\ tick \in Ticks /\ i \in Slots
  /\ w = QueueSlots(side, tick) /\ QueueStart(side, tick) = levels[side][tick].head
  /\ Follows(slot, QueueStart(side, tick), w) /\ w \in Seq(Slots)
  /\ Enumerates(w, Waits(side, tick))
  /\ m \in 1 .. Len(w) /\ w[m] = i
  /\ slot[i].prev = IF m = 1 THEN INVALID_INDEX ELSE w[m - 1]
  /\ slot[i].side = side /\ slot[i].price = MinPrice + tick

\* Every live order stands in a queue.
LEMMA OrderStands ==
  ASSUME NEW pos, NEW acc, NEW rank, BookInv(pos, acc, rank), Viewed, pc = "idle", NEW i \in allocated
  PROVE  \E w, m : Stands(w, slot[i].side, slot[i].price - MinPrice, i, m)
<1>1. PICK side, tick : side = slot[i].side /\ tick = slot[i].price - MinPrice
  OBVIOUS
<1>2. Store(slot, allocated, free_head, levels, pos, acc, rank) /\ MapOf(order_map, allocated, slot) /\ ~InChain
  BY MapWhole DEF BookInv, Consistent, InChain
<1>3. side \in Sides /\ tick \in Ticks /\ i \in Slots /\ i \in Members(slot, allocated, side, tick)
  BY <1>1, <1>2, LiveSlot
<1>4. slot[i].side = side /\ slot[i].price = MinPrice + tick
  BY <1>3 DEF Members
<1>5. i \in Waits(side, tick)
  BY <1>2, <1>3 DEF Waits, MapOf
<1>6. PICK w : w = QueueSlots(side, tick)
  OBVIOUS
<1>7. Follows(slot, QueueStart(side, tick), w) /\ Enumerates(w, Waits(side, tick)) /\ w \in Seq(Slots)
  BY <1>3, <1>6, Zenon DEF Viewed, QueueView, Follows
<1>8. PICK m \in 1 .. Len(w) : w[m] = i
  BY <1>5, <1>7 DEF Enumerates
<1>9. QueueStart(side, tick) = levels[side][tick].head /\ w = Walk(levels[side][tick].head)
  BY <1>2, <1>6, QueueStartAt DEF QueueSlots
<1>10. slot[i].prev = IF m = 1 THEN INVALID_INDEX ELSE w[m - 1]
  <2>1. LevelValid(side, tick)
    BY <1>3, InvLevelValid, Zenon
  <2>2. \A k \in 1 .. Len(w) : slot[w[k]].prev = IF k = 1 THEN INVALID_INDEX ELSE w[k - 1]
    BY <1>9, <2>1 DEF LevelValid
  <2>. QED
    BY <1>8, <2>2
<1>11. Stands(w, side, tick, i, m)
  BY <1>3, <1>4, <1>6, <1>7, <1>8, <1>9, <1>10 DEF Stands
<1>. QED
  BY <1>1, <1>11

\* Slot i is unlinked from that queue and freed; no chain is walked.
Unlinks(w, side, tick, i, m, rem, fh) ==
  /\ Stands(w, side, tick, i, m)
  /\ slot \in [Slots -> Orders] /\ levels \in [Sides -> [Ticks -> Levels]]
  /\ \A s \in Sides, t \in Ticks : Waits(s, t) \in SUBSET Slots
  /\ ~InChain /\ ~InChain'
  /\ rem = RemoveOrder(levels[side][tick], slot, i)
  /\ slot' = Released(rem, i, fh)
  /\ levels' = PutLevel(levels, side, tick, rem.level)

\* The queue an order has been taken from.
LEMMA QueueWithout ==
  ASSUME Viewed, Viewed', NEW w, NEW side, NEW tick, NEW i, NEW m, NEW rem, NEW fh,
         Unlinks(w, side, tick, i, m, rem, fh)
  PROVE  AbstractQueue' = [AbstractQueue EXCEPT ![side][MinPrice + tick] =
                             Reference!RemoveAt(Told(slot, w), m)]
<1>0. /\ slot \in [Slots -> Orders] /\ levels \in [Sides -> [Ticks -> Levels]]
      /\ \A s \in Sides, t \in Ticks : Waits(s, t) \in SUBSET Slots
      /\ ~InChain /\ ~InChain'
      /\ rem = RemoveOrder(levels[side][tick], slot, i)
      /\ slot' = Released(rem, i, fh)
      /\ levels' = PutLevel(levels, side, tick, rem.level)
  BY Zenon DEF Unlinks
<1> USE <1>0
<1>1. /\ side \in Sides /\ tick \in Ticks /\ i \in Slots
      /\ w = QueueSlots(side, tick) /\ QueueStart(side, tick) = levels[side][tick].head
      /\ w \in Seq(Slots) /\ Enumerates(w, Waits(side, tick))
      /\ m \in 1 .. Len(w) /\ w[m] = i
      /\ slot[i].prev = IF m = 1 THEN INVALID_INDEX ELSE w[m - 1]
      /\ slot[i].side = side /\ slot[i].price = MinPrice + tick
  BY DEF Stands, Unlinks
<1>2. \A k \in Slots : k # i =>
        /\ slot'[k].next = IF k = slot[i].prev THEN slot[i].next ELSE slot[k].next
        /\ slot'[k].id = slot[k].id /\ slot'[k].quantity = slot[k].quantity
  BY <1>1, ReleasedLinks
<1>3. \A j, k \in 1 .. Len(w) : w[j] = w[k] => j = k
  BY <1>1 DEF Enumerates
<1>4. \A k \in 1 .. Len(w) : w[k] \in Slots /\ w[k] \in Waits(side, tick)
  BY <1>1 DEF Enumerates
<1>5. ASSUME NEW s \in Sides, NEW t \in Ticks, s # side \/ t # tick, NEW k \in Waits(s, t)
      PROVE  SameOrder(slot, slot', k)
  <2>1. k \in Slots /\ slot[k].side = s /\ slot[k].price = MinPrice + t
    BY <1>5 DEF Waits, Members
  <2>2. \A j \in Waits(side, tick) : slot[j].side = side /\ slot[j].price = MinPrice + tick
    BY DEF Waits, Members
  <2>3. k \notin Waits(side, tick)
    BY <1>1, <1>5, <2>1, <2>2, TickOfPrice
  <2>4. k # i
    BY <1>1, <1>4, <2>3
  <2>5. k # slot[i].prev
    <3>1. CASE m = 1
      BY <1>1, <2>1, <3>1, Basics
    <3>2. CASE m # 1
      <4>1. m - 1 \in 1 .. Len(w)
        BY <1>1, <3>2
      <4>. QED
        BY <1>1, <1>4, <2>3, <3>2, <4>1
    <3>. QED
      BY <3>1, <3>2
  <2>. QED
    BY <1>2, <2>1, <2>4, <2>5 DEF SameOrder
<1>6. \A s \in Sides, t \in Ticks : s # side \/ t # tick => Untouched(s, t)
  BY <1>1, <1>5, OthersStay
<1>7. PICK first, first2 : first = QueueStart(side, tick) /\ first2 = IF m = 1 THEN slot[i].next ELSE first
  OBVIOUS
<1>8. QueueStart(side, tick)' = first2
  <2>1. levels'[side][tick] = rem.level
    BY <1>1 DEF PutLevel
  <2>2. rem.level.head = IF slot[i].prev = INVALID_INDEX THEN slot[i].next ELSE levels[side][tick].head
    BY DEF RemoveOrder
  <2>3. slot[i].prev = INVALID_INDEX <=> m = 1
    <3>1. m # 1 => m - 1 \in 1 .. Len(w)
      BY <1>1
    <3>. QED
      BY <1>1, <1>4, <3>1, Basics
  <2>. QED
    BY <1>1, <1>7, <2>1, <2>2, <2>3, QueueStartAt
<1>9. PICK v : v = Reference!RemoveAt(w, m)
  OBVIOUS
<1>10. Follows(slot', first2, v)
  <2>1. Follows(slot, first, w)
    BY <1>7 DEF Stands, Unlinks
  <2>2. ASSUME NEW k \in 1 .. Len(w), k # m
        PROVE  slot'[w[k]].next = IF k = m - 1 THEN slot[w[m]].next ELSE slot[w[k]].next
    <3>1. w[k] # i /\ w[k] \in Slots
      BY <1>1, <1>3, <1>4, <2>2
    <3>2. w[k] = slot[i].prev <=> k = m - 1
      <4>1. CASE m = 1
        <5>1. k # m - 1 /\ slot[i].prev = INVALID_INDEX
          BY <1>1, <4>1
        <5>. QED
          BY <3>1, <5>1, Basics
      <4>2. CASE m # 1
        <5>1. m - 1 \in 1 .. Len(w) /\ slot[i].prev = w[m - 1]
          BY <1>1, <4>2
        <5>. QED
          BY <1>3, <5>1
      <4>. QED
        BY <4>1, <4>2
    <3>. QED
      BY <1>1, <1>2, <3>1, <3>2
  <2>3. first2 = (IF m = 1 THEN slot[w[m]].next ELSE first) /\ m \in 1 .. Len(w)
    BY <1>1, <1>7
  <2>4. PICK sl, sl2 : sl = slot /\ sl2 = slot'
    OBVIOUS
  <2>5. Follows(sl, first, w) /\ first2 = IF m = 1 THEN sl[w[m]].next ELSE first
    BY <2>1, <2>3, <2>4
  <2>6. \A k \in 1 .. Len(w) : k # m =>
          sl2[w[k]].next = IF k = m - 1 THEN sl[w[m]].next ELSE sl[w[k]].next
    BY <2>2, <2>4
  <2>7. Follows(sl2, first2, Reference!RemoveAt(w, m))
    BY <2>3, <2>5, <2>6, FollowsRemove
  <2>. QED
    BY <1>9, <2>4, <2>7
<1>11. QueueSlots(side, tick)' = v
  <2>1. Follows(slot', QueueStart(side, tick)', QueueSlots(side, tick)')
    BY <1>1, Zenon DEF Viewed, QueueView
  <2>2. Follows(slot', first2, QueueSlots(side, tick)')
    BY <1>8, <2>1
  <2>. QED
    BY <1>10, <2>2, FollowsUnique
<1>12. Told(slot', v) = Reference!RemoveAt(Told(slot, w), m)
  <2>1. /\ v \in Seq(Slots) /\ Len(v) = Len(w) - 1
        /\ \A k \in 1 .. Len(w) - 1 : v[k] = IF k < m THEN w[k] ELSE w[k + 1]
    BY <1>1, <1>9, RemoveAtIs
  <2>2. ASSUME NEW k \in 1 .. Len(v)
        PROVE  slot'[v[k]].id = slot[v[k]].id /\ slot'[v[k]].quantity = slot[v[k]].quantity
    <3>1. PICK j : j = IF k < m THEN k ELSE k + 1
      OBVIOUS
    <3>2. j \in 1 .. Len(w) /\ j # m /\ v[k] = w[j]
      BY <1>1, <2>1, <2>2, <3>1
    <3>3. w[j] # i /\ w[j] \in Slots
      BY <1>1, <1>3, <1>4, <3>2
    <3>. QED
      BY <1>2, <3>2, <3>3
  <2>3. Told(slot', v) = Told(slot, v)
    <3>1. DOMAIN v = 1 .. Len(v)
      BY <2>1
    <3>. QED
      BY <2>2, <3>1 DEF Told
  <2>4. Told(slot, v) = Reference!RemoveAt(Told(slot, w), m)
    BY <1>1, <1>9, ToldRemove
  <2>. QED
    BY <2>3, <2>4
<1>13. AbstractQueue' = [AbstractQueue EXCEPT ![side][MinPrice + tick] = Told(slot', QueueSlots(side, tick)')]
  BY <1>1, <1>6, QueuesChange
<1>. QED
  BY <1>11, <1>12, <1>13

\* A cancelled order leaves its queue from wherever it stands.
LEMMA CancelIs ==
  ASSUME NEW pos, NEW acc, NEW rank, BookInv(pos, acc, rank), Viewed, Viewed', NEW id \in 1 .. MaxOrderId
  PROVE  CancelOrder(id) => Reference!CancelOrder(id) /\ AbstractPc = "idle"
<1>0. SUFFICES ASSUME CancelOrder(id) PROVE Reference!CancelOrder(id) /\ AbstractPc = "idle"
  OBVIOUS
<1>1. pc = "idle" /\ CancelVerdict(id) = "Accepted" /\ Return("Accepted", 0) /\ ~InChain
  BY <1>0, Zenon DEF CancelOrder, InChain
<1>2. pc' = "done" /\ ~InChain' /\ ~OnTrade /\ ~OnTrade' /\ UNCHANGED <<taker, remaining>>
      /\ ret' = "Accepted" /\ filled' = 0
  BY <1>1 DEF Return, InChain, OnTrade
<1>3. id \in 0 .. MaxOrderId /\ order_map[id] # INVALID_INDEX
  BY <1>1, BookAssumption DEF CancelVerdict
<1>4. PICK i, side, tick, rem :
        /\ i = order_map[id] /\ side = slot[i].side /\ tick = slot[i].price - MinPrice
        /\ rem = RemoveOrder(levels[side][tick], slot, i)
  OBVIOUS
<1>5. i \in allocated /\ slot[i].id = id
  BY <1>1, <1>3, <1>4, MapWhole DEF MapOf
<1>6. PICK w, m : Stands(w, side, tick, i, m)
  BY <1>1, <1>4, <1>5, OrderStands
<1>7. /\ slot' = Released(rem, i, free_head) /\ levels' = PutLevel(levels, side, tick, rem.level)
      /\ order_map' = [order_map EXCEPT ![id] = INVALID_INDEX]
  BY <1>0, <1>4, Zenon DEF CancelOrder, Released, PutLevel
<1>8. AbstractQueue' = [AbstractQueue EXCEPT ![side][MinPrice + tick] = Reference!RemoveAt(Told(slot, w), m)]
  <2>1. /\ slot \in [Slots -> Orders] /\ levels \in [Sides -> [Ticks -> Levels]]
        /\ \A s \in Sides, t \in Ticks : Waits(s, t) \in SUBSET Slots
    BY BookTypes
  <2>2. PICK fh : fh = free_head
    OBVIOUS
  <2>3. /\ rem = RemoveOrder(levels[side][tick], slot, i) /\ slot' = Released(rem, i, fh)
        /\ levels' = PutLevel(levels, side, tick, rem.level) /\ ~InChain /\ ~InChain'
    BY <1>1, <1>2, <1>4, <1>7, <2>2, Zenon
  <2>4. Unlinks(w, side, tick, i, m, rem, fh)
    BY <1>6, <2>1, <2>3 DEF Unlinks
  <2>. QED
    BY <2>4, QueueWithout
<1>9. PICK p, q : p = MinPrice + tick /\ q = AbstractQueue[side][p]
  OBVIOUS
<1>10. q = Told(slot, w) /\ side \in Sides /\ p \in MinPrice .. MaxPrice
       /\ m \in 1 .. Len(q) /\ q[m].id = id
  <2>1. side \in Sides /\ tick \in Ticks /\ w = QueueSlots(side, tick) /\ w \in Seq(Slots)
        /\ m \in 1 .. Len(w) /\ w[m] = i
    BY <1>6 DEF Stands
  <2>2. AbstractQueue[side][MinPrice + tick] = Told(slot, QueueSlots(side, tick))
    BY <2>1, QueueAt
  <2>3. q = Told(slot, w)
    BY <1>9, <2>1, <2>2
  <2>4. Len(Told(slot, w)) = Len(w) /\ Told(slot, w)[m] = Shown(slot, w[m])
    BY <2>1, ToldIs
  <2>5. q[m].id = id /\ m \in 1 .. Len(q)
    BY <1>5, <2>1, <2>3, <2>4 DEF Shown
  <2>. QED
    BY <1>9, <2>1, <2>3, <2>5, TickOfPrice
<1>11. AbstractQueue' = [AbstractQueue EXCEPT ![side][p] = Reference!RemoveAt(q, m)]
  BY <1>8, <1>9, <1>10
<1>12. /\ AbstractOrderMap' = AbstractOrderMap \ {id} /\ id \in AbstractOrderMap
       /\ Cardinality(AbstractOrderMap') = Cardinality(AbstractOrderMap) - 1
  <2>1. order_map \in [0 .. MaxOrderId -> Words]
    BY DEF BookInv, CallType
  <2>. QED
    BY <1>3, <1>7, <2>1, MapLoses
<1>13. Reference!CancelVerdict(id) = "Accepted"
  BY <1>12 DEF Reference!CancelVerdict
<1>14. AbstractPc = "idle" /\ AbstractPc' = "done" /\ AbstractRemaining' = AbstractRemaining
  BY <1>1, <1>2 DEF AbstractPc, AbstractRemaining
<1>15. Reference!Return("Accepted", 0)
  BY <1>2, <1>14 DEF Reference!Return
<1>16. \E s \in Reference!Sides, price \in Reference!Prices :
         LET qq == AbstractQueue[s][price]
         IN  \E k \in 1 .. Len(qq) :
               /\ qq[k].id = id
               /\ AbstractQueue' = [AbstractQueue EXCEPT ![s][price] = Reference!RemoveAt(qq, k)]
  <2>1. side \in Reference!Sides /\ p \in Reference!Prices
    BY <1>10, ReferenceSides
  <2>. QED
    BY <1>9, <1>10, <1>11, <2>1, Zenon
<1>. QED
  BY <1>2, <1>12, <1>13, <1>14, <1>15, <1>16, Zenon DEF Reference!CancelOrder

-----------------------------------------------------------------------------
(***************************************************************************)
(* The remainder of a limit order goes to the end of its queue.            *)
(***************************************************************************)
\* One more entry.
LEMMA ToldAppend ==
  ASSUME NEW sl, NEW sl2, NEW w \in Seq(Slots), NEW i \in Slots, NEW e, e = Shown(sl2, i),
         \A k \in 1 .. Len(w) : sl2[w[k]].id = sl[w[k]].id /\ sl2[w[k]].quantity = sl[w[k]].quantity
  PROVE  Told(sl2, Append(w, i)) = Append(Told(sl, w), e)
<1>1. PICK v, s, t, u, n : v = Append(w, i) /\ s = Told(sl, w) /\ t = Told(sl2, v) /\ u = Append(s, e) /\ n = Len(w)
  OBVIOUS
<1>2. n \in Nat /\ v \in Seq(Slots) /\ Len(v) = n + 1 /\ v[n + 1] = i /\ \A k \in 1 .. n : v[k] = w[k]
  BY <1>1
<1>3. Len(s) = n /\ s \in Seq(AllShown(sl)) /\ \A k \in 1 .. n : s[k] = Shown(sl, w[k])
  BY <1>1, ToldIs
<1>4. Len(t) = n + 1 /\ t \in Seq(AllShown(sl2)) /\ \A k \in 1 .. n + 1 : t[k] = Shown(sl2, v[k])
  <2>1. Len(t) = Len(v) /\ t \in Seq(AllShown(sl2)) /\ \A k \in 1 .. Len(v) : t[k] = Shown(sl2, v[k])
    BY <1>1, <1>2, ToldIs, Zenon
  <2>. QED
    BY <1>2, <2>1
<1>5. PICK T : s \in Seq(T) /\ e \in T
  <2>1. PICK T : T = AllShown(sl) \cup {e}
    OBVIOUS
  <2>2. DOMAIN s = 1 .. n /\ s = [k \in 1 .. n |-> s[k]] /\ \A k \in 1 .. n : s[k] \in T
    BY <1>3, <2>1
  <2>3. s \in Seq(T)
    BY <1>2, <2>2
  <2>. QED
    BY <2>1, <2>3
<1>6. u \in Seq(T) /\ Len(u) = n + 1 /\ u[n + 1] = e /\ \A k \in 1 .. n : u[k] = s[k]
  BY <1>1, <1>2, <1>3, <1>5
<1>7. \A k \in 1 .. n + 1 : t[k] = u[k]
  <2> TAKE k \in 1 .. n + 1
  <2>1. CASE k = n + 1
    BY <1>2, <1>4, <1>6, <2>1
  <2>2. CASE k # n + 1
    <3>1. k \in 1 .. n
      BY <1>2, <2>2
    <3>2. Shown(sl2, w[k]) = Shown(sl, w[k])
      BY <1>1, <3>1 DEF Shown
    <3>. QED
      BY <1>2, <1>3, <1>4, <1>6, <3>1, <3>2
  <2>. QED
    BY <2>1, <2>2
<1>8. t = u
  <2>1. t = [k \in 1 .. n + 1 |-> t[k]] /\ u = [k \in 1 .. n + 1 |-> u[k]]
    BY <1>2, <1>4, <1>6
  <2>. QED
    BY <1>7, <2>1
<1>. QED
  BY <1>1, <1>8

PutOrder(sl, i, order) == [sl EXCEPT ![i] = order]

Linked(sl, sl2, i, level) ==
  \A k \in Slots : k # i =>
    /\ sl2[k].next = IF ~IsEmpty(level) /\ k = level.tail THEN i ELSE sl[k].next
    /\ sl2[k].id = sl[k].id /\ sl2[k].quantity = sl[k].quantity

\* What allocate and append_order write: the new order, and the link of the old tail.
LEMMA AppendedLinks ==
  ASSUME NEW sl \in [Slots -> Orders], NEW i \in Slots, NEW level, NEW order \in Orders,
         NEW app, app = AppendOrder(level, PutOrder(sl, i, order), i)
  PROVE  /\ app.slot[i].next = INVALID_INDEX /\ Shown(app.slot, i) = [id |-> order.id, quantity |-> order.quantity]
         /\ Linked(sl, app.slot, i, level)
         /\ app.level.head = IF IsEmpty(level) THEN i ELSE level.head
<1>1. PICK sl1 : sl1 = PutOrder(sl, i, order)
  OBVIOUS
<1>2. DOMAIN sl1 = Slots /\ sl1[i] = order /\ \A k \in Slots : k # i => sl1[k] = sl[k]
  BY <1>1 DEF PutOrder
<1>3. app.slot = [k \in Slots |->
        IF k = i THEN [order EXCEPT !.prev = IF IsEmpty(level) THEN INVALID_INDEX ELSE level.tail,
                                    !.next = INVALID_INDEX]
        ELSE IF ~IsEmpty(level) /\ k = level.tail THEN [sl1[k] EXCEPT !.next = i]
        ELSE sl1[k]]
  BY <1>1, <1>2 DEF AppendOrder
<1>4. app.slot[i] = [order EXCEPT !.prev = IF IsEmpty(level) THEN INVALID_INDEX ELSE level.tail,
                                  !.next = INVALID_INDEX]
  BY <1>3
<1>5. app.slot[i].next = INVALID_INDEX /\ Shown(app.slot, i) = [id |-> order.id, quantity |-> order.quantity]
  BY <1>4 DEF Shown, Orders
<1>6. ASSUME NEW k \in Slots, k # i
      PROVE  /\ app.slot[k].next = IF ~IsEmpty(level) /\ k = level.tail THEN i ELSE sl[k].next
             /\ app.slot[k].id = sl[k].id /\ app.slot[k].quantity = sl[k].quantity
  <2>1. PICK o : o = sl[k]
    OBVIOUS
  <2>2. o \in Orders /\ app.slot[k] = IF ~IsEmpty(level) /\ k = level.tail THEN [o EXCEPT !.next = i] ELSE o
    BY <1>2, <1>3, <1>6, <2>1
  <2>. QED
    BY <2>1, <2>2 DEF Orders
<1>7. app.level.head = IF IsEmpty(level) THEN i ELSE level.head
  BY DEF AppendOrder
<1>. QED
  BY <1>5, <1>6, <1>7 DEF Linked

\* The end of a queue is the tail of its level.
LEMMA TailLast ==
  ASSUME NEW pos, NEW acc, NEW rank, BookInv(pos, acc, rank), ~InChain,
         NEW side \in Sides, NEW tick \in Ticks, NEW w, w = QueueSlots(side, tick), NEW level, level = levels[side][tick]
  PROVE  IF w = <<>> THEN IsEmpty(level) ELSE ~IsEmpty(level) /\ level.tail = w[Len(w)]
<1>1. PICK S : S = Members(slot, allocated, side, tick)
  OBVIOUS
<1>2. Store(slot, allocated, free_head, levels, pos, acc, rank)
  BY DEF BookInv, Consistent
<1>3. pos \in [Slots -> Nat] /\ acc \in [Slots -> Nat]
  BY <1>2 DEF Store
<1>4. /\ Queue(slot, S, level, pos, acc)
      /\ S \in SUBSET Slots /\ level \in Levels /\ level.order_count \in Nat
      /\ \A j \in S : slot[j].quantity \in Nat
      /\ IsEmpty(level) <=> level.order_count = 0
  BY <1>1, <1>2, LevelFacts
<1>5. w = Walk(level.head)
  BY QueueStartAt DEF QueueSlots
<1>6. WalksLevel(w, S, level, pos)
  BY <1>3, <1>4, <1>5, WalkQueue
<1>7. w \in Seq(Slots)
  <2>1. Viewed
    BY InvViewed DEF Inv
  <2>. QED
    BY <2>1, Zenon DEF Viewed, QueueView, Follows
<1>8. Len(w) = level.order_count /\ (level.order_count > 0 => level.tail = w[level.order_count])
  BY <1>6 DEF WalksLevel
<1>. QED
  BY <1>4, <1>7, <1>8

\* The remainder of a limit order rests at the end of its queue.
LEMMA AddRestedIs ==
  ASSUME NEW pos, NEW acc, NEW rank, BookInv(pos, acc, rank), Viewed, Viewed', AddRested
  PROVE  Reference!AddRested
<1>1. /\ pc = "match" /\ ~Crosses /\ remaining > 0 /\ taker.type = "Limit" /\ free_head # INVALID_INDEX
      /\ Return("Accepted", Filled)
  BY DEF AddRested, MatchOver
<1>2. ~InChain /\ ~InChain' /\ ~OnTrade /\ ~OnTrade' /\ pc' = "done" /\ ret' = "Accepted" /\ filled' = Filled
      /\ UNCHANGED <<taker, remaining>>
  BY <1>1 DEF InChain, OnTrade, Return
<1>3. /\ taker.side \in Sides /\ taker.id \in 1 .. MaxOrderId /\ order_map[taker.id] = INVALID_INDEX
      /\ taker.price \in MinPrice .. MaxPrice /\ remaining \in 0 .. QuantityModulus - 1
  BY <1>1, Matching DEF TakerInv
<1>4. PICK side, tick, i : side = taker.side /\ tick = taker.price - MinPrice /\ i = free_head
  OBVIOUS
<1>5. side \in Sides /\ tick \in Ticks /\ taker.price = MinPrice + tick
  BY <1>3, <1>4, TickOfPrice
<1>6. PICK order, level, app : /\ order = [next |-> INVALID_INDEX, prev |-> INVALID_INDEX, id |-> taker.id,
                                 price |-> taker.price, quantity |-> remaining, side |-> side]
                               /\ level = levels[side][tick]
                               /\ app = AppendOrder(level, [slot EXCEPT ![i] = order], i)
  OBVIOUS
<1>7. /\ slot' = app.slot /\ levels' = PutLevel(levels, side, tick, app.level)
      /\ order_map' = [order_map EXCEPT ![taker.id] = i]
  BY <1>4, <1>6 DEF AddRested, PutLevel
<1>8. i \in Slots /\ i \notin allocated /\ i # INVALID_INDEX
  <2>1. Store(slot, allocated, free_head, levels, pos, acc, rank)
    BY DEF BookInv, Consistent
  <2>. QED
    BY <1>1, <1>4, <2>1, FreeHead
<1>9. order \in Orders
  <2>1. taker.price \in 0 .. MaxPrice /\ taker.id \in 0 .. MaxOrderId
    BY <1>3, PriceAssumption, BookAssumption
  <2>. QED
    BY <1>3, <1>5, <1>6, <2>1, Basics DEF Orders
<1>10. PICK e, sl2 : e = [id |-> taker.id, quantity |-> remaining] /\ sl2 = slot'
  OBVIOUS
<1>11. /\ sl2[i].next = INVALID_INDEX /\ e = Shown(sl2, i)
       /\ \A k \in Slots : k # i =>
            /\ sl2[k].next = IF ~IsEmpty(level) /\ k = level.tail THEN i ELSE slot[k].next
            /\ sl2[k].id = slot[k].id /\ sl2[k].quantity = slot[k].quantity
       /\ app.level.head = IF IsEmpty(level) THEN i ELSE level.head
  <2>1. PICK sl : sl = slot
    OBVIOUS
  <2>2. sl \in [Slots -> Orders] /\ app = AppendOrder(level, PutOrder(sl, i, order), i)
    BY <1>6, <2>1, BookTypes DEF PutOrder
  <2>3. /\ app.slot[i].next = INVALID_INDEX /\ Shown(app.slot, i) = [id |-> order.id, quantity |-> order.quantity]
        /\ Linked(sl, app.slot, i, level)
        /\ app.level.head = IF IsEmpty(level) THEN i ELSE level.head
    BY <1>8, <1>9, <2>2, AppendedLinks
  <2>4. order.id = taker.id /\ order.quantity = remaining
    BY <1>6
  <2>5. sl2 = app.slot
    BY <1>7, <1>10
  <2>. QED
    BY <1>10, <2>1, <2>3, <2>4, <2>5 DEF Linked
<1>12. PICK w, first : w = QueueSlots(side, tick) /\ first = QueueStart(side, tick)
  OBVIOUS
<1>13. /\ Follows(slot, first, w) /\ w \in Seq(Slots) /\ first = level.head
       /\ Enumerates(w, Waits(side, tick))
  <2>1. first = level.head
    BY <1>2, <1>6, <1>12, QueueStartAt
  <2>. QED
    BY <1>5, <1>12, <2>1, Zenon DEF Viewed, QueueView, Follows
<1>14. IF w = <<>> THEN IsEmpty(level) ELSE ~IsEmpty(level) /\ level.tail = w[Len(w)]
  BY <1>2, <1>5, <1>6, <1>12, TailLast
<1>15. \A k \in 1 .. Len(w) : w[k] \in Slots /\ w[k] # i /\ w[k] \in Members(slot, allocated, side, tick)
  BY <1>8, <1>13 DEF Enumerates, Waits, Members
<1>16. ASSUME NEW s \in Sides, NEW t \in Ticks, s # side \/ t # tick, NEW k \in Waits(s, t)
       PROVE  SameOrder(slot, slot', k)
  <2>1. k \in Slots /\ slot[k].side = s /\ slot[k].price = MinPrice + t /\ k # i
    BY <1>8, <1>16, BookTypes DEF Waits, Members
  <2>2. ~(~IsEmpty(level) /\ k = level.tail)
    <3>1. SUFFICES ASSUME ~IsEmpty(level), k = level.tail PROVE FALSE
      OBVIOUS
    <3>2. w # <<>> /\ k = w[Len(w)] /\ Len(w) \in 1 .. Len(w)
      BY <1>13, <1>14, <3>1
    <3>3. slot[k].side = side /\ slot[k].price = MinPrice + tick
      BY <1>15, <3>2 DEF Members
    <3>. QED
      BY <1>5, <1>16, <2>1, <3>3, TickOfPrice
  <2>. QED
    BY <1>10, <1>11, <2>1, <2>2 DEF SameOrder
<1>17. \A s \in Sides, t \in Ticks : s # side \/ t # tick => Untouched(s, t)
  BY <1>2, <1>5, <1>7, <1>16, BookTypes, OthersStay
<1>18. PICK first2 : first2 = IF w = <<>> THEN i ELSE first
  OBVIOUS
<1>19. QueueStart(side, tick)' = first2
  <2>1. levels'[side][tick] = app.level
    BY <1>5, <1>7, BookTypes DEF PutLevel
  <2>. QED
    BY <1>2, <1>11, <1>13, <1>14, <1>18, <2>1, QueueStartAt
<1>20. Follows(sl2, first2, Append(w, i))
  <2>1. ASSUME NEW k \in 1 .. Len(w)
        PROVE  sl2[w[k]].next = IF k = Len(w) THEN i ELSE slot[w[k]].next
    <3>1. w # <<>> /\ Len(w) \in 1 .. Len(w)
      BY <1>13, <2>1
    <3>2. \A j \in 1 .. Len(w) : w[k] = w[j] => k = j
      BY <1>13, <2>1 DEF Enumerates
    <3>3. w[k] = level.tail <=> k = Len(w)
      BY <1>14, <2>1, <3>1, <3>2
    <3>. QED
      BY <1>11, <1>14, <1>15, <3>1, <3>3
  <2>2. PICK sl : sl = slot
    OBVIOUS
  <2>3. Follows(sl, first, w)
        /\ \A k \in 1 .. Len(w) : sl2[w[k]].next = IF k = Len(w) THEN i ELSE sl[w[k]].next
    BY <1>13, <2>1, <2>2
  <2>. QED
    BY <1>8, <1>11, <1>18, <2>3, FollowsAppend
<1>21. QueueSlots(side, tick)' = Append(w, i)
  <2>1. Follows(slot', QueueStart(side, tick)', QueueSlots(side, tick)')
    BY <1>5, Zenon DEF Viewed, QueueView
  <2>2. Follows(sl2, first2, QueueSlots(side, tick)')
    BY <1>10, <1>19, <2>1
  <2>. QED
    BY <1>20, <2>2, FollowsUnique
<1>22. PICK q : q = Told(slot, w)
  OBVIOUS
<1>23. Told(sl2, Append(w, i)) = Append(q, e)
  <2>1. PICK sl : sl = slot
    OBVIOUS
  <2>2. \A k \in 1 .. Len(w) : sl2[w[k]].id = sl[w[k]].id /\ sl2[w[k]].quantity = sl[w[k]].quantity
    BY <1>11, <1>15, <2>1
  <2>3. Told(sl2, Append(w, i)) = Append(Told(sl, w), e)
    BY <1>8, <1>11, <1>13, <2>2, ToldAppend
  <2>. QED
    BY <1>22, <2>1, <2>3
<1>24. AbstractQueue[side][taker.price] = q
  BY <1>5, <1>12, <1>22, QueueAt
<1>25. AbstractQueue' = [AbstractQueue EXCEPT ![side][taker.price] = Append(q, e)]
  <2>1. AbstractQueue' = [AbstractQueue EXCEPT ![side][MinPrice + tick] = Told(slot', QueueSlots(side, tick)')]
    BY <1>5, <1>17, QueuesChange
  <2>. QED
    BY <1>5, <1>10, <1>21, <1>23, <2>1, Zenon
<1>26. AbstractPc = "match" /\ AbstractPc' = "done" /\ AbstractRemaining = remaining /\ AbstractRemaining' = AbstractRemaining
  BY <1>1, <1>2 DEF AbstractPc, AbstractRemaining
<1>27. ~Reference!Crosses
  BY <1>1, CrossesAgrees
<1>28. PICK A, B : A = AbstractOrderMap /\ B = AbstractOrderMap'
  OBVIOUS
<1>29. B = A \cup {taker.id} /\ Cardinality(B) = Cardinality(A) + 1 /\ Cardinality(A) + 1 <= Capacity
  <2>1. order_map \in [0 .. MaxOrderId -> Words] /\ \A x \in 1 .. MaxOrderId : x \in 0 .. MaxOrderId
    BY BookAssumption DEF BookInv, CallType
  <2>2. taker.id \notin A /\ B = A \cup {taker.id}
    BY <1>3, <1>7, <1>8, <1>28, <2>1 DEF AbstractOrderMap
  <2>3. IsFiniteSet(A)
    <3>1. A \in SUBSET (1 .. MaxOrderId)
      BY <1>28 DEF AbstractOrderMap
    <3>2. IsFiniteSet(1 .. MaxOrderId)
      BY FS_Interval, BookAssumption
    <3>. QED
      BY <3>1, <3>2, FS_Subset
  <2>4. Cardinality(B) = Cardinality(A) + 1
    BY <2>2, <2>3, FS_AddElement
  <2>5. Cardinality(A) \in Nat /\ ~(Cardinality(A) + 1 > Capacity)
    BY <1>1, <1>2, <1>28, FullAgrees
  <2>. QED
    BY <2>2, <2>4, <2>5, BookAssumption
<1>30. Reference!Return("Accepted", taker.quantity - AbstractRemaining)
  BY <1>2, <1>26 DEF Reference!Return, Filled
<1>31. AbstractQueue' = [AbstractQueue EXCEPT ![taker.side][taker.price] =
                           Append(@, [id |-> taker.id, quantity |-> AbstractRemaining])]
  <2>1. PICK a, p, s : a = AbstractQueue /\ p = taker.price /\ s = side
    OBVIOUS
  <2>2. AbstractQueue' = [a EXCEPT ![s][p] = Append(a[s][p], e)]
    BY <1>24, <1>25, <2>1, Zenon
  <2>3. AbstractQueue' = [a EXCEPT ![s][p] = Append(@, e)]
    BY <2>2
  <2>4. e = [id |-> taker.id, quantity |-> AbstractRemaining]
    BY <1>10, <1>26
  <2>. QED
    BY <1>4, <2>1, <2>3, <2>4, Zenon
<1>. QED
  BY <1>1, <1>2, <1>26, <1>27, <1>28, <1>29, <1>30, <1>31, Zenon DEF Reference!AddRested

-----------------------------------------------------------------------------
(***************************************************************************)
(* The refinement.                                                         *)
(***************************************************************************)
\* A new engine shows an empty book between calls.
LEMMA InitIs == Init => Reference!Init
<1> SUFFICES ASSUME Init PROVE Reference!Init
  OBVIOUS
<1>1. Viewed
  BY InitInv, InvViewed
<1>2. /\ levels = [side \in Sides |-> [i \in Ticks |-> EmptyLevel]] /\ pc = "idle"
      /\ order_map = [id \in 0 .. MaxOrderId |-> INVALID_INDEX]
      /\ taker = NoTaker /\ remaining = 0 /\ ret = "Accepted" /\ filled = 0
  BY DEF Init
<1>3. ~InChain /\ ~OnTrade
  BY <1>2 DEF InChain, OnTrade
<1>4. AbstractQueue = [side \in Sides |-> [price \in MinPrice .. MaxPrice |-> <<>>]]
  <2>1. ASSUME NEW side \in Sides, NEW price \in MinPrice .. MaxPrice
        PROVE  AbstractQueue[side][price] = <<>>
    <3>1. PICK tick : tick = price - MinPrice
      OBVIOUS
    <3>2. tick \in Ticks /\ MinPrice + tick = price
      BY <3>1, TickOfPrice
    <3>3. QueueStart(side, tick) = INVALID_INDEX
      BY <1>2, <1>3, <3>2, QueueStartAt DEF EmptyLevel
    <3>. QED
      BY <1>1, <3>2, <3>3, QueueEmpty
  <2>2. AbstractQueue = [side \in Sides |-> [price \in MinPrice .. MaxPrice |-> AbstractQueue[side][price]]]
    BY DEF AbstractQueue
  <2>. QED
    BY <2>1, <2>2
<1>5. AbstractOrderMap = {}
  <2>1. \A id \in 1 .. MaxOrderId : order_map[id] = INVALID_INDEX
    BY <1>2, BookAssumption
  <2>. QED
    BY <2>1 DEF AbstractOrderMap
<1>6. Cardinality(AbstractOrderMap) = 0
  BY <1>5, FS_EmptySet
<1>7. AbstractPc = "idle" /\ AbstractRemaining = 0
  BY <1>2, <1>3 DEF AbstractPc, AbstractRemaining
<1>. QED
  BY <1>2, <1>4, <1>5, <1>6, <1>7
  DEF Reference!Init, Reference!Sides, Sides, Reference!Prices, Reference!NoTaker, NoTaker

\* A step of the matching loop is a trade of the reference book, its entry into a
\* level, or work it does not see.
LEMMA MatchStepIs ==
  ASSUME NEW pos, NEW acc, NEW rank, BookInv(pos, acc, rank), Viewed, Viewed', Inv', MatchStep
  PROVE  Reference!EnterLevel \/ Reference!AfterTrade \/ UNCHANGED Reference!vars
<1>1. CASE EnterLevel
  BY <1>1, EnterLevelIs
<1>2. CASE FillSingle
  BY <1>2, SingleIsTrade
<1>3. CASE FillChain
  BY <1>3, ChainIsTrade
<1>4. CASE ChainDone
  BY <1>4, SpliceUnseen
<1>5. CASE FillSlowDrain
  BY <1>5, SlowDrainIsTrade
<1>6. CASE FillSlowPartial
  BY <1>6, PartialIsTrade
<1>7. CASE SlowDone \/ LevelDone
  BY <1>7, LeavesLevel
<1>. QED
  BY <1>1, <1>2, <1>3, <1>4, <1>5, <1>6, <1>7 DEF MatchStep

\* A step in which the engine does nothing.
LEMMA StutterIs ==
  ASSUME Viewed, Viewed', UNCHANGED vars
  PROVE  UNCHANGED Reference!vars
<1>1. UNCHANGED <<levels, slot, order_map, best, cursor, path, pc, taker, remaining, ret, filled, reported>>
  BY DEF vars
<1>2. MakerSide' = MakerSide /\ InChain' = InChain /\ OnTrade' = OnTrade
  BY <1>1 DEF MakerSide, InChain, OnTrade
<1>3. ASSUME NEW side \in Sides, NEW tick \in Ticks
      PROVE  Untouched(side, tick)
  BY <1>1, <1>2 DEF Untouched, QueueStart
<1>4. AbstractQueue' = AbstractQueue
  BY <1>3, QueuesStay
<1>5. AbstractOrderMap' = AbstractOrderMap /\ Cardinality(AbstractOrderMap)' = Cardinality(AbstractOrderMap)
  BY <1>1 DEF AbstractOrderMap
<1>6. AbstractPc' = AbstractPc
  BY <1>1, <1>2 DEF AbstractPc
<1>7. AbstractRemaining' = AbstractRemaining
  BY <1>1 DEF Viewed
<1>. QED
  BY <1>1, <1>4, <1>5, <1>6, <1>7 DEF Reference!vars

\* The same of the next state.
LEMMA ViewAlways == Inv => Viewed
BY InvViewed

\* Every step of the engine is one of the reference book, or one it does not see.
LEMMA StepIs ==
  ASSUME CancelIds \subseteq 1 .. MaxOrderId, Inv, Inv', [Next]_vars
  PROVE  [Reference!Next]_(Reference!vars)
<1>1. PICK pos, acc, rank : BookInv(pos, acc, rank)
  BY DEF Inv
<1>2. Viewed
  BY InvViewed
<1>3. Viewed'
  BY ViewAlways, PTL
<1>4. AddIds \subseteq Nat
  BY BookAssumption
<1>5. ASSUME NEW id \in CancelIds, CancelOrder(id)
      PROVE  Reference!ClientCalls
  <2>1. Reference!CancelOrder(id) /\ AbstractPc = "idle"
    BY <1>1, <1>2, <1>3, <1>5, CancelIs
  <2>. QED
    BY <2>1 DEF Reference!ClientCalls
<1>6. ASSUME NEW id \in CancelIds, RejectCancel(id)
      PROVE  Reference!ClientCalls
  <2>1. Reference!RejectCancel(id) /\ AbstractPc = "idle"
    BY <1>2, <1>3, <1>6, RejectCancelIs
  <2>. QED
    BY <2>1 DEF Reference!ClientCalls
<1>7. ASSUME NEW id \in AddIds, NEW type \in {"Limit", "Market"}, NEW price \in OrderPrices,
             NEW quantity \in Quantities, NEW side \in Sides,
             AcceptAdd(id, type, price, quantity, side)
      PROVE  Reference!ClientCalls
  <2>1. Reference!AcceptAdd(id, type, price, quantity, side) /\ AbstractPc = "idle"
    BY <1>1, <1>2, <1>3, <1>4, <1>7, AcceptAddIs
  <2>2. side \in Reference!Sides
    BY DEF Reference!Sides, Sides
  <2>. QED
    BY <2>1, <2>2 DEF Reference!ClientCalls
<1>8. ASSUME NEW id \in AddIds, NEW type \in {"Limit", "Market"}, NEW price \in OrderPrices,
             NEW quantity \in Quantities, NEW side \in Sides,
             RejectAdd(id, type, price, quantity, side)
      PROVE  Reference!ClientCalls
  <2>1. Reference!RejectAdd(id, type, price, quantity, side) /\ AbstractPc = "idle"
    BY <1>1, <1>2, <1>3, <1>4, <1>8, RejectAddIs
  <2>2. side \in Reference!Sides
    BY DEF Reference!Sides, Sides
  <2>. QED
    BY <2>1, <2>2 DEF Reference!ClientCalls
<1>9. CASE MatchBuy \/ MatchSell
  <2>1. MatchStep
    BY <1>9 DEF MatchBuy, MatchSell
  <2>. QED
    BY <1>1, <1>2, <1>3, <2>1, MatchStepIs DEF Reference!Next
<1>10. CASE AddFilled
  BY <1>1, <1>2, <1>3, <1>10, AddFilledIs DEF Reference!Next
<1>11. CASE AddExhausted
  BY <1>1, <1>2, <1>3, <1>11, AddExhaustedIs DEF Reference!Next
<1>12. CASE AddRested
  BY <1>1, <1>2, <1>3, <1>12, AddRestedIs DEF Reference!Next
<1>13. CASE ClientResumes
  BY <1>2, <1>3, <1>13, ResumesIs DEF Reference!Next
<1>14. CASE UNCHANGED vars
  BY <1>2, <1>3, <1>14, StutterIs
<1>15. Reference!ClientCalls => Reference!Next
  BY DEF Reference!Next
<1>16. ClientCalls => Reference!ClientCalls
  BY <1>5, <1>6, <1>7, <1>8, Zenon DEF ClientCalls
<1>. QED
  BY <1>9, <1>10, <1>11, <1>12, <1>13, <1>14, <1>15, <1>16 DEF Next, EngineStep

(***************************************************************************)
(* The engine implements the reference book of the differential tests, for *)
(* every price range, capacity, word width and set of arguments: the same  *)
(* verdicts, the same fills of the same makers in price-time order and the *)
(* same resting orders.  The ids cancelled are inside the id map: for the  *)
(* others cancel_order and the reference answer different reasons, which   *)
(* SameCancelVerdict is about.                                             *)
(***************************************************************************)
THEOREM EngineImplementsReference ==
  ASSUME CancelIds \subseteq 1 .. MaxOrderId
  PROVE  Spec => ImplementsReference
<1>1. Init => Reference!Init
  BY InitIs
<1>2. Inv /\ Inv' /\ [Next]_vars => [Reference!Next]_(Reference!vars)
  BY StepIs
<1>. QED
  BY <1>1, <1>2, InvHolds, PTL DEF Spec, ImplementsReference, Reference!Spec

(***************************************************************************)
(* Each trade match_order_direct reports to on_trade, on any of its three  *)
(* paths, is the one the reference book reports at that moment: its maker, *)
(* its price and its quantity.                                             *)
(***************************************************************************)
THEOREM TradesAreTheReferences == Spec => []TradesAgree
BY InvHolds, InvTradesAgree, PTL

-----------------------------------------------------------------------------
(***************************************************************************)
(* The contract of the pool.                                               *)
(***************************************************************************)
\* The links of the slots no client owns.
FreeLinksStay(except) == \A k \in Slots \ allocated : k \notin except => slot'[k].next = slot[k].next

\* They are what the pool asks its client to leave alone.
LEMMA FreeLinksAre ==
  ASSUME NEW except, FreeLinksStay(except), slot' \in [Slots -> Orders]
  PROVE  Pool!FreeLinksKept(except)
<1>1. PICK L, M : L = [i \in Slots |-> slot[i].next] /\ M = [i \in Slots |-> slot'[i].next]
  OBVIOUS
<1>2. M \in [Slots -> Words]
  <2>1. \A i \in Slots : slot'[i].next \in Words
    BY DEF Orders
  <2>. QED
    BY <1>1, <2>1
<1>3. \A i \in (Slots \ allocated) \ except : M[i] = L[i]
  BY <1>1 DEF FreeLinksStay
<1>. QED
  BY <1>1, <1>2, <1>3
  DEF Pool!FreeLinksKept, Pool!FreeSlots, Pool!Slots, Pool!Words, Slots, Words

\* A live slot goes to the front of the free list.
LEMMA SlotFreed ==
  ASSUME NEW i \in allocated, allocated \in SUBSET Slots, slot' \in [Slots -> Orders],
         free_head' = i, allocated' = allocated \ {i}, slot'[i].next = free_head, FreeLinksStay({})
  PROVE  Pool!TrustedNext
<1>1. Pool!FreeLinksKept({})
  BY FreeLinksAre
<1>2. Cardinality(allocated') = Cardinality(allocated) - 1
  <2>1. IsFiniteSet(allocated)
    BY SlotsFinite
  <2>2. Cardinality(allocated \ {i}) = Cardinality(allocated) - 1
    BY <2>1, FS_RemoveElement
  <2>. QED
    BY <2>2
<1>3. i \in Pool!Slots /\ [k \in Slots |-> slot'[k].next][i] = free_head
  BY DEF Pool!Slots, Slots
<1>4. Pool!Deallocate(i)
  BY <1>1, <1>2, <1>3 DEF Pool!Deallocate
<1>. QED
  BY <1>3, <1>4 DEF Pool!TrustedNext, Pool!TrustedStep

\* Nothing the pool sees changes.
LEMMA PoolStays ==
  ASSUME UNCHANGED <<free_head, allocated>>, \A i \in Slots : slot'[i].next = slot[i].next
  PROVE  UNCHANGED Pool!vars
BY DEF Pool!vars

\* A cancelled order's neighbours are live.
LEMMA CancelFrees ==
  ASSUME NEW pos, NEW acc, NEW rank, BookInv(pos, acc, rank), Viewed, slot' \in [Slots -> Orders],
         NEW id \in CancelIds
  PROVE  CancelOrder(id) => Pool!TrustedNext
<1>0. SUFFICES ASSUME CancelOrder(id) PROVE Pool!TrustedNext
  OBVIOUS
<1>1. PICK i, side, tick, level, rem, fh :
        /\ i = order_map[id] /\ side = slot[i].side /\ tick = slot[i].price - MinPrice
        /\ level = levels[side][tick] /\ rem = RemoveOrder(level, slot, i) /\ fh = free_head
  OBVIOUS
<1>2. /\ pc = "idle" /\ id \in 1 .. MaxOrderId /\ order_map[id] # INVALID_INDEX
      /\ slot' = Released(rem, i, fh) /\ free_head' = i /\ allocated' = allocated \ {i}
  <2>1. id \in Nat /\ MaxOrderId \in Nat /\ CancelVerdict(id) = "Accepted"
    BY <1>0, BookAssumption, Zenon DEF CancelOrder
  <2>2. id \in 1 .. MaxOrderId /\ order_map[id] # INVALID_INDEX
    BY <2>1 DEF CancelVerdict
  <2>. QED
    BY <1>0, <1>1, <2>2, Zenon DEF CancelOrder, Released
<1>3. slot \in [Slots -> Orders] /\ allocated \in SUBSET Slots
  BY BookTypes
<1>4. i \in allocated /\ i \in Slots
  <2>1. MapOf(order_map, allocated, slot)
    BY <1>2, MapWhole
  <2>2. \A x \in 0 .. MaxOrderId : order_map[x] # INVALID_INDEX => order_map[x] \in allocated
    BY <2>1 DEF MapOf
  <2>3. id \in 0 .. MaxOrderId
    BY <1>2, BookAssumption
  <2>. QED
    BY <1>1, <1>2, <1>3, <2>2, <2>3, Zenon
<1>5. PICK w, m : Stands(w, side, tick, i, m)
  BY <1>1, <1>2, <1>4, OrderStands, Zenon
<1>6. slot[i].prev = INVALID_INDEX \/ slot[i].prev \in allocated
  <2>1. CASE m = 1
    BY <1>5, <2>1 DEF Stands
  <2>2. CASE m # 1
    <3>1. m - 1 \in 1 .. Len(w) /\ slot[i].prev = w[m - 1]
      BY <1>5, <2>2 DEF Stands
    <3>2. w[m - 1] \in Waits(side, tick)
      BY <1>5, <3>1 DEF Stands, Enumerates
    <3>. QED
      BY <3>1, <3>2 DEF Waits, Members
  <2>. QED
    BY <2>1, <2>2
<1>7. FreeLinksStay({})
  <2>1. ASSUME NEW k \in Slots, k \notin allocated
        PROVE  slot'[k].next = slot[k].next
    <3>1. k # i /\ k # slot[i].prev
      BY <1>4, <1>6, <2>1, SlotsFinite
    <3>2. PICK sl : sl = slot
      OBVIOUS
    <3>3. sl \in [Slots -> Orders] /\ rem = RemoveOrder(level, sl, i)
      BY <1>1, <1>3, <3>2
    <3>4. Released(rem, i, fh)[k].next = IF k = sl[i].prev THEN sl[i].next ELSE sl[k].next
      BY <1>4, <3>1, <3>3, ReleasedLinks
    <3>. QED
      BY <1>2, <3>1, <3>2, <3>4
  <2>. QED
    BY <2>1 DEF FreeLinksStay
<1>8. slot'[i].next = free_head
  <2>1. DOMAIN rem.slot = Slots
    BY <1>1, <1>3 DEF RemoveOrder
  <2>2. PICK s : s = rem.slot
    OBVIOUS
  <2>3. [s EXCEPT ![i] = FreedSlot(fh)][i] = FreedSlot(fh)
    BY <1>4, <2>1, <2>2
  <2>4. Released(rem, i, fh)[i] = FreedSlot(fh)
    BY <2>2, <2>3, Zenon DEF Released
  <2>5. slot'[i] = FreedSlot(fh)
    BY <1>2, <2>4, Zenon
  <2>. QED
    BY <1>1, <2>5 DEF FreedSlot
<1>. QED
  BY <1>2, <1>3, <1>4, <1>7, <1>8, SlotFreed

\* A drained maker is live.
LEMMA DrainFrees ==
  ASSUME NEW pos, NEW acc, NEW rank, BookInv(pos, acc, rank), Viewed, slot' \in [Slots -> Orders],
         FillSingle \/ FillSlowDrain
  PROVE  Pool!TrustedNext
<1>1. OnTrade /\ free_head' = cursor /\ allocated' = allocated \ {cursor}
  BY DEF FillSingle, FillSlowDrain
<1>2. slot \in [Slots -> Orders] /\ allocated \in SUBSET Slots
  BY BookTypes
<1>3. PICK c, fh : c = cursor /\ fh = free_head
  OBVIOUS
<1>4. c \in allocated /\ c \in Slots
  <2>1. Maker(MakerSide, best[MakerSide].idx)
    BY <1>1, MakerFirst
  <2>. QED
    BY <1>2, <1>3, <2>1 DEF Maker, Waits, Members
<1>5. slot'[c] = FreedSlot(fh) /\ \A k \in Slots : k # c => slot'[k].next = slot[k].next
  <2>1. CASE FillSingle
    <3>1. slot' = [slot EXCEPT ![c] = FreedSlot(fh)]
      BY <1>3, <2>1 DEF FillSingle
    <3>. QED
      BY <1>2, <1>4, <3>1
  <2>2. CASE FillSlowDrain
    <3>1. slot' = [i \in Slots |->
             IF i = c THEN FreedSlot(fh)
             ELSE IF i = slot[c].next THEN [slot[i] EXCEPT !.prev = INVALID_INDEX]
             ELSE slot[i]]
      BY <1>3, <2>2 DEF FillSlowDrain
    <3>2. ASSUME NEW k \in Slots, k # c
          PROVE  slot'[k].next = slot[k].next
      <4>1. PICK o : o = slot[k]
        OBVIOUS
      <4>2. o \in Orders /\ slot'[k] = IF k = slot[c].next THEN [o EXCEPT !.prev = INVALID_INDEX] ELSE o
        BY <1>2, <3>1, <3>2, <4>1
      <4>. QED
        BY <4>1, <4>2 DEF Orders
    <3>. QED
      BY <1>4, <3>1, <3>2
  <2>. QED
    BY <2>1, <2>2
<1>6. FreeLinksStay({}) /\ slot'[c].next = fh
  BY <1>4, <1>5 DEF FreeLinksStay, FreedSlot
<1>. QED
  BY <1>1, <1>2, <1>3, <1>4, <1>6, SlotFreed

\* The chain the splice frees is the whole queue of the level, every slot of it live.
LEMMA ChainFrees ==
  ASSUME NEW pos, NEW acc, NEW rank, BookInv(pos, acc, rank), slot' \in [Slots -> Orders], ChainDone
  PROVE  Pool!TrustedNext
<1>1. PICK side, tick, S, level, n, w :
        /\ side = MakerSide /\ tick = best[MakerSide].idx
        /\ S = Members(slot, allocated, MakerSide, best[MakerSide].idx) /\ level = BestLevel
        /\ n = level.order_count /\ w = Walk(level.head)
  OBVIOUS
<1>2. /\ Lists(w, S, n, pos)
      /\ slot' = Spliced(slot, S, level.tail, free_head)
      /\ free_head' = level.head /\ allocated' = allocated \ S
  BY <1>1, ChainSpliced
<1>3. pc = "walk" /\ best[MakerSide].has
  BY DEF ChainDone, BookInv, CallInv, AtBest
<1>4. /\ Queue(slot, S, level, pos, acc)
      /\ S \in SUBSET Slots /\ S \in SUBSET allocated /\ level \in Levels
      /\ n \in Nat \ {0} /\ level.tail \in S /\ pos[level.tail] = n
      /\ level.head \in S /\ pos[level.head] = 1
  BY <1>1, <1>3, AtBestLevel
<1>5. n = Cardinality(S) /\ n \in 1 .. Capacity
  BY <1>1, <1>4, SlotsFinite DEF Queue, Backward
<1>6. \A i, j \in S : pos[i] = pos[j] => i = j
  BY <1>4 DEF Queue, Chain
<1>7. /\ DOMAIN w = 1 .. n
      /\ \A k \in 1 .. n : w[k] \in S /\ pos[w[k]] = k
  BY <1>2 DEF Lists
<1>p. PICK p : p = [k \in 1 .. n |-> w[k]]
  OBVIOUS
<1>8. p \in [1 .. n -> Slots] /\ \A k \in 1 .. n : p[k] = w[k]
  BY <1>4, <1>7, <1>p
<1>9. p[1] = level.head /\ p[n] = level.tail /\ 1 \in 1 .. n /\ n \in 1 .. n
  BY <1>4, <1>6, <1>7, <1>8
<1>10. {p[k] : k \in 1 .. n} = S
  <2>1. \A i \in S : pos[i] \in 1 .. n
    BY <1>4, <1>5 DEF Queue, Chain
  <2>2. \A i \in S : p[pos[i]] = i
    BY <1>6, <1>7, <1>8, <2>1
  <2>. QED
    BY <1>7, <1>8, <2>1, <2>2
<1>11. PICK M : M = [k \in Slots |-> slot'[k].next]
  OBVIOUS
<1>12. \A i \in S : M[i] = IF i = level.tail THEN free_head ELSE slot[i].next
  BY <1>2, <1>4, <1>11 DEF Spliced, FreedSlot
<1>13. Pool!IsWalk(M, n, p, p[n])
  <2>1. ASSUME NEW k \in 1 .. n - 1
        PROVE  M[p[k]] = p[k + 1] /\ p[k] # p[n]
    <3>1. k \in 1 .. n /\ k + 1 \in 1 .. n /\ k # n
      BY <1>5
    <3>2. p[k] \in S /\ pos[p[k]] = k /\ p[k] # p[n]
      BY <1>7, <1>8, <1>9, <3>1
    <3>3. PICK i : i = p[k]
      OBVIOUS
    <3>4. slot[i].next \in S /\ pos[slot[i].next] = k + 1
      BY <1>4, <1>5, <3>1, <3>2, <3>3 DEF Queue, Chain
    <3>5. slot[i].next = p[k + 1]
      BY <1>6, <1>7, <1>8, <3>1, <3>4
    <3>. QED
      BY <1>9, <1>12, <3>2, <3>3, <3>5
  <2>2. \A j, k \in 1 .. n : p[j] = p[k] => j = k
    BY <1>7, <1>8
  <2>. QED
    BY <1>4, <1>7, <1>8, <2>1, <2>2 DEF Pool!IsWalk
<1>14. M[p[n]] = free_head
  BY <1>4, <1>9, <1>12
<1>15. Pool!FreeLinksKept({})
  <2>1. FreeLinksStay({})
    BY <1>2, <1>4 DEF FreeLinksStay, Spliced
  <2>. QED
    BY <2>1, FreeLinksAre
<1>16. Cardinality(allocated') = Cardinality(allocated) - n
  <2>1. allocated \in SUBSET Slots
    BY BookTypes
  <2>2. IsFiniteSet(allocated) /\ IsFiniteSet(S)
    BY <1>4, <2>1, SlotsFinite
  <2>3. allocated \cap S = S
    BY <1>4
  <2>4. Cardinality(allocated \ S) = Cardinality(allocated) - Cardinality(allocated \cap S)
    BY <2>2, FS_Difference
  <2>. QED
    BY <1>2, <1>5, <2>3, <2>4
<1>17. Pool!DeallocateChain(n, p)
  BY <1>2, <1>9, <1>10, <1>11, <1>13, <1>14, <1>15, <1>16 DEF Pool!DeallocateChain
<1>18. \E k \in 1 .. Capacity : \E q \in [1 .. k -> Pool!Slots] : Pool!DeallocateChain(k, q)
  BY <1>5, <1>8, <1>17 DEF Pool!Slots, Slots
<1>. QED
  BY <1>18, Zenon DEF Pool!TrustedNext, Pool!TrustedStep

\* The slot of a resting order comes from the free list, and the tail it is linked
\* behind is live.
LEMMA RestAllocates ==
  ASSUME NEW pos, NEW acc, NEW rank, BookInv(pos, acc, rank), slot' \in [Slots -> Orders], AddRested
  PROVE  Pool!TrustedNext
<1>1. pc = "match" /\ remaining > 0 /\ taker.type = "Limit" /\ free_head # INVALID_INDEX
  BY DEF AddRested, MatchOver
<1>2. /\ taker.side \in Sides /\ taker.id \in 1 .. MaxOrderId
      /\ taker.price \in MinPrice .. MaxPrice /\ remaining \in 0 .. QuantityModulus - 1
  BY <1>1, Matching DEF TakerInv
<1>3. PICK side, tick, i : side = taker.side /\ tick = taker.price - MinPrice /\ i = free_head
  OBVIOUS
<1>4. side \in Sides /\ tick \in Ticks
  BY <1>2, <1>3, TickOfPrice
<1>5. PICK order, level, app : /\ order = [next |-> INVALID_INDEX, prev |-> INVALID_INDEX, id |-> taker.id,
                                 price |-> taker.price, quantity |-> remaining, side |-> side]
                               /\ level = levels[side][tick]
                               /\ app = AppendOrder(level, PutOrder(slot, i, order), i)
  OBVIOUS
<1>6. slot' = app.slot /\ free_head' = slot[i].next /\ allocated' = allocated \cup {i}
  BY <1>3, <1>5 DEF AddRested, PutOrder
<1>7. Store(slot, allocated, free_head, levels, pos, acc, rank) /\ slot \in [Slots -> Orders]
      /\ allocated \in SUBSET Slots
  BY BookTypes DEF BookInv, Consistent
<1>8. i \in Slots /\ i \notin allocated
  BY <1>1, <1>3, <1>7, FreeHead
<1>9. order \in Orders
  <2>1. taker.price \in 0 .. MaxPrice /\ taker.id \in 0 .. MaxOrderId
    BY <1>2, PriceAssumption, BookAssumption
  <2>. QED
    BY <1>2, <1>4, <1>5, <2>1, Basics DEF Orders
<1>10. ~IsEmpty(level) => level.tail \in allocated
  <2>1. PICK S : S = Members(slot, allocated, side, tick)
    OBVIOUS
  <2>. QED
    BY <1>4, <1>5, <1>7, <2>1, LevelFacts
<1>11. FreeLinksStay({i})
  <2>1. PICK sl : sl = slot
    OBVIOUS
  <2>2. sl \in [Slots -> Orders] /\ app = AppendOrder(level, PutOrder(sl, i, order), i)
    BY <1>5, <1>7, <2>1
  <2>3. Linked(sl, app.slot, i, level)
    BY <1>8, <1>9, <2>2, AppendedLinks
  <2>. QED
    BY <1>6, <1>10, <2>1, <2>3 DEF FreeLinksStay, Linked
<1>12. Pool!FreeLinksKept({free_head})
  <2>1. FreeLinksStay({free_head})
    BY <1>3, <1>11 DEF FreeLinksStay
  <2>2. PICK except : except = {free_head}
    OBVIOUS
  <2>3. Pool!FreeLinksKept(except)
    BY <2>1, <2>2, FreeLinksAre
  <2>. QED
    BY <2>2, <2>3 DEF Pool!FreeLinksKept
<1>13. Cardinality(allocated') = Cardinality(allocated) + 1
  <2>1. IsFiniteSet(allocated)
    BY <1>7, SlotsFinite
  <2>2. Cardinality(allocated \cup {i}) = Cardinality(allocated) + 1
    BY <1>8, <2>1, FS_AddElement
  <2>. QED
    BY <1>6, <2>2
<1>14. Pool!Allocate
  BY <1>1, <1>3, <1>6, <1>8, <1>12, <1>13 DEF Pool!Allocate
<1>. QED
  BY <1>14 DEF Pool!TrustedNext, Pool!TrustedStep

\* Every step of the book is one the pool's contract allows.
LEMMA PoolStepIs ==
  ASSUME Inv, Inv', [Next]_vars
  PROVE  [Pool!TrustedNext]_(Pool!vars)
<1>1. PICK pos, acc, rank : BookInv(pos, acc, rank)
  BY DEF Inv
<1>2. Viewed
  BY InvViewed
<1>3. slot' \in [Slots -> Orders]
  <2>1. TypeOK'
    BY InvTypeOK, PTL
  <2>. QED
    BY <2>1 DEF TypeOK
<1>4. slot \in [Slots -> Orders]
  BY <1>1, BookTypes
<1>5. ASSUME NEW id \in CancelIds, CancelOrder(id)
      PROVE  Pool!TrustedNext
  BY <1>1, <1>2, <1>3, <1>5, CancelFrees
<1>6. CASE FillSingle \/ FillSlowDrain
  BY <1>1, <1>2, <1>3, <1>6, DrainFrees
<1>7. CASE ChainDone
  BY <1>1, <1>3, <1>7, ChainFrees
<1>8. CASE AddRested
  BY <1>1, <1>3, <1>8, RestAllocates
<1>9. CASE FillSlowPartial
  <2>1. slot' = [slot EXCEPT ![cursor].quantity = @ - CurrentTrade.quantity] /\ UNCHANGED <<free_head, allocated>>
    BY <1>9 DEF FillSlowPartial
  <2>2. PICK c, d : c = cursor /\ d = CurrentTrade.quantity
    OBVIOUS
  <2>3. \A i \in Slots : slot'[i].next = slot[i].next
    BY <1>4, <2>1, <2>2 DEF Orders
  <2>. QED
    BY <2>1, <2>3, PoolStays
<1>10. CASE UNCHANGED <<slot, free_head, allocated>>
  BY <1>10, PoolStays
<1>11. ASSUME NEW id \in CancelIds, RejectCancel(id)
       PROVE  UNCHANGED <<slot, free_head, allocated>>
  BY <1>11 DEF RejectCancel, bookVars
<1>12. ASSUME NEW id, NEW type, NEW price, NEW quantity, NEW side,
              AcceptAdd(id, type, price, quantity, side) \/ RejectAdd(id, type, price, quantity, side)
       PROVE  UNCHANGED <<slot, free_head, allocated>>
  BY <1>12 DEF AcceptAdd, RejectAdd, bookVars
<1>13. CASE EnterLevel \/ FillChain \/ SlowDone \/ LevelDone \/ AddFilled \/ AddExhausted
            \/ ClientResumes \/ UNCHANGED vars
  <2>1. UNCHANGED <<slot, free_head, allocated>>
    BY <1>13 DEF EnterLevel, FillChain, SlowDone, LevelDone, AddFilled, AddExhausted, ClientResumes, vars, bookVars
  <2>. QED
    BY <1>10, <2>1
<1>14. CASE ClientCalls
  BY <1>5, <1>10, <1>11, <1>12, <1>14, Zenon DEF ClientCalls
<1>15. CASE MatchBuy \/ MatchSell
  BY <1>6, <1>7, <1>9, <1>13, <1>15 DEF MatchBuy, MatchSell, MatchStep
<1>. QED
  BY <1>8, <1>13, <1>14, <1>15 DEF Next, EngineStep

(***************************************************************************)
(* The book is a client the pool can trust, whatever ids are passed: it    *)
(* frees only slots it owns, deallocate_chain gets a chain of live slots   *)
(* that ends at its tail, and no write of Order::next meets a free slot.   *)
(***************************************************************************)
THEOREM BookKeepsPoolContract == Spec => KeepsPoolContract
<1>1. Init => Pool!Init
  <2> SUFFICES ASSUME Init PROVE Pool!Init
    OBVIOUS
  <2>1. [i \in Slots |-> slot[i].next] = [i \in Slots |-> IF i = Capacity - 1 THEN INVALID_INDEX ELSE i + 1]
    BY DEF Init
  <2>2. Cardinality(allocated) = 0
    BY FS_EmptySet DEF Init
  <2>. QED
    BY <2>1, <2>2 DEF Init, Pool!Init, Pool!PoolInit, Pool!Slots, Slots
<1>2. Inv /\ Inv' /\ [Next]_vars => [Pool!TrustedNext]_(Pool!vars)
  BY PoolStepIs
<1>. QED
  BY <1>1, <1>2, InvHolds, PTL DEF Spec, KeepsPoolContract, Pool!TrustedSpec

-----------------------------------------------------------------------------
(***************************************************************************)
(* The journal.  A reader that follows the events below makes the same     *)
(* change to its queues as the reference book does, whichever fill path    *)
(* recorded them.  An entry names an order by id: an id shown in a queue   *)
(* is the id of one order, in that queue and in one place of it.           *)
(***************************************************************************)
QueueEvents == {"OrderRested", "TradeExecuted", "MakerFilled", "OrderCancelled"}

PutQueue(Q, side, price, q) == [Q EXCEPT ![side][price] = q]

\* A reader that puts back the queue it has found has changed nothing.
LEMMA PutSame ==
  ASSUME NEW side \in Sides, NEW price \in MinPrice .. MaxPrice, NEW Q, Q = AbstractQueue
  PROVE  PutQueue(Q, side, price, Q[side][price]) = Q
<1>1. /\ DOMAIN Q = Sides /\ DOMAIN Q[side] = MinPrice .. MaxPrice
      /\ Q = [s \in Sides |-> [p \in MinPrice .. MaxPrice |-> Q[s][p]]]
  BY QueueAt
<1>2. [Q[side] EXCEPT ![price] = Q[side][price]] = Q[side]
  BY <1>1
<1>3. PutQueue(Q, side, price, Q[side][price]) = [Q EXCEPT ![side] = [Q[side] EXCEPT ![price] = Q[side][price]]]
  BY DEF PutQueue
<1>4. [Q EXCEPT ![side] = Q[side]] = Q
  BY <1>1
<1>. QED
  BY <1>2, <1>3, <1>4, Zenon

\* An entry of any other event leaves the reader's queues alone.
LEMMA ReadsNothing ==
  ASSUME NEW event, event \notin QueueEvents, NEW id, NEW price, NEW quantity, NEW side
  PROVE  ReadQueue(AbstractQueue, Entry(event, id, price, quantity, side)) = AbstractQueue
<1>1. PICK Q : Q = AbstractQueue
  OBVIOUS
<1>2. PICK e : e = Entry(event, id, price, quantity, side)
  OBVIOUS
<1>3. e.event = event /\ e.side = side /\ e.price = price
  BY <1>2 DEF Entry
<1>4. ReadQueue(Q, e) = Q \/ ReadQueue(Q, e) = PutQueue(Q, side, price, Q[side][price])
  BY <1>3 DEF ReadQueue, PutQueue, QueueEvents
<1>5. CASE side \in Sides /\ price \in MinPrice .. MaxPrice
  BY <1>1, <1>2, <1>4, <1>5, PutSame
<1>6. CASE ~(side \in Sides /\ price \in MinPrice .. MaxPrice)
  <2>1. ReadQueue(Q, e) = Q
    <3>1. ~(e.event \in Followed /\ e.side \in Sides /\ e.price \in MinPrice .. MaxPrice)
      BY <1>3, <1>6
    <3>. QED
      BY <3>1, Zenon DEF ReadQueue
  <2>. QED
    BY <1>1, <1>2, <2>1
<1>. QED
  BY <1>5, <1>6

\* An order that has rested goes to the end of its queue.
LEMMA ReadsRested ==
  ASSUME QueueEvents \subseteq Followed, NEW Q, NEW id, NEW quantity,
         NEW side \in Sides, NEW price \in MinPrice .. MaxPrice
  PROVE  ReadQueue(Q, Entry("OrderRested", id, price, quantity, side)) =
           PutQueue(Q, side, price, Append(Q[side][price], [id |-> id, quantity |-> quantity]))
<1>1. PICK e : e = Entry("OrderRested", id, price, quantity, side)
  OBVIOUS
<1>2. /\ e.event = "OrderRested" /\ e.id = id /\ e.price = price
      /\ e.quantity = quantity /\ e.side = side
  BY <1>1 DEF Entry
<1>3. e.event \in Followed
  BY <1>2 DEF QueueEvents
<1>. QED
  BY <1>1, <1>2, <1>3 DEF ReadQueue, PutQueue

\* A trade, which names its taker, takes its quantity from the first order opposite.
LEMMA ReadsTrade ==
  ASSUME QueueEvents \subseteq Followed, NEW Q, NEW id, NEW quantity,
         NEW side \in Sides, NEW price \in MinPrice .. MaxPrice, Q[Opposite(side)][price] # <<>>
  PROVE  ReadQueue(Q, Entry("TradeExecuted", id, price, quantity, side)) =
           PutQueue(Q, Opposite(side), price, LessHead(Q[Opposite(side)][price], quantity))
<1>1. PICK e : e = Entry("TradeExecuted", id, price, quantity, side)
  OBVIOUS
<1>2. /\ e.event = "TradeExecuted" /\ e.id = id /\ e.price = price
      /\ e.quantity = quantity /\ e.side = side
  BY <1>1 DEF Entry
<1>3. e.event \in Followed
  BY <1>2 DEF QueueEvents
<1>. QED
  BY <1>1, <1>2, <1>3 DEF ReadQueue, PutQueue, LessHead

\* A maker that was filled leaves.
LEMMA ReadsFilled ==
  ASSUME QueueEvents \subseteq Followed, NEW Q, NEW id, NEW quantity,
         NEW side \in Sides, NEW price \in MinPrice .. MaxPrice
  PROVE  ReadQueue(Q, Entry("MakerFilled", id, price, quantity, side)) =
           PutQueue(Q, side, price, Without(Q[side][price], id))
<1>1. PICK e : e = Entry("MakerFilled", id, price, quantity, side)
  OBVIOUS
<1>2. /\ e.event = "MakerFilled" /\ e.id = id /\ e.price = price
      /\ e.quantity = quantity /\ e.side = side
  BY <1>1 DEF Entry
<1>3. e.event \in Followed
  BY <1>2 DEF QueueEvents
<1>. QED
  BY <1>1, <1>2, <1>3 DEF ReadQueue, PutQueue

\* An order that was cancelled leaves.
LEMMA ReadsCancelled ==
  ASSUME QueueEvents \subseteq Followed, NEW Q, NEW id, NEW quantity,
         NEW side \in Sides, NEW price \in MinPrice .. MaxPrice
  PROVE  ReadQueue(Q, Entry("OrderCancelled", id, price, quantity, side)) =
           PutQueue(Q, side, price, Without(Q[side][price], id))
<1>1. PICK e : e = Entry("OrderCancelled", id, price, quantity, side)
  OBVIOUS
<1>2. /\ e.event = "OrderCancelled" /\ e.id = id /\ e.price = price
      /\ e.quantity = quantity /\ e.side = side
  BY <1>1 DEF Entry
<1>3. e.event \in Followed
  BY <1>2 DEF QueueEvents
<1>. QED
  BY <1>1, <1>2, <1>3 DEF ReadQueue, PutQueue

\* The reader takes out the one order with that id.
LEMMA WithoutIs ==
  ASSUME NEW T, NEW q \in Seq(T), NEW m \in 1 .. Len(q), NEW id, q[m].id = id,
         \A k \in 1 .. Len(q) : q[k].id = id => k = m
  PROVE  Without(q, id) = Reference!RemoveAt(q, m)
<1>1. PICK P : P = {k \in DOMAIN q : q[k].id = id}
  OBVIOUS
<1>2. P = {m}
  BY <1>1
<1>3. (CHOOSE k \in P : TRUE) = m /\ P # {}
  BY <1>2
<1>4. Without(q, id) = RemoveAt(q, m)
  BY <1>1, <1>3, Zenon DEF Without
<1>. QED
  BY <1>4 DEF RemoveAt, Reference!RemoveAt

\* What a reader that knows Q knows after the new entries.
Replay(Q, new) == ReadAll(ReadQueue, Q, new)

\* No entry.
LEMMA ReplayNone == ASSUME NEW Q PROVE Replay(Q, <<>>) = Q
BY DEF Replay, ReadAll

\* One entry.
LEMMA ReplayOne == ASSUME NEW Q, NEW a PROVE Replay(Q, <<a>>) = ReadQueue(Q, a)
BY DEF Replay, ReadAll

\* Two entries.
LEMMA ReplayTwo == ASSUME NEW Q, NEW a, NEW b PROVE Replay(Q, <<a, b>>) = ReadQueue(ReadQueue(Q, a), b)
BY DEF Replay, ReadAll

-----------------------------------------------------------------------------
\* An id shown in a queue is the id of the order the map finds, and shown once.
LEMMA NamesOne ==
  ASSUME Viewed, NEW side \in Sides, NEW price \in MinPrice .. MaxPrice, NEW q,
         q = AbstractQueue[side][price]
  PROVE  /\ q \in Seq(AllShown(slot))
         /\ \A k \in 1 .. Len(q) : LET i == order_map[q[k].id]
                                   IN  slot[i].side = side /\ slot[i].price = price /\ i \in allocated
         /\ \A j, k \in 1 .. Len(q) : q[j].id = q[k].id => j = k
<1>1. PICK tick \in Ticks : price = MinPrice + tick
  BY TickOfPrice
<1>2. PICK w : w = QueueSlots(side, tick)
  OBVIOUS
<1>3. w \in Seq(Slots) /\ q = Told(slot, w)
  BY <1>1, <1>2, QueueEmpty
<1>4. Enumerates(w, Waits(side, tick))
  BY <1>2, Zenon DEF Viewed, QueueView
<1>5. q \in Seq(AllShown(slot)) /\ Len(q) = Len(w) /\ \A k \in 1 .. Len(w) : q[k] = Shown(slot, w[k])
  BY <1>3, ToldIs
<1>6. \A k \in 1 .. Len(q) : q[k].id = slot[w[k]].id /\ w[k] \in Waits(side, tick)
  <2>1. \A k \in 1 .. Len(w) : Shown(slot, w[k]).id = slot[w[k]].id
    BY DEF Shown
  <2>2. \A k \in 1 .. Len(w) : w[k] \in Waits(side, tick)
    BY <1>4 DEF Enumerates
  <2>. QED
    BY <1>5, <2>1, <2>2, Zenon
<1>7. \A k \in 1 .. Len(q) : /\ order_map[q[k].id] = w[k]
                             /\ slot[w[k]].side = side /\ slot[w[k]].price = price /\ w[k] \in allocated
  BY <1>1, <1>6 DEF Waits, Members
<1>8. \A j, k \in 1 .. Len(q) : q[j].id = q[k].id => j = k
  BY <1>4, <1>5, <1>7 DEF Enumerates
<1>. QED
  BY <1>5, <1>7, <1>8

\* A cancel: the entry names the order the reference book takes out.
LEMMA CancelRecorded ==
  ASSUME QueueEvents \subseteq Followed, NEW pos, NEW acc, NEW rank, BookInv(pos, acc, rank),
         Viewed, Viewed', NEW id \in 1 .. MaxOrderId, CancelOrder(id)
  PROVE  Replay(AbstractQueue, CancelRecords(id)) = AbstractQueue'
<1>1. Reference!CancelOrder(id)
  BY CancelIs
<1>2. PICK Q : Q = AbstractQueue
  OBVIOUS
<1>a. PICK side \in Sides, price \in MinPrice .. MaxPrice :
        \E k \in 1 .. Len(AbstractQueue[side][price]) :
          /\ AbstractQueue[side][price][k].id = id
          /\ AbstractQueue' = [AbstractQueue EXCEPT ![side][price] =
                                 Reference!RemoveAt(AbstractQueue[side][price], k)]
  <2>1. \E s \in Reference!Sides, p \in Reference!Prices :
          LET qq == AbstractQueue[s][p]
          IN  \E k \in 1 .. Len(qq) :
                /\ qq[k].id = id
                /\ AbstractQueue' = [AbstractQueue EXCEPT ![s][p] = Reference!RemoveAt(qq, k)]
    BY <1>1, Zenon DEF Reference!CancelOrder
  <2>2. Reference!Sides = Sides /\ Reference!Prices = MinPrice .. MaxPrice
    BY ReferenceSides
  <2>. QED
    BY <2>1, <2>2, Zenon
<1>3. PICK k \in 1 .. Len(Q[side][price]) :
        /\ Q[side][price][k].id = id
        /\ AbstractQueue' = [Q EXCEPT ![side][price] = Reference!RemoveAt(Q[side][price], k)]
  BY <1>2, <1>a, Zenon
<1>4. PICK q : q = Q[side][price]
  OBVIOUS
<1>5. /\ q \in Seq(AllShown(slot)) /\ \A j \in 1 .. Len(q) : q[j].id = id => j = k
      /\ slot[order_map[id]].side = side /\ slot[order_map[id]].price = price
  BY <1>2, <1>3, <1>4, NamesOne
<1>6. PICK a, b : /\ a = Entry("OrderSubmitted", id, 0, 0, "Buy")
                  /\ b = Entry("OrderCancelled", id, price, 0, side)
  OBVIOUS
<1>7. CancelRecords(id) = <<a, b>>
  BY <1>5, <1>6 DEF CancelRecords
<1>8. ReadQueue(Q, a) = Q
  BY <1>2, <1>6, ReadsNothing DEF QueueEvents
<1>9. ReadQueue(Q, b) = PutQueue(Q, side, price, Without(q, id))
  <2>1. PICK none : none = 0
    OBVIOUS
  <2>2. ReadQueue(Q, Entry("OrderCancelled", id, price, none, side)) =
          PutQueue(Q, side, price, Without(Q[side][price], id))
    BY ReadsCancelled
  <2>. QED
    BY <1>4, <1>6, <2>1, <2>2, Zenon
<1>10. Without(q, id) = Reference!RemoveAt(q, k)
  BY <1>3, <1>4, <1>5, WithoutIs
<1>11. Replay(Q, CancelRecords(id)) = PutQueue(Q, side, price, Reference!RemoveAt(q, k))
  <2>1. Replay(Q, <<a, b>>) = ReadQueue(ReadQueue(Q, a), b)
    BY ReplayTwo
  <2>. QED
    BY <1>7, <1>8, <1>9, <1>10, <2>1
<1>. QED
  BY <1>2, <1>3, <1>4, <1>11 DEF PutQueue
-----------------------------------------------------------------------------
\* The reader finds the queue it has put, and puts one over another.
LEMMA PutGet ==
  ASSUME NEW side \in Sides, NEW price \in MinPrice .. MaxPrice, NEW Q, Q = AbstractQueue, NEW x, NEW y
  PROVE  /\ PutQueue(Q, side, price, x)[side][price] = x
         /\ PutQueue(PutQueue(Q, side, price, x), side, price, y) = PutQueue(Q, side, price, y)
<1>1. /\ DOMAIN Q = Sides /\ DOMAIN Q[side] = MinPrice .. MaxPrice
      /\ Q = [s \in Sides |-> [p \in MinPrice .. MaxPrice |-> Q[s][p]]]
  BY QueueAt
<1>2. PICK r : r = Q[side]
  OBVIOUS
<1>3. PICK rx, ry : rx = [r EXCEPT ![price] = x] /\ ry = [r EXCEPT ![price] = y]
  OBVIOUS
<1>4. DOMAIN r = MinPrice .. MaxPrice /\ r = [p \in MinPrice .. MaxPrice |-> r[p]]
  BY <1>1, <1>2
<1>5. rx[price] = x /\ [rx EXCEPT ![price] = y] = ry
  BY <1>3, <1>4
<1>6. PICK Qx, Qy : Qx = [Q EXCEPT ![side] = rx] /\ Qy = [Q EXCEPT ![side] = ry]
  OBVIOUS
<1>7. Qx[side] = rx /\ [Qx EXCEPT ![side] = ry] = Qy
  BY <1>1, <1>6
<1>8. PutQueue(Q, side, price, x) = Qx /\ PutQueue(Q, side, price, y) = Qy
  BY <1>2, <1>3, <1>6 DEF PutQueue
<1>9. PutQueue(Qx, side, price, y) = [Qx EXCEPT ![side] = [Qx[side] EXCEPT ![price] = y]]
  BY DEF PutQueue
<1>. QED
  BY <1>5, <1>7, <1>8, <1>9, Zenon

\* A partial fill of the first order changes its quantity, and no id.
LEMMA LessHeadIs ==
  ASSUME NEW sl, NEW q \in Seq(AllShown(sl)), q # <<>>, NEW d
  PROVE  \E T : /\ LessHead(q, d) \in Seq(T) /\ Len(LessHead(q, d)) = Len(q)
                /\ \A k \in 1 .. Len(q) : LessHead(q, d)[k].id = q[k].id
                /\ \A k \in 2 .. Len(q) : LessHead(q, d)[k] = q[k]
<1>1. PICK T : T = [id : {sl[i].id : i \in Slots}, quantity : {sl[i].quantity : i \in Slots} \cup {q[1].quantity - d}]
  OBVIOUS
<1>2. \A k \in 1 .. Len(q) : q[k] \in T
  <2>1. \A i \in Slots : Shown(sl, i) \in T
    BY <1>1 DEF Shown
  <2>2. \A k \in 1 .. Len(q) : q[k] \in AllShown(sl)
    OBVIOUS
  <2>. QED
    BY <2>1, <2>2 DEF AllShown
<1>3. PICK h : h = [q[1] EXCEPT !.quantity = q[1].quantity - d]
  OBVIOUS
<1>4. 1 \in 1 .. Len(q) /\ q[1] \in T /\ q \in Seq(T)
  <2>1. Len(q) \in Nat \ {0} /\ 1 \in 1 .. Len(q)
    OBVIOUS
  <2>2. q \in Seq(T)
    BY <1>2
  <2>. QED
    BY <1>2, <2>1, <2>2
<1>5. h \in T /\ h.id = q[1].id
  BY <1>1, <1>3, <1>4
<1>6. LessHead(q, d) = [q EXCEPT ![1] = h]
  BY <1>3, <1>4 DEF LessHead
<1>7. PICK s : s = [q EXCEPT ![1] = h]
  OBVIOUS
<1>8. s \in Seq(T) /\ Len(s) = Len(q) /\ \A j \in 1 .. Len(q) : s[j] = IF j = 1 THEN h ELSE q[j]
  BY <1>4, <1>5, <1>7, ExceptSeq
<1>9. \A k \in 1 .. Len(q) : s[k].id = q[k].id
  BY <1>5, <1>8
<1>10. \A k \in 2 .. Len(q) : s[k] = q[k]
  BY <1>4, <1>8
<1>. QED
  BY <1>6, <1>7, <1>8, <1>9, <1>10

\* A trade for all of the first order and its MakerFilled leave the others.
LEMMA FilledLeaves ==
  ASSUME NEW sl, NEW q \in Seq(AllShown(sl)), q # <<>>, NEW d,
         \A j, k \in 1 .. Len(q) : q[j].id = q[k].id => j = k
  PROVE  Without(LessHead(q, d), q[1].id) = Tail(q)
<1>1. PICK T : /\ LessHead(q, d) \in Seq(T) /\ Len(LessHead(q, d)) = Len(q)
               /\ \A k \in 1 .. Len(q) : LessHead(q, d)[k].id = q[k].id
               /\ \A k \in 2 .. Len(q) : LessHead(q, d)[k] = q[k]
  BY LessHeadIs
<1>2. PICK s : s = LessHead(q, d)
  OBVIOUS
<1>3. /\ s \in Seq(T) /\ Len(s) = Len(q)
      /\ \A k \in 1 .. Len(q) : s[k].id = q[k].id /\ \A k2 \in 2 .. Len(q) : s[k2] = q[k2]
  BY <1>1, <1>2
<1>4. Len(q) \in Nat \ {0} /\ 1 \in 1 .. Len(q)
  OBVIOUS
<1>5. \A k \in 1 .. Len(s) : s[k].id = q[1].id => k = 1
  BY <1>3, <1>4
<1>6. 1 \in 1 .. Len(s) /\ s[1].id = q[1].id
  BY <1>3, <1>4
<1>7. Without(s, q[1].id) = Reference!RemoveAt(s, 1)
  BY <1>3, <1>5, <1>6, WithoutIs
<1>8. PICK r : r = Reference!RemoveAt(s, 1)
  OBVIOUS
<1>9. r \in Seq(T) /\ Len(r) = Len(s) - 1 /\ \A k \in 1 .. Len(s) - 1 : r[k] = IF k < 1 THEN s[k] ELSE s[k + 1]
  BY <1>3, <1>6, <1>8, RemoveAtIs
<1>10. \A k \in 1 .. Len(q) - 1 : r[k] = q[k + 1]
  BY <1>3, <1>4, <1>9
<1>11. PICK t : t = Tail(q)
  OBVIOUS
<1>12. t \in Seq(AllShown(sl)) /\ Len(t) = Len(q) - 1 /\ \A k \in 1 .. Len(q) - 1 : t[k] = q[k + 1]
  BY <1>4, <1>11
<1>13. PICK V : V = T \cup AllShown(sl)
  OBVIOUS
<1>14. r \in Seq(V) /\ t \in Seq(V)
  BY <1>9, <1>12, <1>13, SeqMonotonic
<1>15. r = t
  <2>1. Len(r) = Len(t) /\ \A k \in 1 .. Len(r) : r[k] = t[k]
    BY <1>3, <1>9, <1>10, <1>12
  <2>. QED
    BY <1>14, <2>1, SeqEqual, Zenon
<1>. QED
  BY <1>2, <1>7, <1>8, <1>11, <1>15

\* A fill, on any of the three paths: the trade and the filled maker tell what the
\* reference book does to its queue.
LEMMA FillRecorded ==
  ASSUME QueueEvents \subseteq Followed, NEW pos, NEW acc, NEW rank, BookInv(pos, acc, rank),
         Viewed, OnTrade, Reference!AfterTrade
  PROVE  Replay(AbstractQueue, FillRecords) = AbstractQueue'
<1>1. PICK Q, side, tick, price, d, id, n :
        /\ Q = AbstractQueue /\ side = MakerSide /\ tick = best[MakerSide].idx /\ price = MinPrice + tick
        /\ d = CurrentTrade.quantity /\ id = slot[cursor].id /\ n = slot[cursor].quantity
  OBVIOUS
<1>2. PICK q : q = Q[side][price]
  OBVIOUS
<1>3. /\ side \in Sides /\ tick \in Ticks /\ slot[cursor].price = price
      /\ taker.side \in Sides /\ Opposite(taker.side) = side
  <2>1. taker.side \in Sides
    BY Matching DEF OnTrade
  <2>. QED
    BY <1>1, <2>1, MakerFirst DEF Maker, MakerSide
<1>4. price \in MinPrice .. MaxPrice
  BY <1>1, <1>3, TickOfPrice
<1>5. Reference!BestPrice = price /\ Head(q) = [id |-> id, quantity |-> n]
  BY <1>1, <1>2, TradeQueue
<1>6. q \in Seq(AllShown(slot)) /\ \A j, k \in 1 .. Len(q) : q[j].id = q[k].id => j = k
  BY <1>1, <1>2, <1>3, <1>4, NamesOne
<1>7. q # <<>>
  <2>1. QueueStart(side, tick) # INVALID_INDEX
    BY <1>1, MakerFirst, Basics DEF Maker
  <2>. QED
    BY <1>1, <1>2, <1>3, <2>1, QueueEmpty
<1>8. q[1].id = id /\ Head(q).quantity = n
  BY <1>5, <1>6, <1>7
<1>9. Reference!CurrentTrade = CurrentTrade
  <2>1. Inv
    BY Zenon DEF Inv
  <2>2. TradesAgree
    BY <2>1, InvTradesAgree
  <2>. QED
    BY <2>2, Zenon DEF TradesAgree
<1>10. AbstractQueue' = PutQueue(Q, side, price, IF d = n THEN Tail(q) ELSE LessHead(q, d))
  BY <1>1, <1>2, <1>5, <1>8, <1>9, ReferenceSides, Zenon DEF Reference!AfterTrade, PutQueue, LessHead
<1>11. PICK t, f : /\ t = Entry("TradeExecuted", taker.id, price, d, taker.side)
                   /\ f = Entry("MakerFilled", id, price, 0, side)
  OBVIOUS
<1>12. FillRecords = IF d = n THEN <<t, f>> ELSE <<t>>
  BY <1>1, <1>3, <1>11 DEF FillRecords, TradeRecord, CurrentTrade
<1>13. ReadQueue(Q, t) = PutQueue(Q, side, price, LessHead(q, d))
  <2>1. PICK of, ts : of = taker.id /\ ts = taker.side
    OBVIOUS
  <2>2. ts \in Sides /\ Q[Opposite(ts)][price] # <<>>
    BY <1>2, <1>3, <1>7, <2>1
  <2>3. ReadQueue(Q, Entry("TradeExecuted", of, price, d, ts)) =
          PutQueue(Q, Opposite(ts), price, LessHead(Q[Opposite(ts)][price], d))
    BY <1>4, <2>2, ReadsTrade
  <2>. QED
    BY <1>2, <1>3, <1>11, <2>1, <2>3, Zenon
<1>14. CASE d # n
  <2>1. Replay(Q, <<t>>) = ReadQueue(Q, t)
    BY ReplayOne
  <2>. QED
    BY <1>1, <1>10, <1>12, <1>13, <1>14, <2>1
<1>15. CASE d = n
  <2>1. PICK Q1 : Q1 = PutQueue(Q, side, price, LessHead(q, d))
    OBVIOUS
  <2>2. Q1[side][price] = LessHead(q, d)
    BY <1>1, <1>3, <1>4, <2>1, PutGet
  <2>3. Without(LessHead(q, d), id) = Tail(q)
    BY <1>6, <1>7, <1>8, FilledLeaves
  <2>4. ReadQueue(Q1, f) = PutQueue(Q1, side, price, Tail(q))
    <3>1. PICK none : none = 0
      OBVIOUS
    <3>2. ReadQueue(Q1, Entry("MakerFilled", id, price, none, side)) =
            PutQueue(Q1, side, price, Without(Q1[side][price], id))
      BY <1>3, <1>4, ReadsFilled
    <3>. QED
      BY <1>11, <2>2, <2>3, <3>1, <3>2, Zenon
  <2>5. PutQueue(Q1, side, price, Tail(q)) = PutQueue(Q, side, price, Tail(q))
    BY <1>1, <1>3, <1>4, <2>1, PutGet
  <2>6. Replay(Q, <<t, f>>) = ReadQueue(ReadQueue(Q, t), f)
    BY ReplayTwo
  <2>7. Replay(Q, <<t, f>>) = PutQueue(Q, side, price, Tail(q))
    BY <1>13, <2>1, <2>4, <2>5, <2>6
  <2>. QED
    BY <1>1, <1>10, <1>12, <1>15, <2>7
<1>. QED
  BY <1>14, <1>15

\* One entry after none, and one after another.
LEMMA TwoEntries == ASSUME NEW b, NEW e PROVE <<>> \o <<e>> = <<e>> /\ <<b>> \o <<e>> = <<b, e>>
<1>1. PICK S, u, v, w : S = {b, e} /\ u = <<b>> /\ v = <<e>> /\ w = <<b, e>>
  OBVIOUS
<1>2. /\ u \in Seq(S) /\ Len(u) = 1 /\ u[1] = b /\ v \in Seq(S) /\ Len(v) = 1 /\ v[1] = e
      /\ w \in Seq(S) /\ Len(w) = 2 /\ w[1] = b /\ w[2] = e
  BY <1>1
<1>3. <<>> \o v = v
  BY <1>2, ConcatEmptySeq
<1>4. PICK x : x = u \o v
  OBVIOUS
<1>5. x \in Seq(S) /\ Len(x) = 2 /\ x[1] = b /\ x[2] = e
  <2>1. /\ x \in Seq(S) /\ Len(x) = Len(u) + Len(v)
        /\ \A i \in 1 .. Len(u) + Len(v) : x[i] = IF i <= Len(u) THEN u[i] ELSE v[i - Len(u)]
    BY <1>2, <1>4, ConcatProperties
  <2>. QED
    BY <1>2, <2>1
<1>6. x = w
  <2>1. Len(x) = Len(w) /\ \A i \in 1 .. Len(x) : x[i] = w[i]
    BY <1>2, <1>5
  <2>. QED
    BY <1>2, <1>5, <2>1, SeqEqual, Zenon
<1>. QED
  BY <1>1, <1>3, <1>4, <1>6

\* The remainder of an order: the entry puts it where the reference book does, and
\* the best price that may come before it is none of this reader's business.
LEMMA RestRecorded ==
  ASSUME QueueEvents \subseteq Followed, NEW pos, NEW acc, NEW rank, BookInv(pos, acc, rank),
         Viewed, Viewed', AddRested
  PROVE  Replay(AbstractQueue, RestRecords) = AbstractQueue'
<1>1. Reference!AddRested
  BY AddRestedIs
<1>2. pc = "match" /\ taker.type = "Limit" /\ ~InChain
  BY DEF AddRested, MatchOver, InChain
<1>3. PICK Q, side, price, id, n :
        Q = AbstractQueue /\ side = taker.side /\ price = taker.price /\ id = taker.id /\ n = remaining
  OBVIOUS
<1>4. side \in Sides /\ price \in MinPrice .. MaxPrice
  BY <1>2, <1>3, Matching DEF TakerInv
<1>5. AbstractRemaining = n
  BY <1>2, <1>3 DEF AbstractRemaining
<1>6. AbstractQueue' = PutQueue(Q, side, price, Append(Q[side][price], [id |-> id, quantity |-> n]))
  BY <1>1, <1>3, <1>5 DEF Reference!AddRested, PutQueue
<1>7. PICK b, e, kind : /\ e = Entry("OrderRested", id, price, n, side)
                        /\ b = BestRecord(side, price)
                        /\ kind = IF side = "Buy" THEN "BestBidChanged" ELSE "BestAskChanged"
  OBVIOUS
<1>8. ReadQueue(Q, e) = AbstractQueue'
  <2>1. ReadQueue(Q, Entry("OrderRested", id, price, n, side)) =
          PutQueue(Q, side, price, Append(Q[side][price], [id |-> id, quantity |-> n]))
    BY <1>4, ReadsRested
  <2>. QED
    BY <1>6, <1>7, <2>1, Zenon
<1>9. ReadQueue(Q, b) = Q
  <2>1. b = Entry(kind, 0, price, 0, side) /\ kind \notin QueueEvents
    BY <1>7 DEF BestRecord, QueueEvents
  <2>. QED
    BY <1>3, <2>1, ReadsNothing
<1>10. RestRecords = <<e>> \/ RestRecords = <<b, e>>
  <2>1. <<>> \o <<e>> = <<e>> /\ <<b>> \o <<e>> = <<b, e>>
    BY TwoEntries
  <2>. QED
    BY <1>3, <1>7, <2>1 DEF RestRecords
<1>11. Replay(Q, <<e>>) = AbstractQueue'
  <2>1. Replay(Q, <<e>>) = ReadQueue(Q, e)
    BY ReplayOne
  <2>. QED
    BY <1>8, <2>1
<1>12. Replay(Q, <<b, e>>) = AbstractQueue'
  <2>1. Replay(Q, <<b, e>>) = ReadQueue(ReadQueue(Q, b), e)
    BY ReplayTwo
  <2>. QED
    BY <1>8, <1>9, <2>1
<1>. QED
  BY <1>3, <1>10, <1>11, <1>12

-----------------------------------------------------------------------------
\* What the engine records when the reference book's queues stay.
LEMMA OthersRecorded ==
  ASSUME NEW id, NEW type, NEW price, NEW quantity, NEW side
  PROVE  /\ Replay(AbstractQueue, RejectCancelRecords(id)) = AbstractQueue
         /\ Replay(AbstractQueue, AcceptRecords(id, price, quantity, side)) = AbstractQueue
         /\ Replay(AbstractQueue, RejectAddRecords(id, type, price, quantity, side)) = AbstractQueue
         /\ Replay(AbstractQueue, LevelRecords) = AbstractQueue
         /\ Replay(AbstractQueue, ExhaustedRecords) = AbstractQueue
<1>1. PICK Q : Q = AbstractQueue
  OBVIOUS
<1>2. ASSUME NEW event, event \notin QueueEvents, NEW i, NEW p, NEW n, NEW s
      PROVE  ReadQueue(Q, Entry(event, i, p, n, s)) = Q
  BY <1>1, <1>2, ReadsNothing
<1>3. ASSUME NEW event, event \notin QueueEvents, NEW i, NEW p, NEW n, NEW s
      PROVE  Replay(Q, <<Entry(event, i, p, n, s)>>) = Q
  <2>1. PICK e : e = Entry(event, i, p, n, s)
    OBVIOUS
  <2>2. Replay(Q, <<e>>) = ReadQueue(Q, e)
    BY ReplayOne
  <2>3. ReadQueue(Q, e) = Q
    BY <1>2, <1>3, <2>1
  <2>. QED
    BY <2>1, <2>2, <2>3
<1>4. /\ "OrderSubmitted" \notin QueueEvents /\ "OrderRejected" \notin QueueEvents
      /\ "PoolExhausted" \notin QueueEvents
      /\ "BestBidChanged" \notin QueueEvents /\ "BestAskChanged" \notin QueueEvents
  BY DEF QueueEvents
<1>5. Replay(Q, RejectCancelRecords(id)) = Q
  <2>1. PICK a, b : /\ a = Entry("OrderSubmitted", id, 0, 0, "Buy")
                    /\ b = Entry("OrderRejected", id, 0, 0, "Buy")
    OBVIOUS
  <2>2. ReadQueue(Q, a) = Q /\ ReadQueue(Q, b) = Q
    BY <1>2, <1>4, <2>1
  <2>3. RejectCancelRecords(id) = <<a, b>>
    BY <2>1 DEF RejectCancelRecords
  <2>4. Replay(Q, <<a, b>>) = ReadQueue(ReadQueue(Q, a), b)
    BY ReplayTwo
  <2>. QED
    BY <2>2, <2>3, <2>4
<1>6. Replay(Q, AcceptRecords(id, price, quantity, side)) = Q
  BY <1>3, <1>4 DEF AcceptRecords
<1>7. Replay(Q, RejectAddRecords(id, type, price, quantity, side)) = Q
  <2>1. PICK p : p = IF AddVerdict(id, type, price, quantity, side) = "MarketOnEmptyBook" THEN 0 ELSE price
    OBVIOUS
  <2>2. RejectAddRecords(id, type, price, quantity, side) = <<Entry("OrderRejected", id, p, quantity, side)>>
    BY <2>1 DEF RejectAddRecords
  <2>. QED
    BY <1>3, <1>4, <2>2
<1>8. Replay(Q, LevelRecords) = Q
  <2>1. PICK s, p, kind : /\ s = MakerSide /\ p = best'[MakerSide].price
                          /\ kind = IF s = "Buy" THEN "BestBidChanged" ELSE "BestAskChanged"
    OBVIOUS
  <2>2. LevelRecords = <<>> \/ LevelRecords = <<Entry(kind, 0, p, 0, s)>>
    BY <2>1 DEF LevelRecords, BestRecord
  <2>3. Replay(Q, <<Entry(kind, 0, p, 0, s)>>) = Q
    BY <1>3, <1>4, <2>1
  <2>4. Replay(Q, <<>>) = Q
    BY ReplayNone
  <2>. QED
    BY <2>2, <2>3, <2>4
<1>9. Replay(Q, ExhaustedRecords) = Q
  <2>1. PICK i, p, n, s : i = taker.id /\ p = taker.price /\ n = remaining /\ s = taker.side
    OBVIOUS
  <2>2. ExhaustedRecords = <<Entry("PoolExhausted", i, p, n, s)>>
    BY <2>1 DEF ExhaustedRecords
  <2>. QED
    BY <1>3, <1>4, <2>2
<1>. QED
  BY <1>1, <1>5, <1>6, <1>7, <1>8, <1>9

\* Recording entries changes nothing of the book.
LEMMA RecordedIsNext ==
  ASSUME Inv, [RecordedNext]_RecordedVars
  PROVE  [Next]_vars
<1>1. CASE RecordedCalls
  BY <1>1 DEF RecordedCalls, Next, ClientCalls
<1>2. CASE RecordedEngine
  <2>1. MatchStep \/ AddFilled \/ AddExhausted \/ AddRested
    BY <1>2 DEF RecordedEngine, MatchStep
  <2>2. MatchStep => taker.side \in Sides
    <3>1. SUFFICES ASSUME MatchStep PROVE taker.side \in Sides
      OBVIOUS
    <3>2. PICK pos, acc, rank : BookInv(pos, acc, rank)
      BY DEF Inv
    <3>3. pc \in {"match", "walk", "level"}
      BY <3>1 DEF MatchStep, EnterLevel, FillSingle, FillChain, ChainDone, FillSlowDrain,
                  FillSlowPartial, SlowDone, LevelDone, OnTrade
    <3>. QED
      BY <3>2, <3>3, Matching
  <2>3. EngineStep
    BY <2>1, <2>2 DEF EngineStep, MatchBuy, MatchSell, Sides
  <2>. QED
    BY <2>3 DEF Next
<1>3. CASE ClientResumes
  BY <1>3 DEF Next
<1>4. CASE UNCHANGED RecordedVars
  BY <1>4 DEF RecordedVars
<1>. QED
  BY <1>1, <1>2, <1>3, <1>4 DEF RecordedNext

\* The book that records is the book: what is proved of Spec holds of it.
\* In every state of the invariant a step that records is a step of Next.
THEOREM RecordingDisturbsNothing == RecordedSpec => Spec
<1>1. RecordedInit => Init /\ Inv
  BY InitInv DEF RecordedInit
<1>2. Inv /\ [RecordedNext]_RecordedVars => Inv' /\ [Next]_vars
  BY RecordedIsNext, NextInv
<1>. QED
  BY <1>1, <1>2, PTL DEF RecordedSpec, Spec

\* Every step of the engine records what it does to the queues.
LEMMA JournalStep ==
  ASSUME QueueEvents \subseteq Followed, Inv, Inv', JournalReplays, [RecordedNext]_RecordedVars
  PROVE  JournalReplays'
<1>1. PICK pos, acc, rank : BookInv(pos, acc, rank)
  BY DEF Inv
<1>2. Viewed
  BY InvViewed
<1>3. Viewed'
  BY ViewAlways, PTL
<1>4. ASSUME NEW new, Records(new), Replay(AbstractQueue, new) = AbstractQueue'
      PROVE  JournalReplays'
  BY <1>4 DEF JournalReplays, Records, Replay
<1>5. ASSUME UNCHANGED replayed, AbstractQueue' = AbstractQueue
      PROVE  JournalReplays'
  BY <1>5 DEF JournalReplays
<1>6. ASSUME UNCHANGED Reference!vars PROVE AbstractQueue' = AbstractQueue
  BY <1>6 DEF Reference!vars
<1>7. ASSUME NEW id \in CancelIds, CancelOrder(id), Records(CancelRecords(id))
      PROVE  JournalReplays'
  <2>1. id \in 1 .. MaxOrderId
    <3>1. CancelVerdict(id) = "Accepted"
      BY <1>7, Zenon DEF CancelOrder
    <3>. QED
      BY <3>1, BookAssumption DEF CancelVerdict
  <2>2. Replay(AbstractQueue, CancelRecords(id)) = AbstractQueue'
    BY <1>1, <1>2, <1>3, <1>7, <2>1, CancelRecorded
  <2>. QED
    BY <1>4, <1>7, <2>2
<1>8. ASSUME NEW id \in CancelIds, RejectCancel(id), Records(RejectCancelRecords(id))
      PROVE  JournalReplays'
  <2>1. AbstractQueue' = AbstractQueue
    BY <1>2, <1>3, <1>8, ReturnIs DEF RejectCancel
  <2>2. Replay(AbstractQueue, RejectCancelRecords(id)) = AbstractQueue
    BY OthersRecorded
  <2>. QED
    BY <1>4, <1>8, <2>1, <2>2
<1>9. ASSUME NEW id \in AddIds, NEW type \in {"Limit", "Market"}, NEW price \in OrderPrices,
             NEW quantity \in Quantities, NEW side \in Sides,
             AcceptAdd(id, type, price, quantity, side),
             Records(AcceptRecords(id, price, quantity, side))
      PROVE  JournalReplays'
  <2>1. AbstractQueue' = AbstractQueue
    <3>1. id \in Nat
      BY BookAssumption
    <3>2. Reference!AcceptAdd(id, type, price, quantity, side)
      BY <1>1, <1>2, <1>3, <1>9, <3>1, AcceptAddIs
    <3>. QED
      BY <3>2 DEF Reference!AcceptAdd
  <2>2. Replay(AbstractQueue, AcceptRecords(id, price, quantity, side)) = AbstractQueue
    BY OthersRecorded
  <2>. QED
    BY <1>4, <1>9, <2>1, <2>2
<1>10. ASSUME NEW id \in AddIds, NEW type \in {"Limit", "Market"}, NEW price \in OrderPrices,
              NEW quantity \in Quantities, NEW side \in Sides,
              RejectAdd(id, type, price, quantity, side),
              Records(RejectAddRecords(id, type, price, quantity, side))
       PROVE  JournalReplays'
  <2>1. AbstractQueue' = AbstractQueue
    <3>1. id \in Nat
      BY BookAssumption
    <3>2. Reference!RejectAdd(id, type, price, quantity, side)
      BY <1>1, <1>2, <1>3, <1>10, <3>1, RejectAddIs
    <3>. QED
      BY <3>2 DEF Reference!RejectAdd
  <2>2. Replay(AbstractQueue, RejectAddRecords(id, type, price, quantity, side)) = AbstractQueue
    BY OthersRecorded
  <2>. QED
    BY <1>4, <1>10, <2>1, <2>2
<1>11. CASE (FillSingle \/ FillChain \/ FillSlowDrain \/ FillSlowPartial) /\ Records(FillRecords)
  <2>1. OnTrade
    BY <1>11 DEF FillSingle, FillChain, FillSlowDrain, FillSlowPartial
  <2>2. Reference!AfterTrade
    BY <1>1, <1>2, <1>3, <1>11, SingleIsTrade, ChainIsTrade, SlowDrainIsTrade, PartialIsTrade
  <2>3. Replay(AbstractQueue, FillRecords) = AbstractQueue'
    BY <1>1, <1>2, <2>1, <2>2, FillRecorded
  <2>. QED
    BY <1>4, <1>11, <2>3
<1>12. CASE LevelDone /\ Records(LevelRecords)
  <2>1. AbstractQueue' = AbstractQueue
    BY <1>2, <1>3, <1>6, <1>12, LeavesLevel
  <2>2. Replay(AbstractQueue, LevelRecords) = AbstractQueue
    BY OthersRecorded
  <2>. QED
    BY <1>4, <1>12, <2>1, <2>2
<1>13. CASE AddExhausted /\ Records(ExhaustedRecords)
  <2>1. AbstractQueue' = AbstractQueue
    <3>1. Reference!AddExhausted
      BY <1>1, <1>2, <1>3, <1>13, AddExhaustedIs
    <3>. QED
      BY <3>1 DEF Reference!AddExhausted
  <2>2. Replay(AbstractQueue, ExhaustedRecords) = AbstractQueue
    BY OthersRecorded
  <2>. QED
    BY <1>4, <1>13, <2>1, <2>2
<1>14. CASE AddRested /\ Records(RestRecords)
  <2>1. Replay(AbstractQueue, RestRecords) = AbstractQueue'
    BY <1>1, <1>2, <1>3, <1>14, RestRecorded
  <2>. QED
    BY <1>4, <1>14, <2>1
<1>15. CASE (EnterLevel \/ ChainDone \/ SlowDone \/ AddFilled) /\ UNCHANGED readerVars
  <2>1. ASSUME EnterLevel PROVE AbstractQueue' = AbstractQueue
    BY <1>1, <1>2, <1>3, <2>1, EnterLevelIs DEF Reference!EnterLevel
  <2>2. ASSUME ChainDone PROVE AbstractQueue' = AbstractQueue
    BY <1>1, <1>2, <1>3, <1>6, <2>2, SpliceUnseen
  <2>3. ASSUME SlowDone PROVE AbstractQueue' = AbstractQueue
    BY <1>2, <1>3, <1>6, <2>3, LeavesLevel
  <2>4. ASSUME AddFilled PROVE AbstractQueue' = AbstractQueue
    BY <1>1, <1>2, <1>3, <2>4, AddFilledIs DEF Reference!AddFilled
  <2>. QED
    BY <1>5, <1>15, <2>1, <2>2, <2>3, <2>4 DEF readerVars
<1>16. CASE ClientResumes /\ UNCHANGED readerVars
  <2>1. AbstractQueue' = AbstractQueue
    BY <1>2, <1>3, <1>16, ResumesIs DEF Reference!ClientResumes
  <2>. QED
    BY <1>5, <1>16, <2>1 DEF readerVars
<1>17. CASE UNCHANGED RecordedVars
  BY <1>2, <1>3, <1>5, <1>6, <1>17, StutterIs DEF RecordedVars, readerVars
<1>. QED
  BY <1>7, <1>8, <1>9, <1>10, <1>11, <1>12, <1>13, <1>14, <1>15, <1>16, <1>17
     DEF RecordedNext, RecordedCalls, RecordedEngine

(***************************************************************************)
(* The journal's entries alone rebuild the book: a reader that follows the *)
(* events about resting orders knows, after every step of every call, each *)
(* queue with its orders and their remaining quantities in their places,   *)
(* for every price range, capacity, word width and set of arguments.       *)
(***************************************************************************)
THEOREM JournalRebuildsBook ==
  ASSUME QueueEvents \subseteq Followed
  PROVE  RecordedSpec => []JournalReplays
<1>1. RecordedInit => Inv /\ JournalReplays
  <2>1. SUFFICES ASSUME RecordedInit PROVE Inv /\ JournalReplays
    OBVIOUS
  <2>2. Inv /\ Reference!Init
    BY <2>1, InitInv, InitIs DEF RecordedInit
  <2>. QED
    BY <2>1, <2>2, ReferenceSides DEF RecordedInit, Reference!Init, JournalReplays
<1>2. Inv /\ [RecordedNext]_RecordedVars => Inv'
  BY RecordedIsNext, NextInv
<1>3. Inv /\ Inv' /\ JournalReplays /\ [RecordedNext]_RecordedVars => JournalReplays'
  BY JournalStep
<1>. QED
  BY <1>1, <1>2, <1>3, PTL DEF RecordedSpec
=============================================================================
