-------------------------- MODULE EntryGateProofs --------------------------
(***************************************************************************)
(* Proofs about the journal's ring, about the entry gate, and about the    *)
(* two together.                                                           *)
(***************************************************************************)
EXTENDS EntryGate, FiniteSetsExt, WellFoundedInduction, SequenceTheorems, TLAPS

-----------------------------------------------------------------------------
(***************************************************************************)
(* The ring of Journal.h for every capacity and any number of records.     *)
(* WindowIsSuffix is not inductive: it says nothing while an entry is      *)
(* being recorded, and nothing of where in the ring an entry lies.  The    *)
(* invariant Retained places each of the last `capacity' entries of the    *)
(* log at its position modulo the capacity.                                *)
(***************************************************************************)
RingType ==
  /\ capacity \in Nat \ {0}
  /\ mask = capacity - 1
  /\ pos \in Nat
  /\ entries \in [0 .. capacity - 1 -> Entries \cup {Blank}]
  /\ log \in Seq(Entries)

\* At most one writer, which has stored one entry more than pos counts.
OneWriter ==
  \/ storing = {} /\ Len(log) = pos
  \/ (\E w \in Writers : storing = {w}) /\ Len(log) = pos + 1

Retained ==
  \A p \in Nat : p < Len(log) /\ Len(log) <= p + capacity =>
    entries[p % capacity] = log[p + 1]

RingInv == RingType /\ OneWriter /\ Retained

-----------------------------------------------------------------------------
\* A bounded set that is not empty has a greatest element.
LEMMA GreatestIn ==
  ASSUME NEW b \in Nat, NEW S \in SUBSET (0 .. b), S # {}
  PROVE  \E x \in S : \A y \in S : x >= y
<1> DEFINE T == {k \in Nat : b - k \in S}
<1>1. T \in SUBSET Nat /\ T # {}
  <2>1. PICK s \in S : TRUE
    OBVIOUS
  <2>2. b - s \in T
    OBVIOUS
  <2>. QED
    BY <2>2
<1>2. PICK x \in T : \A y \in T : ~(<<y, x>> \in OpToRel(<, Nat))
  <2>. HIDE DEF T
  <2>. QED
    BY <1>1, NatLessThanWellFounded, WFMin
<1>3. \A y \in T : x <= y
  <2>. SUFFICES ASSUME NEW y \in T PROVE x <= y
    OBVIOUS
  <2>1. ~(<<y, x>> \in {ss \in Nat \X Nat : ss[1] < ss[2]})
    BY <1>2 DEF OpToRel
  <2>. QED
    BY <2>1
<1>4. b - x \in S /\ \A y \in S : b - y \in T
  OBVIOUS
<1>. QED
  BY <1>3, <1>4

\* std::bit_floor of a positive number is positive.
LEMMA BitFloorPositive ==
  ASSUME NEW n \in Nat \ {0}
  PROVE  BitFloor(n) \in Nat \ {0}
<1> DEFINE S == {p \in 1 .. n : \E k \in 0 .. n : p = 2 ^ k}
<1>1. 1 \in S
  <2>1. 1 = 2 ^ 0
    OBVIOUS
  <2>2. 0 \in 0 .. n /\ 1 \in 1 .. n
    OBVIOUS
  <2>3. \E k \in 0 .. n : 1 = 2 ^ k
    BY <2>1, <2>2, Zenon
  <2>. QED
    BY <2>2, <2>3, Zenon
<1>2. n \in Nat /\ S \in SUBSET (0 .. n) /\ S # {}
  BY <1>1
<1>. HIDE DEF S
<1>3. Max(S) \in S
  BY <1>2, GreatestIn DEF Max
<1>4. Max(S) \in 1 .. n
  BY <1>3 DEF S
<1>5. BitFloor(n) = Max(S)
  BY DEF BitFloor, S
<1>. QED
  BY <1>4, <1>5

\* Two positions less than a capacity apart lie in different entries.
LEMMA DistinctEntries ==
  ASSUME NEW c \in Nat \ {0}, NEW p \in Nat, NEW q \in Nat, p < q, q < p + c
  PROVE  p % c # q % c
<1> SUFFICES ASSUME p % c = q % c PROVE FALSE
  OBVIOUS
<1>0. p \div c \in Nat /\ q \div c \in Nat
  OBVIOUS
<1>1. PICK a \in Nat : a = p \div c
  BY <1>0
<1>2. PICK b \in Nat : b = q \div c
  BY <1>0
<1>3. PICK r \in Nat : r = p % c
  OBVIOUS
<1>4. p = c * a + r /\ q = c * b + r
  BY <1>1, <1>2, <1>3
<1>5. CASE a >= b
  <2>1. c * a >= c * b
    BY <1>5
  <2>. QED
    BY <1>4, <2>1
<1>6. CASE a + 1 <= b
  <2>1. c * (a + 1) <= c * b
    BY <1>6
  <2>2. c * (a + 1) = c * a + c
    OBVIOUS
  <2>. QED
    BY <1>4, <2>1, <2>2
<1>. QED
  BY <1>5, <1>6

\* The index of a position is one of the ring's entries.
LEMMA IndexInRing ==
  ASSUME RingType, NEW p \in Nat
  PROVE  Index(p) = p % capacity /\ Index(p) \in 0 .. capacity - 1
BY DEF RingType, Index

-----------------------------------------------------------------------------
\* The constructor makes a ring that has retained nothing yet.
LEMMA InitRing == JournalInit => RingInv
<1> SUFFICES ASSUME JournalInit PROVE RingInv
  OBVIOUS
<1>1. PICK requested \in Requested :
        /\ entries = RingOf(requested).entries
        /\ capacity = RingOf(requested).capacity
        /\ mask = RingOf(requested).mask
  BY DEF JournalInit
<1>2. PICK n \in Nat \ {0} : n = IF requested = 0 THEN 1 ELSE requested
  BY JournalAssumption
<1>3. PICK c \in Nat \ {0} : c = BitFloor(n)
  BY BitFloorPositive
<1>4. capacity = c /\ mask = c - 1 /\ entries = [i \in 0 .. c - 1 |-> Blank]
  BY <1>1, <1>2, <1>3 DEF RingOf
<1>5. pos = 0 /\ storing = {} /\ log = <<>>
  BY DEF JournalInit
<1>6. RingType
  BY <1>4, <1>5 DEF RingType
<1>7. OneWriter /\ Retained
  BY <1>5 DEF OneWriter, Retained
<1>. QED
  BY <1>6, <1>7 DEF RingInv

\* Storing overwrites only an entry that is no longer retained.
LEMMA StoreRing ==
  ASSUME RingInv, NEW w \in Writers, NEW e \in Entries, storing = {}, Store(w, e)
  PROVE  RingInv'
<1>1. /\ entries' = [entries EXCEPT ![Index(pos)] = e]
      /\ storing' = {w}
      /\ log' = Append(log, e)
      /\ capacity' = capacity /\ mask' = mask /\ pos' = pos
  BY DEF Store
<1>2. RingType /\ Retained /\ Len(log) = pos
  BY DEF RingInv, OneWriter
<1>3. Index(pos) = pos % capacity /\ Index(pos) \in 0 .. capacity - 1
  BY <1>2, IndexInRing DEF RingType
<1>4. Len(log') = pos + 1 /\ log'[pos + 1] = e /\ \A p \in Nat : p < pos => log'[p + 1] = log[p + 1]
  BY <1>1, <1>2 DEF RingType
<1>5. RingType'
  BY <1>1, <1>2, <1>3 DEF RingType
<1>6. OneWriter'
  BY <1>1, <1>4 DEF OneWriter
<1>7. Retained'
  <2> SUFFICES ASSUME NEW p \in Nat, p < pos + 1, pos + 1 <= p + capacity
               PROVE  entries'[p % capacity] = log'[p + 1]
    BY <1>1, <1>4 DEF Retained
  <2>1. CASE p = pos
    BY <1>1, <1>2, <1>3, <1>4, <2>1 DEF RingType
  <2>2. CASE p < pos
    <3>0. capacity \in Nat \ {0} /\ pos \in Nat /\ pos < p + capacity
      BY <1>2 DEF RingType
    <3>1. p % capacity # pos % capacity
      BY <2>2, <3>0, DistinctEntries
    <3>2. p % capacity \in 0 .. capacity - 1
      BY <1>2 DEF RingType
    <3>3. entries'[p % capacity] = entries[p % capacity]
      BY <1>1, <1>2, <1>3, <3>1, <3>2 DEF RingType
    <3>4. entries[p % capacity] = log[p + 1]
      <4>1. p < Len(log) /\ Len(log) <= p + capacity
        BY <1>2, <2>2, <3>0
      <4>. QED
        BY <1>2, <4>1 DEF Retained
    <3>. QED
      BY <1>4, <2>2, <3>3, <3>4
  <2>. QED
    BY <1>2, <2>1, <2>2 DEF RingType
<1>. QED
  BY <1>5, <1>6, <1>7 DEF RingInv

\* Every step the contract allows keeps the ring.
LEMMA RingStep ==
  ASSUME RingInv, [JournalNext]_journalVars
  PROVE  RingInv'
<1>1. ASSUME NEW w \in Writers, NEW e \in Entries, storing = {}, Store(w, e)
      PROVE  RingInv'
  BY <1>1, StoreRing
<1>2. ASSUME NEW w \in Writers, Bump(w)
      PROVE  RingInv'
  <2>1. /\ pos' = pos + 1 /\ storing' = storing \ {w} /\ w \in storing
        /\ entries' = entries /\ capacity' = capacity /\ mask' = mask /\ log' = log
    BY <1>2 DEF Bump
  <2>2. storing = {w} /\ Len(log) = pos + 1
    BY <2>1 DEF RingInv, OneWriter
  <2>. QED
    BY <2>1, <2>2 DEF RingInv, RingType, OneWriter, Retained
<1>3. ASSUME storing = {}, Clear
      PROVE  RingInv'
  <2>1. /\ pos' = 0 /\ log' = <<>> /\ storing' = {}
        /\ entries' = entries /\ capacity' = capacity /\ mask' = mask
    BY <1>3 DEF Clear
  <2>2. Len(log') = 0
    BY <2>1
  <2>. QED
    BY <2>1, <2>2 DEF RingInv, RingType, OneWriter, Retained
<1>4. CASE UNCHANGED journalVars
  BY <1>4 DEF journalVars, RingInv, RingType, OneWriter, Retained
<1>. QED
  BY <1>1, <1>2, <1>3, <1>4 DEF JournalNext

\* What the ring has retained is what at() and dump() show.
LEMMA RingShowsSuffix == RingInv => WindowIsSuffix
<1> SUFFICES ASSUME RingInv, storing = {}, NEW max_lines \in 0 .. capacity
             PROVE  LET shown == IF max_lines < Size THEN max_lines ELSE Size
                    IN  Dump(max_lines) = SubSeq(log, Len(log) - shown + 1, Len(log))
  BY DEF WindowIsSuffix
<1>1. RingType /\ Retained /\ Len(log) = pos
  BY DEF RingInv, OneWriter
<1>2. PICK size \in Nat : size = Size /\ size <= pos /\ size <= capacity
  BY <1>1 DEF Size, RingType
<1>3. PICK shown \in Nat : shown = (IF max_lines < Size THEN max_lines ELSE Size) /\ shown <= size
  BY <1>1, <1>2 DEF RingType
<1>4. PICK start \in Nat : start = (IF Size > max_lines THEN Size - max_lines ELSE 0) /\ size - start = shown
  <2>1. CASE size > max_lines
    BY <1>1, <1>2, <1>3, <2>1 DEF RingType
  <2>2. CASE ~(size > max_lines)
    BY <1>1, <1>2, <1>3, <2>2 DEF RingType
  <2>. QED
    BY <2>1, <2>2
<1>5. Dump(max_lines) = [k \in 1 .. shown |-> At(start + k - 1)]
  BY <1>2, <1>4 DEF Dump
<1>6. SubSeq(log, Len(log) - shown + 1, Len(log)) = [k \in 1 .. shown |-> log[pos - shown + k]]
  BY <1>1, <1>2, <1>3 DEF RingType
<1>7. \A k \in 1 .. shown : At(start + k - 1) = log[pos - shown + k]
  <2> SUFFICES ASSUME NEW k \in 1 .. shown
               PROVE  At(start + k - 1) = log[pos - shown + k]
    OBVIOUS
  <2>1. PICK p \in Nat : p = pos - shown + k - 1
    BY <1>1, <1>2, <1>3 DEF RingType
  <2>2. pos - size + (start + k - 1) = p
    BY <1>1, <1>2, <1>3, <1>4, <2>1 DEF RingType
  <2>3. At(start + k - 1) = entries[p % capacity]
    BY <1>1, <1>2, <2>2, IndexInRing DEF At
  <2>4. p < Len(log) /\ Len(log) <= p + capacity
    BY <1>1, <1>2, <1>3, <2>1 DEF RingType
  <2>5. entries[p % capacity] = log[p + 1]
    BY <1>1, <2>4 DEF Retained
  <2>6. p + 1 = pos - shown + k
    BY <1>1, <2>1 DEF RingType
  <2>. QED
    BY <2>3, <2>5, <2>6
<1>8. [k \in 1 .. shown |-> At(start + k - 1)] = [k \in 1 .. shown |-> log[pos - shown + k]]
  BY <1>7
<1>9. Dump(max_lines) = SubSeq(log, Len(log) - shown + 1, Len(log))
  BY <1>5, <1>6, <1>8
<1>. QED
  BY <1>3, <1>9

(***************************************************************************)
(* For every capacity asked of the constructor and however many entries    *)
(* are recorded: while writers keep the contract of the ring, at() and     *)
(* dump() show the most recent entries, in order, and none from before the *)
(* last clear().                                                           *)
(***************************************************************************)
THEOREM JournalShowsSuffix == JournalSpec => []WindowIsSuffix
<1>. QED
  BY InitRing, RingStep, RingShowsSuffix, PTL DEF JournalSpec

-----------------------------------------------------------------------------
(***************************************************************************)
(* The entry gate for any set of threads and any nesting of calls.  The    *)
(* invariant adds to OwnerAlone and LatchExact that a call which made      *)
(* another one is inside on_trade, and that an entry is being recorded     *)
(* exactly while the owner's call is at "record".                          *)
(***************************************************************************)
GateType ==
  /\ calls \in [Threads -> Seq(Calls)]
  /\ in_public_entry \in BOOLEAN
  /\ handler \in Handlers
  /\ installed \in Handlers
  /\ overlapped \in BOOLEAN
  /\ aborted \in BOOLEAN

\* A call that made another call is inside on_trade.
Nested ==
  \A t \in Threads : \A k \in 1 .. Len(calls[t]) :
    k < Len(calls[t]) => calls[t][k].at = "on_trade"

StoringExact ==
  /\ storing \subseteq {Owner}
  /\ Owner \in storing <=> calls[Owner] # <<>> /\ calls[Owner][1].at = "record"

GateInv == GateType /\ Nested /\ OwnerAlone /\ LatchExact /\ StoringExact

(***************************************************************************)
(* The three things that happen to the calls of a thread: its innermost    *)
(* call moves on, it makes a call, its innermost call returns.             *)
(***************************************************************************)
OthersStay(t) == \A u \in Threads : u # t => calls'[u] = calls[u]

Moved(t, c) ==
  /\ calls' \in [Threads -> Seq(Calls)]
  /\ Len(calls'[t]) = Len(calls[t])
  /\ calls'[t][Len(calls[t])] = c
  /\ \A k \in 1 .. Len(calls[t]) : k < Len(calls[t]) => calls'[t][k] = calls[t][k]
  /\ OthersStay(t)

Pushed(t, c) ==
  /\ calls' \in [Threads -> Seq(Calls)]
  /\ Len(calls'[t]) = Len(calls[t]) + 1
  /\ calls'[t][Len(calls[t]) + 1] = c
  /\ \A k \in 1 .. Len(calls[t]) : calls'[t][k] = calls[t][k]
  /\ OthersStay(t)

Left(t) ==
  /\ calls' \in [Threads -> Seq(Calls)]
  /\ Len(calls'[t]) = Len(calls[t]) - 1
  /\ \A k \in 1 .. Len(calls[t]) - 1 : calls'[t][k] = calls[t][k]
  /\ OthersStay(t)

-----------------------------------------------------------------------------
\* A stack that is not empty has a positive length and a top.
LEMMA TopOfStack ==
  ASSUME GateType, NEW t \in Threads, calls[t] # <<>>
  PROVE  Len(calls[t]) \in Nat /\ Len(calls[t]) >= 1 /\ Top(t) \in Calls
BY DEF GateType, Top

\* A number of calls that is neither none nor one.
LEMMA MoreThanOne ==
  ASSUME NEW n \in Nat, n >= 1, n # 1
  PROVE  1 \in 1 .. n /\ 1 < n /\ 1 \in 1 .. n - 1
OBVIOUS

\* Replacing the top of a stack moves the innermost call.
LEMMA TopMoves ==
  ASSUME GateType, NEW t \in Threads, calls[t] # <<>>, NEW c \in Calls,
         calls' = [calls EXCEPT ![t] = [calls[t] EXCEPT ![Len(calls[t])] = c]]
  PROVE  Moved(t, c)
<1>1. Len(calls[t]) \in 1 .. Len(calls[t])
  BY TopOfStack
<1>2. calls[t] \in Seq(Calls) /\ calls \in [Threads -> Seq(Calls)]
  BY DEF GateType
<1> DEFINE s == [calls[t] EXCEPT ![Len(calls[t])] = c]
<1>3. /\ s \in Seq(Calls)
      /\ Len(s) = Len(calls[t])
      /\ \A k \in 1 .. Len(calls[t]) : s[k] = IF k = Len(calls[t]) THEN c ELSE calls[t][k]
  BY <1>1, <1>2, ExceptSeq
<1>4. calls' = [calls EXCEPT ![t] = s]
  OBVIOUS
<1>. HIDE DEF s
<1>5. calls'[t] = s /\ OthersStay(t) /\ calls' \in [Threads -> Seq(Calls)]
  BY <1>2, <1>3, <1>4 DEF OthersStay
<1>. QED
  BY <1>1, <1>3, <1>5 DEF Moved

\* Goto changes the stage of the innermost call and nothing else.
LEMMA GotoMoves ==
  ASSUME GateType, NEW t \in Threads, calls[t] # <<>>, NEW stage \in Stages, Goto(t, stage)
  PROVE  /\ [Top(t) EXCEPT !.at = stage] \in Calls
         /\ Moved(t, [Top(t) EXCEPT !.at = stage])
<1>1. [Top(t) EXCEPT !.at = stage] \in Calls
  BY TopOfStack DEF Calls
<1>2. calls' = [calls EXCEPT ![t] = [calls[t] EXCEPT ![Len(calls[t])] = [Top(t) EXCEPT !.at = stage]]]
  BY DEF Goto, Top, GateType
<1>. QED
  BY <1>1, <1>2, TopMoves

\* A sequence without its last element.
LEMMA DropLast ==
  ASSUME NEW S, NEW q \in Seq(S), NEW n \in Nat, Len(q) = n + 1
  PROVE  /\ SubSeq(q, 1, n) \in Seq(S)
         /\ Len(SubSeq(q, 1, n)) = n
         /\ \A k \in 1 .. n : SubSeq(q, 1, n)[k] = q[k]
<1>1. \A i \in 1 .. n : q[i] \in S
  OBVIOUS
<1>2. SubSeq(q, 1, n) \in Seq(S)
  BY <1>1, SubSeqProperties
<1>. QED
  BY <1>2

\* Leave drops the innermost call.
LEMMA LeaveLeft ==
  ASSUME GateType, NEW t \in Threads, calls[t] # <<>>, Leave(t)
  PROVE  Left(t)
<1>1. Len(calls[t]) \in Nat /\ Len(calls[t]) >= 1
  BY TopOfStack
<1>2. calls[t] \in Seq(Calls) /\ calls \in [Threads -> Seq(Calls)]
  BY DEF GateType
<1> DEFINE s == SubSeq(calls[t], 1, Len(calls[t]) - 1)
<1>3. Len(calls[t]) - 1 \in Nat /\ Len(calls[t]) = (Len(calls[t]) - 1) + 1
  BY <1>1
<1>4. /\ s \in Seq(Calls)
      /\ Len(s) = Len(calls[t]) - 1
      /\ \A k \in 1 .. Len(calls[t]) - 1 : s[k] = calls[t][k]
  BY <1>2, <1>3, DropLast
<1>5. calls' = [calls EXCEPT ![t] = s]
  BY DEF Leave
<1>. HIDE DEF s
<1>6. calls'[t] = s /\ OthersStay(t) /\ calls' \in [Threads -> Seq(Calls)]
  BY <1>2, <1>4, <1>5 DEF OthersStay
<1>. QED
  BY <1>4, <1>6 DEF Left

\* Call adds a call at the gate.
LEMMA CallPushed ==
  ASSUME GateType, NEW t \in Threads, NEW entry \in EntryPoints, Call(t, entry)
  PROVE  Pushed(t, [entry |-> entry, at |-> "gate", got |-> "none"])
<1> DEFINE c == [entry |-> entry, at |-> "gate", got |-> "none"]
<1>1. c \in Calls
  BY DEF Calls, Stages, Handlers
<1>2. calls[t] \in Seq(Calls) /\ calls \in [Threads -> Seq(Calls)]
  BY DEF GateType
<1>3. calls' = [calls EXCEPT ![t] = Append(calls[t], c)]
  BY DEF Call
<1>. HIDE DEF c
<1>4. /\ Append(calls[t], c) \in Seq(Calls)
      /\ Len(Append(calls[t], c)) = Len(calls[t]) + 1
      /\ \A k \in 1 .. Len(calls[t]) : Append(calls[t], c)[k] = calls[t][k]
      /\ Append(calls[t], c)[Len(calls[t]) + 1] = c
  BY <1>1, <1>2, AppendProperties
<1>5. calls'[t] = Append(calls[t], c) /\ OthersStay(t) /\ calls' \in [Threads -> Seq(Calls)]
  BY <1>2, <1>3, <1>4 DEF OthersStay
<1>6. Pushed(t, c)
  BY <1>4, <1>5 DEF Pushed
<1>. QED
  BY <1>6 DEF c

-----------------------------------------------------------------------------
(***************************************************************************)
(* Where a thread can be.                                                  *)
(***************************************************************************)
\* A call behind the gate is the owner's only one.
LEMMA BehindIsOwner ==
  ASSUME GateInv, NEW t \in Threads, calls[t] # <<>>, Top(t).at \in Behind
  PROVE  t = Owner /\ Len(calls[t]) = 1
<1>1. Len(calls[t]) \in Nat /\ Len(calls[t]) >= 1
  BY TopOfStack DEF GateInv
<1>2. Len(calls[t]) \in 1 .. Len(calls[t])
  BY <1>1
<1>. QED
  BY <1>2 DEF GateInv, OwnerAlone, Top

\* A call made by another one is the owner's, and the other is in on_trade.
LEMMA InnerIsOwner ==
  ASSUME GateInv, NEW t \in Threads, calls[t] # <<>>, Len(calls[t]) # 1
  PROVE  t = Owner /\ calls[t][1].at = "on_trade"
<1>1. Len(calls[t]) \in Nat /\ Len(calls[t]) >= 1
  BY TopOfStack DEF GateInv
<1>2. 1 \in 1 .. Len(calls[t]) /\ 1 < Len(calls[t])
  BY <1>1, MoreThanOne
<1>3. calls[t][1].at = "on_trade"
  BY <1>2 DEF GateInv, Nested
<1>. QED
  BY <1>2, <1>3 DEF GateInv, OwnerAlone, Behind

\* The calls' part of the invariant when a call outside the gate moves on.
LEMMA OutsideMoves ==
  ASSUME GateInv, NEW t \in Threads, calls[t] # <<>>, NEW c \in Calls, Moved(t, c),
         Top(t).at \notin Behind, c.at \notin Behind,
         in_public_entry' = in_public_entry, storing' = storing
  PROVE  (Nested /\ OwnerAlone /\ LatchExact /\ StoringExact)'
<1>1. Len(calls[t]) \in Nat /\ Len(calls[t]) >= 1
  BY TopOfStack DEF GateInv
<1>2. Nested'
  BY <1>1 DEF GateInv, Nested, Moved, OthersStay
<1>3. OwnerAlone'
  BY <1>1 DEF GateInv, OwnerAlone, Moved, OthersStay
<1>4. /\ calls'[Owner] # <<>> <=> calls[Owner] # <<>>
      /\ calls[Owner] # <<>> =>
           /\ calls'[Owner][1].at \in Behind <=> calls[Owner][1].at \in Behind
           /\ calls'[Owner][1].at = "record" <=> calls[Owner][1].at = "record"
  <2>1. CASE t # Owner
    BY <2>1, GateAssumption DEF Moved, OthersStay
  <2>2. CASE t = Owner /\ Len(calls[t]) = 1
    BY <1>1, <2>2 DEF Moved, Top, Behind, GateInv, GateType
  <2>3. CASE t = Owner /\ Len(calls[t]) # 1
    <3>1. 1 \in 1 .. Len(calls[t]) /\ 1 < Len(calls[t])
      BY <1>1, <2>3, MoreThanOne
    <3>2. calls'[t][1] = calls[t][1]
      BY <3>1 DEF Moved
    <3>3. calls'[t] # <<>>
      BY <1>1, <2>3 DEF Moved, GateInv, GateType
    <3>. QED
      BY <2>3, <3>2, <3>3
  <2>. QED
    BY <2>1, <2>2, <2>3
<1>5. LatchExact' /\ StoringExact'
  BY <1>4 DEF GateInv, LatchExact, StoringExact
<1>. QED
  BY <1>2, <1>3, <1>5

\* The calls' part of the invariant when the owner's outermost call moves to or
\* stays behind the gate.
LEMMA OwnerMoves ==
  ASSUME GateInv, calls[Owner] # <<>>, Len(calls[Owner]) = 1, NEW c \in Calls, Moved(Owner, c),
         c.at \in Behind, in_public_entry' = TRUE,
         storing' = IF c.at = "record" THEN {Owner} ELSE {}
  PROVE  (Nested /\ OwnerAlone /\ LatchExact /\ StoringExact)'
<1>1. /\ Len(calls'[Owner]) = 1 /\ calls'[Owner][1] = c
      /\ \A u \in Threads : u # Owner => calls'[u] = calls[u]
  BY DEF Moved, OthersStay
<1>2. calls'[Owner] # <<>>
  BY <1>1
<1>3. Nested'
  <2> SUFFICES ASSUME NEW u \in Threads, NEW k \in 1 .. Len(calls'[u]), k < Len(calls'[u])
               PROVE  calls'[u][k].at = "on_trade"
    BY DEF Nested
  <2>1. u # Owner
    <3> SUFFICES ASSUME u = Owner PROVE FALSE
      OBVIOUS
    <3>1. k \in 1 .. 1 /\ k < 1
      BY <1>1
    <3>. QED
      BY <3>1
  <2>2. calls'[u] = calls[u]
    BY <1>1, <2>1
  <2>. QED
    BY <2>2 DEF GateInv, Nested
<1>4. OwnerAlone'
  BY <1>1 DEF GateInv, OwnerAlone
<1>5. LatchExact' /\ StoringExact'
  BY <1>1, <1>2 DEF LatchExact, StoringExact
<1>. QED
  BY <1>3, <1>4, <1>5

\* A call is made from nowhere, or from on_trade.
LEMMA PushKeeps ==
  ASSUME GateInv, NEW t \in Threads, NEW c \in Calls, Pushed(t, c), c.at = "gate",
         calls[t] # <<>> => Top(t).at = "on_trade",
         in_public_entry' = in_public_entry, storing' = storing
  PROVE  (Nested /\ OwnerAlone /\ LatchExact /\ StoringExact)'
<1>1. Len(calls[t]) \in Nat /\ (calls[t] # <<>> <=> Len(calls[t]) >= 1)
  BY DEF GateInv, GateType
<1>2. Nested'
  <2> SUFFICES ASSUME NEW u \in Threads, NEW k \in 1 .. Len(calls'[u]), k < Len(calls'[u])
               PROVE  calls'[u][k].at = "on_trade"
    BY DEF Nested
  <2>1. CASE u # t
    BY <2>1 DEF GateInv, Nested, Pushed, OthersStay
  <2>2. CASE u = t
    <3>1. k \in 1 .. Len(calls[t]) /\ calls'[t][k] = calls[t][k]
      BY <1>1, <2>2 DEF Pushed
    <3>2. CASE k = Len(calls[t])
      BY <1>1, <2>2, <3>1, <3>2 DEF Top
    <3>3. CASE k < Len(calls[t])
      BY <2>2, <3>1, <3>3 DEF GateInv, Nested
    <3>. QED
      BY <1>1, <3>1, <3>2, <3>3
  <2>. QED
    BY <2>1, <2>2
<1>3. OwnerAlone'
  <2> SUFFICES ASSUME NEW u \in Threads, NEW k \in 1 .. Len(calls'[u]), calls'[u][k].at \in Behind
               PROVE  u = Owner /\ k = 1
    BY DEF OwnerAlone
  <2>1. CASE u # t
    BY <2>1 DEF GateInv, OwnerAlone, Pushed, OthersStay
  <2>2. CASE u = t
    <3>1. k # Len(calls[t]) + 1
      BY <2>2 DEF Pushed, Behind
    <3>2. k \in 1 .. Len(calls[t]) /\ calls'[t][k] = calls[t][k]
      BY <1>1, <2>2, <3>1 DEF Pushed
    <3>. QED
      BY <2>2, <3>2 DEF GateInv, OwnerAlone
  <2>. QED
    BY <2>1, <2>2
<1>4. /\ calls[Owner] # <<>> => calls'[Owner] # <<>> /\ calls'[Owner][1] = calls[Owner][1]
      /\ calls[Owner] = <<>> /\ calls'[Owner] # <<>> => calls'[Owner][1].at = "gate"
  <2>1. CASE t # Owner
    BY <2>1, GateAssumption DEF Pushed, OthersStay
  <2>2. CASE t = Owner
    <3>1. Len(calls'[t]) \in Nat /\ Len(calls'[t]) >= 1 /\ calls'[t] # <<>>
      BY <1>1 DEF Pushed
    <3>2. CASE calls[t] = <<>>
      BY <1>1, <2>2, <3>2 DEF Pushed
    <3>3. CASE calls[t] # <<>>
      <4>1. 1 \in 1 .. Len(calls[t])
        BY <1>1, <3>3
      <4>. QED
        BY <2>2, <3>1, <3>3, <4>1 DEF Pushed
    <3>. QED
      BY <3>2, <3>3
  <2>. QED
    BY <2>1, <2>2
<1>5. LatchExact' /\ StoringExact'
  BY <1>4 DEF GateInv, LatchExact, StoringExact, Behind
<1>. QED
  BY <1>2, <1>3, <1>5

\* A blocked call returns to nowhere or into the owner's on_trade; the owner's own
\* call returns to nowhere.
LEMMA LeaveKeeps ==
  ASSUME GateInv, NEW t \in Threads, calls[t] # <<>>, Left(t), storing' = storing,
         Top(t).at # "record",
         in_public_entry' = IF Top(t).at \in Behind THEN FALSE ELSE in_public_entry
  PROVE  (Nested /\ OwnerAlone /\ LatchExact /\ StoringExact)'
<1>1. Len(calls[t]) \in Nat /\ Len(calls[t]) >= 1
  BY TopOfStack DEF GateInv
<1>2. Nested'
  BY <1>1 DEF GateInv, Nested, Left, OthersStay
<1>3. OwnerAlone'
  BY <1>1 DEF GateInv, OwnerAlone, Left, OthersStay
<1>4. LatchExact' /\ StoringExact'
  <2>1. CASE t # Owner
    <3>1. Top(t).at \notin Behind
      BY <2>1, BehindIsOwner
    <3>2. calls'[Owner] = calls[Owner]
      BY <2>1, GateAssumption DEF Left, OthersStay
    <3>. QED
      BY <3>1, <3>2 DEF GateInv, LatchExact, StoringExact
  <2>2. CASE t = Owner /\ Len(calls[t]) = 1
    <3>1. calls'[Owner] = <<>> /\ Top(t) = calls[Owner][1]
      BY <1>1, <2>2 DEF Left, Top
    <3>2. ~in_public_entry'
      BY <2>2, <3>1 DEF GateInv, LatchExact
    <3>. QED
      BY <2>2, <3>1, <3>2 DEF GateInv, LatchExact, StoringExact
  <2>3. CASE t = Owner /\ Len(calls[t]) # 1
    <3>1. Top(t).at \notin Behind
      BY <2>3, BehindIsOwner
    <3>2. 1 \in 1 .. Len(calls[t]) - 1
      BY <1>1, <2>3, MoreThanOne
    <3>3. calls'[Owner] # <<>> /\ calls'[Owner][1] = calls[Owner][1]
      BY <1>1, <2>3, <3>2 DEF Left
    <3>. QED
      BY <2>3, <3>1, <3>3 DEF GateInv, LatchExact, StoringExact
  <2>. QED
    BY <2>1, <2>2, <2>3
<1>. QED
  BY <1>2, <1>3, <1>4
-----------------------------------------------------------------------------
(***************************************************************************)
(* One lemma for the steps up to the gate, one for those behind it.        *)
(***************************************************************************)
\* The book starts with nobody inside.
LEMMA InitGate == GateInit => GateInv
<1> SUFFICES ASSUME GateInit PROVE GateInv
  OBVIOUS
<1>1. calls = [t \in Threads |-> <<>>] /\ storing = {}
  BY DEF GateInit, JournalInit
<1>2. GateType
  <2>1. calls \in [Threads -> Seq(Calls)]
    BY <1>1
  <2>. QED
    BY <2>1 DEF GateInit, GateType, Handlers
<1>3. \A t \in Threads : Len(calls[t]) = 0 /\ calls[t] = <<>>
  BY <1>1
<1>4. Nested /\ OwnerAlone
  BY <1>3 DEF Nested, OwnerAlone
<1>5. LatchExact /\ StoringExact
  BY <1>1, <1>3, GateAssumption DEF GateInit, LatchExact, StoringExact
<1>. QED
  BY <1>2, <1>4, <1>5 DEF GateInv

\* The steps of a call outside the gate: made, refused, in book_fault, blocked.
LEMMA OutsideStep ==
  ASSUME GateInv, NEW t \in Threads,
         \/ \E entry \in EntryPoints : Call(t, entry)
         \/ Fault(t) \/ FaultRead(t) \/ FaultSwap(t) \/ FaultRestore(t)
         \/ Blocked(t) \/ Abort(t)
         \/ \E h \in Handlers : SetBookFaultHandler(t, h)
  PROVE  GateInv'
<1>0. GateType
  BY DEF GateInv
<1>1. ASSUME NEW entry \in EntryPoints, Call(t, entry)
      PROVE  GateInv'
  <2>1. [entry |-> entry, at |-> "gate", got |-> "none"] \in Calls
    BY DEF Calls, Stages, Handlers
  <2>2. Pushed(t, [entry |-> entry, at |-> "gate", got |-> "none"])
    BY <1>0, <1>1, CallPushed
  <2>3. /\ calls[t] # <<>> => Top(t).at = "on_trade"
        /\ in_public_entry' = in_public_entry /\ storing' = storing
        /\ handler' = handler /\ installed' = installed
        /\ overlapped' = overlapped /\ aborted' = aborted
    BY <1>1 DEF Call, journalVars
  <2>4. (Nested /\ OwnerAlone /\ LatchExact /\ StoringExact)'
    BY <2>1, <2>2, <2>3, PushKeeps
  <2>5. GateType'
    BY <1>0, <2>2, <2>3 DEF GateType, Pushed
  <2>. QED
    BY <2>4, <2>5 DEF GateInv
<1>2. ASSUME Fault(t) \/ FaultSwap(t) \/ FaultRestore(t)
      PROVE  GateInv'
  <2>1. PICK stage \in {"read", "restore", "decide"} :
          /\ calls[t] # <<>> /\ Top(t).at \in {"gate", "swap", "restore"}
          /\ Goto(t, stage)
    BY <1>2 DEF Fault, FaultSwap, FaultRestore, AtStage
  <2>2. /\ in_public_entry' = in_public_entry /\ storing' = storing
        /\ installed' = installed /\ overlapped' = overlapped /\ aborted' = aborted
    BY <1>2 DEF Fault, FaultSwap, FaultRestore, journalVars
  <2>3. handler' \in Handlers
    <3>1. Top(t).got \in Handlers
      BY <1>0, <2>1, TopOfStack DEF Calls
    <3>. QED
      BY <1>0, <1>2, <3>1 DEF Fault, FaultSwap, FaultRestore, GateType, Handlers
  <2>4. [Top(t) EXCEPT !.at = stage] \in Calls /\ Moved(t, [Top(t) EXCEPT !.at = stage])
    BY <1>0, <2>1, GotoMoves DEF Stages
  <2>5. Top(t).at \notin Behind /\ [Top(t) EXCEPT !.at = stage].at \notin Behind
    BY <1>0, <2>1, TopOfStack DEF Behind, Calls
  <2>6. (Nested /\ OwnerAlone /\ LatchExact /\ StoringExact)'
    BY <2>1, <2>2, <2>4, <2>5, OutsideMoves
  <2>7. GateType'
    BY <1>0, <2>2, <2>3, <2>4 DEF GateType, Moved
  <2>. QED
    BY <2>6, <2>7 DEF GateInv
<1>3. ASSUME FaultRead(t)
      PROVE  GateInv'
  <2>1. calls[t] # <<>> /\ Top(t).at = "read"
    BY <1>3 DEF FaultRead, AtStage
  <2>2. /\ in_public_entry' = in_public_entry /\ storing' = storing
        /\ handler' = handler /\ installed' = installed /\ aborted' = aborted
        /\ overlapped' \in BOOLEAN
    BY <1>3 DEF FaultRead, journalVars
  <2> DEFINE c == [Top(t) EXCEPT !.at = "swap", !.got = handler]
  <2>3. c \in Calls /\ c.at = "swap"
    BY <1>0, <2>1, TopOfStack DEF Calls, Stages, GateType
  <2>4. calls' = [calls EXCEPT ![t] = [calls[t] EXCEPT ![Len(calls[t])] = c]]
    BY <1>0, <1>3 DEF FaultRead, Top, GateType
  <2>. HIDE DEF c
  <2>5. Moved(t, c)
    BY <1>0, <2>1, <2>3, <2>4, TopMoves
  <2>6. Top(t).at \notin Behind /\ c.at \notin Behind
    BY <2>1, <2>3 DEF Behind
  <2>7. (Nested /\ OwnerAlone /\ LatchExact /\ StoringExact)'
    BY <2>1, <2>2, <2>3, <2>5, <2>6, OutsideMoves
  <2>8. GateType'
    BY <1>0, <2>2, <2>5 DEF GateType, Moved
  <2>. QED
    BY <2>7, <2>8 DEF GateInv
<1>4. ASSUME Blocked(t)
      PROVE  GateInv'
  <2>1. calls[t] # <<>> /\ Top(t).at = "decide" /\ Leave(t)
    BY <1>4 DEF Blocked, AtStage
  <2>2. /\ in_public_entry' = in_public_entry /\ storing' = storing
        /\ handler' = handler /\ installed' = installed
        /\ overlapped' = overlapped /\ aborted' = aborted
    BY <1>4 DEF Blocked, journalVars
  <2>3. Left(t)
    BY <1>0, <2>1, LeaveLeft
  <2>4. Top(t).at # "record" /\ Top(t).at \notin Behind
    BY <2>1 DEF Behind
  <2>5. (Nested /\ OwnerAlone /\ LatchExact /\ StoringExact)'
    BY <2>1, <2>2, <2>3, <2>4, LeaveKeeps
  <2>6. GateType'
    BY <1>0, <2>2, <2>3 DEF GateType, Left
  <2>. QED
    BY <2>5, <2>6 DEF GateInv
<1>5. ASSUME Abort(t) \/ \E h \in Handlers : SetBookFaultHandler(t, h)
      PROVE  GateInv'
  <2>1. /\ calls' = calls /\ in_public_entry' = in_public_entry /\ storing' = storing
        /\ handler' \in Handlers /\ installed' \in Handlers
        /\ overlapped' \in BOOLEAN /\ aborted' \in BOOLEAN
    BY <1>0, <1>5 DEF Abort, SetBookFaultHandler, journalVars, GateType
  <2>2. GateType'
    BY <1>0, <2>1 DEF GateType
  <2>. QED
    BY <2>1, <2>2 DEF GateInv, Nested, OwnerAlone, LatchExact, StoringExact
<1>. QED
  BY <1>1, <1>2, <1>3, <1>4, <1>5

\* The steps of a call let through the gate: the owner's outermost.
LEMMA InsideStep ==
  ASSUME GateInv, NEW t \in Threads,
         \/ Enter(t) \/ \E e \in Entries : RecordStore(t, e)
         \/ RecordBump(t) \/ CallOnTrade(t) \/ OnTradeReturns(t) \/ Return(t)
  PROVE  GateInv'
<1>0. GateType
  BY DEF GateInv
<1>1. CASE Return(t)
  <2>1. calls[t] # <<>> /\ Top(t).at = "body" /\ Leave(t)
    BY <1>1 DEF Return, AtStage
  <2>2. /\ in_public_entry' = FALSE /\ storing' = storing
        /\ handler' = handler /\ installed' = installed
        /\ overlapped' = overlapped /\ aborted' = aborted
    BY <1>1 DEF Return, journalVars
  <2>3. Left(t)
    BY <1>0, <2>1, LeaveLeft
  <2>4. Top(t).at # "record" /\ Top(t).at \in Behind
    BY <2>1 DEF Behind
  <2>5. (Nested /\ OwnerAlone /\ LatchExact /\ StoringExact)'
    BY <2>1, <2>2, <2>3, <2>4, LeaveKeeps
  <2>6. GateType'
    BY <1>0, <2>2, <2>3 DEF GateType, Left
  <2>. QED
    BY <2>5, <2>6 DEF GateInv
<1>2. CASE ~Return(t)
  <2>1. PICK stage \in Behind :
          /\ calls[t] # <<>> /\ Goto(t, stage)
          /\ \/ Top(t).at \in Behind /\ in_public_entry' = in_public_entry
             \/ Top(t).at = "gate" /\ t = Owner /\ ~in_public_entry /\ in_public_entry' = TRUE
    BY <1>2 DEF Enter, Refused, RecordStore, RecordBump, CallOnTrade, OnTradeReturns, AtStage, Behind
  <2>2. handler' = handler /\ installed' = installed /\ overlapped' = overlapped /\ aborted' = aborted
    BY <1>2 DEF Enter, RecordStore, RecordBump, CallOnTrade, OnTradeReturns
  <2>3. t = Owner /\ Len(calls[t]) = 1 /\ in_public_entry' = TRUE
    <3>1. CASE Top(t).at \in Behind /\ in_public_entry' = in_public_entry
      <4>1. t = Owner /\ Len(calls[t]) = 1
        BY <2>1, <3>1, BehindIsOwner
      <4>2. calls[Owner] # <<>> /\ calls[Owner][1].at \in Behind
        BY <2>1, <3>1, <4>1 DEF Top
      <4>. QED
        BY <1>0, <3>1, <4>1, <4>2 DEF GateInv, LatchExact, GateType
    <3>2. CASE t = Owner /\ ~in_public_entry /\ in_public_entry' = TRUE
      <4>1. Len(calls[t]) = 1
        <5> SUFFICES ASSUME Len(calls[t]) # 1 PROVE FALSE
          OBVIOUS
        <5>1. calls[Owner][1].at = "on_trade"
          BY <2>1, <3>2, InnerIsOwner
        <5>. QED
          BY <2>1, <3>2, <5>1 DEF GateInv, LatchExact, Behind
      <4>. QED
        BY <3>2, <4>1
    <3>. QED
      BY <2>1, <3>1, <3>2
  <2>4. Owner \in storing <=> Top(t).at = "record"
    BY <2>1, <2>3 DEF GateInv, StoringExact, Top
  <2>5. storing' = IF stage = "record" THEN {Owner} ELSE {}
    <3>0. storing \subseteq {Owner}
      BY DEF GateInv, StoringExact
    <3>1. \A s \in Stages : Goto(t, s) => s = stage
      <4> SUFFICES ASSUME NEW s \in Stages, Goto(t, s) PROVE s = stage
        OBVIOUS
      <4>1. stage \in Stages
        BY DEF Stages
      <4>2. Moved(t, [Top(t) EXCEPT !.at = s]) /\ Moved(t, [Top(t) EXCEPT !.at = stage])
        BY <1>0, <2>1, <4>1, GotoMoves
      <4>3. [Top(t) EXCEPT !.at = s] = [Top(t) EXCEPT !.at = stage]
        BY <4>2 DEF Moved
      <4>4. Top(t) \in Calls
        BY <1>0, <2>1, TopOfStack
      <4>. QED
        BY <4>3, <4>4 DEF Calls
    <3>2. CASE Enter(t) \/ CallOnTrade(t) \/ OnTradeReturns(t)
      <4>1. storing' = storing /\ Top(t).at # "record"
        BY <3>2 DEF Enter, CallOnTrade, OnTradeReturns, AtStage, journalVars
      <4>2. stage # "record"
        BY <3>1, <3>2 DEF Enter, CallOnTrade, OnTradeReturns, Stages, Behind
      <4>. QED
        BY <2>4, <3>0, <4>1, <4>2
    <3>3. ASSUME NEW e \in Entries, RecordStore(t, e)
          PROVE  storing' = IF stage = "record" THEN {Owner} ELSE {}
      <4>1. storing' = storing \cup {t}
        BY <3>3 DEF RecordStore, Store
      <4>2. stage = "record"
        BY <3>1, <3>3 DEF RecordStore, Stages, Behind
      <4>. QED
        BY <2>3, <3>0, <4>1, <4>2
    <3>4. CASE RecordBump(t)
      <4>1. storing' = storing \ {t}
        BY <3>4 DEF RecordBump, Bump
      <4>2. stage = "body"
        BY <3>1, <3>4 DEF RecordBump, Stages, Behind
      <4>. QED
        BY <2>3, <3>0, <4>1, <4>2
    <3>. QED
      BY <1>2, <3>2, <3>3, <3>4
  <2>6. stage \in Stages
    BY DEF Stages
  <2> DEFINE c == [Top(t) EXCEPT !.at = stage]
  <2>7. c \in Calls /\ Moved(t, c)
    BY <1>0, <2>1, <2>6, GotoMoves
  <2>8. c.at = stage
    BY <1>0, <2>1, TopOfStack DEF Calls
  <2>. HIDE DEF c
  <2>9. calls[Owner] # <<>> /\ Len(calls[Owner]) = 1 /\ Moved(Owner, c) /\ c.at \in Behind
    BY <2>1, <2>3, <2>7, <2>8
  <2>10. storing' = IF c.at = "record" THEN {Owner} ELSE {}
    BY <2>5, <2>8
  <2>11. (Nested /\ OwnerAlone /\ LatchExact /\ StoringExact)'
    BY <2>3, <2>7, <2>9, <2>10, OwnerMoves
  <2>12. GateType'
    BY <1>0, <2>2, <2>3, <2>7 DEF GateType, Moved
  <2>. QED
    BY <2>11, <2>12 DEF GateInv
<1>. QED
  BY <1>1, <1>2

\* Every step of a thread or of the owner outside the book keeps the invariant.
LEMMA GateStep ==
  ASSUME GateInv, [GateNext]_allVars
  PROVE  GateInv'
<1>1. ASSUME NEW t \in Threads, ThreadStep(t)
      PROVE  GateInv'
  BY <1>1, OutsideStep, InsideStep DEF ThreadStep
<1>2. CASE ClearJournal \/ UNCHANGED allVars
  <2>1. /\ calls' = calls /\ in_public_entry' = in_public_entry /\ storing' = storing
        /\ handler' = handler /\ installed' = installed
        /\ overlapped' = overlapped /\ aborted' = aborted
    BY <1>2 DEF ClearJournal, Clear, gateVars, allVars
  <2>. QED
    BY <2>1 DEF GateInv, GateType, Nested, OwnerAlone, LatchExact, StoringExact
<1>. QED
  BY <1>1, <1>2 DEF GateNext

\* The journal sees one writer at a time.
LEMMA JournalStep ==
  ASSUME GateInv, [GateNext]_allVars
  PROVE  [JournalNext]_journalVars
<1>1. ASSUME NEW t \in Threads, NEW e \in Entries, RecordStore(t, e)
      PROVE  JournalNext
  <2>1. calls[t] # <<>> /\ Top(t).at = "body" /\ Store(t, e)
    BY <1>1 DEF RecordStore, AtStage
  <2>2. t = Owner /\ Len(calls[t]) = 1
    BY <2>1, BehindIsOwner DEF Behind
  <2>3. storing = {}
    BY <2>1, <2>2 DEF GateInv, StoringExact, Top
  <2>. QED
    BY <2>1, <2>3, GateAssumption DEF JournalNext
<1>2. ASSUME NEW t \in Threads, RecordBump(t)
      PROVE  JournalNext
  BY <1>2, GateAssumption DEF RecordBump, JournalNext
<1>3. ASSUME ClearJournal
      PROVE  JournalNext
  <2>1. Clear /\ (calls[Owner] # <<>> => Top(Owner).at = "on_trade")
    BY <1>3 DEF ClearJournal
  <2>2. storing = {}
    <3>1. CASE calls[Owner] = <<>>
      BY <3>1 DEF GateInv, StoringExact
    <3>2. CASE calls[Owner] # <<>>
      <4>1. Len(calls[Owner]) = 1
        BY <2>1, <3>2, BehindIsOwner, GateAssumption DEF Behind
      <4>. QED
        BY <2>1, <3>2, <4>1 DEF GateInv, StoringExact, Top
    <3>. QED
      BY <3>1, <3>2
  <2>. QED
    BY <2>1, <2>2 DEF JournalNext
<1>4. ASSUME NEW t \in Threads, ThreadStep(t), ~RecordBump(t), \A e \in Entries : ~RecordStore(t, e)
      PROVE  UNCHANGED journalVars
  BY <1>4 DEF ThreadStep, Call, Enter, Fault, FaultRead, FaultSwap, FaultRestore, Blocked, Abort,
              CallOnTrade, OnTradeReturns, Return, SetBookFaultHandler
<1>5. ASSUME UNCHANGED allVars
      PROVE  UNCHANGED journalVars
  BY <1>5 DEF allVars, journalVars
<1>. QED
  BY <1>1, <1>2, <1>3, <1>4, <1>5 DEF GateNext

-----------------------------------------------------------------------------
(***************************************************************************)
(* For any threads and any nesting of callbacks: the body of add_order or  *)
(* cancel_order runs only in the constructing thread's outermost call.     *)
(***************************************************************************)
THEOREM OwnerIsAlone == GateSpec => []OwnerAlone
<1>1. GateInv => OwnerAlone
  BY DEF GateInv
<1>. QED
  BY <1>1, InitGate, GateStep, PTL DEF GateSpec

(***************************************************************************)
(* For any threads and any nesting of callbacks: in_public_entry_ is set   *)
(* exactly while the owner's outermost call is behind the gate, whatever   *)
(* calls were blocked meanwhile.                                           *)
(***************************************************************************)
THEOREM LatchIsExact == GateSpec => []LatchExact
<1>1. GateInv => LatchExact
  BY DEF GateInv
<1>. QED
  BY <1>1, InitGate, GateStep, PTL DEF GateSpec

(***************************************************************************)
(* The gate implements the ring's contract: behind it a record() never     *)
(* meets another record() or a clear().                                    *)
(***************************************************************************)
THEOREM GateKeepsContract == GateSpec => KeepsJournalContract
<1>1. GateInit => JournalInit
  BY DEF GateInit
<1>. QED
  BY <1>1, InitGate, GateStep, JournalStep, PTL DEF GateSpec, JournalSpec, KeepsJournalContract

(***************************************************************************)
(* So the journal of a gated book always shows the most recent entries in  *)
(* order, whichever threads call it and whatever on_trade does.            *)
(***************************************************************************)
THEOREM GatedJournalShowsSuffix == GateSpec => []WindowIsSuffix
<1>1. GateSpec => JournalSpec
  BY GateKeepsContract DEF KeepsJournalContract
<1>. QED
  BY <1>1, JournalShowsSuffix, PTL

-----------------------------------------------------------------------------
(***************************************************************************)
(* book_fault's read of the handler.  As long as no two reads and no read  *)
(* and installation have overlapped, at most one thread has the handler in *)
(* its hands, and what it has read is what a client installed last.        *)
(***************************************************************************)
Reading == {"swap", "restore"}
HasRead == {"swap", "restore", "decide"}
In(t, stages) == calls[t] # <<>> /\ Top(t).at \in stages

HandlerKept ==
  ~overlapped =>
    /\ \A t \in Threads : In(t, HasRead) => Top(t).got = installed
    /\ \A t, u \in Threads : In(t, Reading) /\ In(u, Reading) => t = u
    /\ (\A t \in Threads : ~In(t, {"restore"})) => handler = installed

SkipInv == SkipHonoured /\ HandlerKept

\* The innermost call after a move.
LEMMA MovedTop ==
  ASSUME GateType, NEW t \in Threads, calls[t] # <<>>, NEW c \in Calls, Moved(t, c)
  PROVE  /\ calls'[t] # <<>> /\ Top(t)' = c
         /\ \A stages : In(t, stages)' <=> c.at \in stages
<1>1. Len(calls[t]) \in Nat /\ Len(calls[t]) >= 1
  BY TopOfStack
<1>2. calls'[t] # <<>>
  BY <1>1 DEF Moved
<1>3. Top(t)' = c
  BY DEF Moved, Top
<1>. QED
  BY <1>2, <1>3 DEF In

\* The threads that stay are where they were.
LEMMA StayIn ==
  ASSUME NEW t \in Threads, OthersStay(t), NEW u \in Threads, u # t
  PROVE  /\ Top(u)' = Top(u)
         /\ \A stages : In(u, stages)' <=> In(u, stages)
BY DEF OthersStay, Top, In

\* A thread that neither gives up nor takes the handler.
LEMMA QuietStep ==
  ASSUME SkipInv, NEW t \in Threads, OthersStay(t), ~In(t, Reading), ~In(t, HasRead)',
         handler' = handler, installed' = installed, overlapped' = overlapped, aborted' = aborted
  PROVE  SkipInv'
<1>1. SkipHonoured'
  BY DEF SkipInv, SkipHonoured
<1>2. ~In(t, {"restore"}) /\ ~In(t, Reading)' /\ ~In(t, {"restore"})'
  BY DEF In, Reading, HasRead
<1>3. \A u \in Threads : u # t =>
        /\ Top(u)' = Top(u)
        /\ In(u, HasRead)' <=> In(u, HasRead)
        /\ In(u, Reading)' <=> In(u, Reading)
        /\ In(u, {"restore"})' <=> In(u, {"restore"})
  BY StayIn
<1>4. HandlerKept'
  <2> SUFFICES ASSUME ~overlapped
               PROVE  /\ \A u \in Threads : In(u, HasRead)' => Top(u)'.got = installed
                      /\ \A u, v \in Threads : In(u, Reading)' /\ In(v, Reading)' => u = v
                      /\ (\A u \in Threads : ~In(u, {"restore"})') => handler = installed
    BY DEF HandlerKept
  <2>1. \A u \in Threads : In(u, HasRead)' => Top(u)'.got = installed
    BY <1>3 DEF SkipInv, HandlerKept
  <2>2. \A u, v \in Threads : In(u, Reading)' /\ In(v, Reading)' => u = v
    BY <1>2, <1>3 DEF SkipInv, HandlerKept
  <2>3. (\A u \in Threads : ~In(u, {"restore"})') => handler = installed
    BY <1>2, <1>3 DEF SkipInv, HandlerKept
  <2>. QED
    BY <2>1, <2>2, <2>3
<1>. QED
  BY <1>1, <1>4 DEF SkipInv

\* After a call returns, its thread is outside the book or in on_trade.
LEMMA LeftQuiet ==
  ASSUME GateInv, NEW t \in Threads, calls[t] # <<>>, Left(t)
  PROVE  ~In(t, HasRead)'
<1> SUFFICES ASSUME calls'[t] # <<>>
             PROVE  Top(t)'.at = "on_trade"
  BY DEF In, HasRead
<1>1. Len(calls[t]) \in Nat /\ Len(calls[t]) >= 1
  BY TopOfStack DEF GateInv
<1>2. calls'[t] \in Seq(Calls) /\ Len(calls'[t]) = Len(calls[t]) - 1
  BY DEF Left
<1>3. Len(calls[t]) - 1 >= 1
  BY <1>1, <1>2
<1> DEFINE k == Len(calls[t]) - 1
<1>4. k \in 1 .. Len(calls[t]) - 1 /\ k \in 1 .. Len(calls[t]) /\ k < Len(calls[t])
  BY <1>1, <1>3
<1>5. Top(t)' = calls[t][k]
  BY <1>2, <1>4 DEF Left, Top
<1>. HIDE DEF k
<1>. QED
  BY <1>4, <1>5 DEF GateInv, Nested

\* The steps that leave the handler alone.
LEMMA HandlerIdle ==
  ASSUME GateInv, SkipInv, NEW t \in Threads,
         \/ \E entry \in EntryPoints : Call(t, entry)
         \/ Enter(t) \/ Fault(t) \/ Blocked(t)
         \/ \E e \in Entries : RecordStore(t, e)
         \/ RecordBump(t) \/ CallOnTrade(t) \/ OnTradeReturns(t) \/ Return(t)
  PROVE  SkipInv'
<1>0. GateType
  BY DEF GateInv
<1>1. ASSUME NEW entry \in EntryPoints, Call(t, entry)
      PROVE  SkipInv'
  <2>1. Pushed(t, [entry |-> entry, at |-> "gate", got |-> "none"])
    BY <1>0, <1>1, CallPushed
  <2>2. Top(t)'.at = "gate" /\ OthersStay(t)
    BY <2>1 DEF Pushed, Top
  <2>3. /\ calls[t] # <<>> => Top(t).at = "on_trade"
        /\ handler' = handler /\ installed' = installed
        /\ overlapped' = overlapped /\ aborted' = aborted
    BY <1>1 DEF Call
  <2>4. ~In(t, Reading) /\ ~In(t, HasRead)'
    BY <2>2, <2>3 DEF In, Reading, HasRead
  <2>. QED
    BY <2>2, <2>3, <2>4, QuietStep
<1>2. CASE Blocked(t) \/ Return(t)
  <2>1. calls[t] # <<>> /\ Top(t).at \in {"decide", "body"} /\ Leave(t)
    BY <1>2 DEF Blocked, Return, AtStage
  <2>2. handler' = handler /\ installed' = installed /\ overlapped' = overlapped /\ aborted' = aborted
    BY <1>2 DEF Blocked, Return
  <2>3. Left(t)
    BY <1>0, <2>1, LeaveLeft
  <2>4. ~In(t, Reading) /\ ~In(t, HasRead)' /\ OthersStay(t)
    BY <2>1, <2>3, LeftQuiet DEF In, Reading, Left
  <2>. QED
    BY <2>2, <2>4, QuietStep
<1>3. CASE \/ Enter(t) \/ Fault(t) \/ \E e \in Entries : RecordStore(t, e)
           \/ RecordBump(t) \/ CallOnTrade(t) \/ OnTradeReturns(t)
  <2>1. PICK stage \in Behind \cup {"read"} :
          calls[t] # <<>> /\ Top(t).at \in Behind \cup {"gate"} /\ Goto(t, stage)
    BY <1>3 DEF Enter, Fault, RecordStore, RecordBump, CallOnTrade, OnTradeReturns, AtStage, Behind
  <2>2. handler' = handler /\ installed' = installed /\ overlapped' = overlapped /\ aborted' = aborted
    BY <1>3 DEF Enter, Fault, RecordStore, RecordBump, CallOnTrade, OnTradeReturns
  <2> DEFINE c == [Top(t) EXCEPT !.at = stage]
  <2>3. c \in Calls /\ Moved(t, c)
    BY <1>0, <2>1, GotoMoves DEF Stages, Behind
  <2>4. c.at = stage
    BY <1>0, <2>1, TopOfStack DEF Calls
  <2>. HIDE DEF c
  <2>5. ~In(t, HasRead)'
    <3>1. In(t, HasRead)' <=> c.at \in HasRead
      BY <1>0, <2>1, <2>3, MovedTop
    <3>. QED
      BY <2>4, <3>1 DEF HasRead, Behind
  <2>6. ~In(t, Reading) /\ OthersStay(t)
    BY <2>1, <2>3 DEF In, Reading, Behind, Moved
  <2>. QED
    BY <2>2, <2>5, <2>6, QuietStep
<1>. QED
  BY <1>1, <1>2, <1>3

\* The three steps of book_fault's read: taken, swapped out, put back.
LEMMA HandlerRead ==
  ASSUME GateInv, SkipInv, NEW t \in Threads, FaultRead(t) \/ FaultSwap(t) \/ FaultRestore(t)
  PROVE  SkipInv'
<1>0. GateType
  BY DEF GateInv
<1>1. CASE FaultRead(t)
  <2>1. calls[t] # <<>> /\ Top(t).at = "read"
    BY <1>1 DEF FaultRead, AtStage
  <2>2. /\ handler' = handler /\ installed' = installed /\ aborted' = aborted
        /\ overlapped' = (overlapped \/ InFault(Reading))
    BY <1>1 DEF FaultRead, Reading
  <2> DEFINE c == [Top(t) EXCEPT !.at = "swap", !.got = handler]
  <2>3. c \in Calls /\ c.at = "swap" /\ c.got = handler
    BY <1>0, <2>1, TopOfStack DEF Calls, Stages, GateType
  <2>4. calls' = [calls EXCEPT ![t] = [calls[t] EXCEPT ![Len(calls[t])] = c]]
    BY <1>0, <1>1 DEF FaultRead, Top, GateType
  <2>. HIDE DEF c
  <2>5. Moved(t, c)
    BY <1>0, <2>1, <2>3, <2>4, TopMoves
  <2>6. Top(t)' = c /\ OthersStay(t)
    BY <1>0, <2>1, <2>3, <2>5, MovedTop DEF Moved
  <2>7. SkipHonoured'
    BY <2>2 DEF SkipInv, SkipHonoured
  <2>8. HandlerKept'
    <3> SUFFICES ASSUME ~overlapped, ~InFault(Reading)
                 PROVE  /\ \A u \in Threads : In(u, HasRead)' => Top(u)'.got = installed
                        /\ \A u, v \in Threads : In(u, Reading)' /\ In(v, Reading)' => u = v
                        /\ handler = installed
      BY <2>2 DEF HandlerKept
    <3>1. \A u \in Threads : ~In(u, Reading)
      BY DEF InFault, In
    <3>2. \A u \in Threads : ~In(u, {"restore"})
      BY <3>1 DEF In, Reading
    <3>3. handler = installed
      BY <3>2 DEF SkipInv, HandlerKept
    <3>4. \A u \in Threads : In(u, HasRead)' => Top(u)'.got = installed
      <4> SUFFICES ASSUME NEW u \in Threads, In(u, HasRead)' PROVE Top(u)'.got = installed
        OBVIOUS
      <4>1. CASE u = t
        BY <2>3, <2>6, <3>3, <4>1
      <4>2. CASE u # t
        <5>1. Top(u)' = Top(u) /\ In(u, HasRead)
          BY <2>6, <4>2, StayIn
        <5>. QED
          BY <5>1 DEF SkipInv, HandlerKept
      <4>. QED
        BY <4>1, <4>2
    <3>5. \A u \in Threads : In(u, Reading)' => u = t
      BY <2>6, <3>1, StayIn
    <3>. QED
      BY <3>3, <3>4, <3>5
  <2>. QED
    BY <2>7, <2>8 DEF SkipInv
<1>2. CASE FaultSwap(t) \/ FaultRestore(t)
  <2>1. PICK stage \in {"restore", "decide"} :
          /\ calls[t] # <<>> /\ Goto(t, stage) /\ Top(t).at \in Reading
          /\ stage = "decide" => handler' = Top(t).got
    BY <1>2 DEF FaultSwap, FaultRestore, AtStage, Reading
  <2>2. installed' = installed /\ overlapped' = overlapped /\ aborted' = aborted
    BY <1>2 DEF FaultSwap, FaultRestore
  <2> DEFINE c == [Top(t) EXCEPT !.at = stage]
  <2>3. c \in Calls /\ Moved(t, c)
    BY <1>0, <2>1, GotoMoves DEF Stages
  <2>4. c.at = stage /\ c.got = Top(t).got
    BY <1>0, <2>1, TopOfStack DEF Calls
  <2>. HIDE DEF c
  <2>5. calls'[t] # <<>> /\ Top(t)' = c /\ OthersStay(t)
    BY <1>0, <2>1, <2>3, MovedTop DEF Moved
  <2>6. SkipHonoured'
    BY <2>2 DEF SkipInv, SkipHonoured
  <2>7. HandlerKept'
    <3> SUFFICES ASSUME ~overlapped
                 PROVE  /\ \A u \in Threads : In(u, HasRead)' => Top(u)'.got = installed
                        /\ \A u, v \in Threads : In(u, Reading)' /\ In(v, Reading)' => u = v
                        /\ (\A u \in Threads : ~In(u, {"restore"})') => handler' = installed
      BY <2>2 DEF HandlerKept
    <3>1. In(t, HasRead) /\ In(t, Reading)
      BY <2>1 DEF In, HasRead, Reading
    <3>2. Top(t).got = installed
      BY <3>1 DEF SkipInv, HandlerKept
    <3>3. \A u \in Threads : In(u, HasRead)' => Top(u)'.got = installed
      <4> SUFFICES ASSUME NEW u \in Threads, In(u, HasRead)' PROVE Top(u)'.got = installed
        OBVIOUS
      <4>1. CASE u = t
        BY <2>4, <2>5, <3>2, <4>1
      <4>2. CASE u # t
        <5>1. Top(u)' = Top(u) /\ In(u, HasRead)
          BY <2>5, <4>2, StayIn
        <5>. QED
          BY <5>1 DEF SkipInv, HandlerKept
      <4>. QED
        BY <4>1, <4>2
    <3>4. \A u \in Threads : In(u, Reading)' => u = t
      <4> SUFFICES ASSUME NEW u \in Threads, In(u, Reading)', u # t PROVE FALSE
        OBVIOUS
      <4>1. In(u, Reading)
        BY <2>5, StayIn
      <4>. QED
        BY <3>1, <4>1 DEF SkipInv, HandlerKept
    <3>5. (\A u \in Threads : ~In(u, {"restore"})') => handler' = installed
      <4>1. CASE stage = "restore"
        BY <2>4, <2>5, <4>1 DEF In
      <4>2. CASE stage = "decide"
        BY <2>1, <3>2, <4>2
      <4>. QED
        BY <4>1, <4>2
    <3>. QED
      BY <3>3, <3>4, <3>5
  <2>. QED
    BY <2>6, <2>7 DEF SkipInv
<1>. QED
  BY <1>1, <1>2

\* Aborting and installing.
LEMMA HandlerDecides ==
  ASSUME SkipInv, NEW t \in Threads,
         Abort(t) \/ \E h \in Handlers : SetBookFaultHandler(t, h)
  PROVE  SkipInv'
<1>1. CASE Abort(t)
  <2>1. /\ calls' = calls /\ handler' = handler /\ installed' = installed
        /\ overlapped' = overlapped /\ Top(t).got # "SkipOperation" /\ In(t, HasRead)
    BY <1>1 DEF Abort, AtStage, In, HasRead
  <2>2. ~overlapped => Top(t).got = installed
    BY <2>1 DEF SkipInv, HandlerKept
  <2>3. SkipHonoured'
    BY <2>1, <2>2 DEF SkipHonoured
  <2>4. HandlerKept'
    BY <2>1 DEF SkipInv, HandlerKept, In, Top
  <2>. QED
    BY <2>3, <2>4 DEF SkipInv
<1>2. ASSUME NEW h \in Handlers, SetBookFaultHandler(t, h)
      PROVE  SkipInv'
  <2>1. /\ calls' = calls /\ handler' = h /\ installed' = h /\ ~aborted'
        /\ overlapped' = (overlapped \/ InFault(HasRead))
    BY <1>2 DEF SetBookFaultHandler, HasRead
  <2>2. SkipHonoured'
    BY <2>1 DEF SkipHonoured
  <2>3. HandlerKept'
    <3> SUFFICES ASSUME ~overlapped, ~InFault(HasRead)
                 PROVE  /\ \A u \in Threads : ~In(u, HasRead)'
                        /\ \A u \in Threads : ~In(u, Reading)'
                        /\ handler' = installed'
      BY <2>1 DEF HandlerKept
    <3>1. \A u \in Threads : ~In(u, HasRead)
      BY DEF InFault, In
    <3>. QED
      BY <2>1, <3>1 DEF In, Top, HasRead, Reading
  <2>. QED
    BY <2>2, <2>3 DEF SkipInv
<1>. QED
  BY <1>1, <1>2

(***************************************************************************)
(* For any threads and any number of faults: the process aborts with       *)
(* SkipOperation installed only if book_fault's read of the handler met    *)
(* another fault or an installation.                                       *)
(***************************************************************************)
THEOREM SkipIsHonoured == GateSpec => []SkipHonoured
<1>1. GateInit => SkipInv
  <2> SUFFICES ASSUME GateInit PROVE SkipInv
    OBVIOUS
  <2>1. \A t \in Threads : calls[t] = <<>>
    BY DEF GateInit
  <2>. QED
    BY <2>1 DEF GateInit, SkipInv, SkipHonoured, HandlerKept, In
<1>2. GateInv /\ SkipInv /\ [GateNext]_allVars => SkipInv'
  <2> SUFFICES ASSUME GateInv, SkipInv, [GateNext]_allVars
               PROVE  SkipInv'
    OBVIOUS
  <2>1. ASSUME NEW t \in Threads, ThreadStep(t)
        PROVE  SkipInv'
    BY <2>1, HandlerIdle, HandlerRead, HandlerDecides DEF ThreadStep
  <2>2. CASE ClearJournal \/ UNCHANGED allVars
    <3>1. /\ calls' = calls /\ handler' = handler /\ installed' = installed
          /\ overlapped' = overlapped /\ aborted' = aborted
      BY <2>2 DEF ClearJournal, gateVars, allVars
    <3>. QED
      BY <3>1 DEF SkipInv, SkipHonoured, HandlerKept, In, Top
  <2>. QED
    BY <2>1, <2>2 DEF GateNext
<1>3. SkipInv => SkipHonoured
  BY DEF SkipInv
<1>. QED
  BY <1>1, <1>2, <1>3, InitGate, GateStep, PTL DEF GateSpec
=============================================================================
