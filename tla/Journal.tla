------------------------------ MODULE Journal ------------------------------
(***************************************************************************)
(* Journal of src/Journal.h: the ring of lifecycle events an instrumented  *)
(* book writes.  An entry is opaque here; OrderBookJournal says which      *)
(* entries the book records.                                               *)
(*                                                                         *)
(* record() is a store and an index bump, which are two steps: the ring    *)
(* asks for a single writer at a time, and what happens otherwise shows    *)
(* only between them.                                                      *)
(***************************************************************************)
EXTENDS Integers, Sequences, FiniteSetsExt

CONSTANTS
  Requested,    \* the capacities the constructor may be asked for
  Entries,      \* what may be recorded
  Blank,        \* an entry nothing was recorded into
  Writers,      \* the threads that may call record()
  MaxRecords    \* bound: records between two clears

ASSUME JournalAssumption ==
  /\ Requested \subseteq Nat
  /\ MaxRecords \in Nat

VARIABLES
  entries,      \* entries_
  capacity,     \* entries_.size()
  mask,         \* mask_
  pos,          \* pos_
  storing,      \* writers between the store and the bump
  log           \* history: everything recorded since the last clear()

journalVars == <<entries, capacity, mask, pos, storing, log>>

\* std::bit_floor of a positive number.
BitFloor(n) == Max({p \in 1 .. n : \E k \in 0 .. n : p = 2 ^ k})

\* Mutant of RingOf: the capacity that was asked for is not rounded.
RingOfUnrounded(requested) ==
  LET n == IF requested = 0 THEN 1 ELSE requested
  IN  [entries |-> [i \in 0 .. n - 1 |-> Blank], capacity |-> n, mask |-> n - 1]

(***************************************************************************)
(* The constructor: at least one entry, resized to a power of two.         *)
(***************************************************************************)
RingOf(requested) ==
  LET pow2 == BitFloor(IF requested = 0 THEN 1 ELSE requested)
  IN  [entries |-> [i \in 0 .. pow2 - 1 |-> Blank], capacity |-> pow2, mask |-> pow2 - 1]

JournalInit ==
  /\ \E requested \in Requested :
       /\ entries = RingOf(requested).entries
       /\ capacity = RingOf(requested).capacity
       /\ mask = RingOf(requested).mask
  /\ pos = 0
  /\ storing = {}
  /\ log = <<>>

\* p & mask_, for a mask_ that is a power of two less one (MaskIsModulo).
Index(p) == p % (mask + 1)

Size == IF pos < capacity THEN pos ELSE capacity

\* Mutant of At: the window is taken to start at entry 0 after a wrap.
AtFromZero(i) == entries[Index(i)]

\* at(i): entry i of the retained window, 0 the oldest.
At(i) == LET base == pos - Size IN entries[Index(base + i)]

\* What dump(out, max_lines) renders.
Dump(max_lines) ==
  LET start == IF Size > max_lines THEN Size - max_lines ELSE 0
  IN  [k \in 1 .. Size - start |-> At(start + k - 1)]

(***************************************************************************)
(* record(): writer w stores the entry, then bumps the position.           *)
(***************************************************************************)
Store(w, e) ==
  /\ pos < MaxRecords
  /\ entries' = [entries EXCEPT ![Index(pos)] = e]
  /\ storing' = storing \cup {w}
  /\ log' = Append(log, e)
  /\ UNCHANGED <<capacity, mask, pos>>

Bump(w) ==
  /\ w \in storing
  /\ pos' = pos + 1
  /\ storing' = storing \ {w}
  /\ UNCHANGED <<entries, capacity, mask, log>>

(***************************************************************************)
(* clear() resets the position and leaves the old entries in the ring.     *)
(***************************************************************************)
Clear ==
  /\ pos' = 0
  /\ log' = <<>>
  /\ UNCHANGED <<entries, capacity, mask, storing>>

(***************************************************************************)
(* The contract of the ring: one writer at a time, and nobody clears it    *)
(* while an entry is being recorded.                                       *)
(***************************************************************************)
JournalNext ==
  \/ \E w \in Writers, e \in Entries : storing = {} /\ Store(w, e)
  \/ \E w \in Writers : Bump(w)
  \/ storing = {} /\ Clear

JournalSpec == JournalInit /\ [][JournalNext]_journalVars

(***************************************************************************)
(* A postmortem reads the truth: however often the ring has wrapped or     *)
(* been cleared, and whatever capacity was asked for, at() and dump() give *)
(* the most recent entries in the order they were recorded, as many as the *)
(* ring holds or the reader wants, and never one from before the clear.    *)
(***************************************************************************)
WindowIsSuffix ==
  storing = {} =>
    \A max_lines \in 0 .. capacity :
      LET shown == IF max_lines < Size THEN max_lines ELSE Size
      IN  Dump(max_lines) = SubSeq(log, Len(log) - shown + 1, Len(log))
=============================================================================
