----------------------------- MODULE MemoryPool -----------------------------
(***************************************************************************)
(* The intrusive free-list pool of src/MemoryPool.h, in its instrumented   *)
(* (Debug/Audit) flavour.  A slot is an index; the first word of a slot is *)
(* link[i]: while the slot is free it is the overlaid free-list link,      *)
(* while the slot is handed out it belongs to the client (for an Order it  *)
(* is Order::next), who may write anything into it.                        *)
(*                                                                         *)
(* `allocated' stands for both stamps the code keeps in step, allocated_   *)
(* and slot_state_.  The payload past the first word is the client's, and  *)
(* high-water, generation and total counters are statistics that nothing   *)
(* in the engine reads.                                                    *)
(*                                                                         *)
(* Two clients share the operations.  The trusted one passes what the      *)
(* contract asks for ("index must have come from allocate() via consistent *)
(* book state", "head/tail must delimit a live chain"); the arbitrary one  *)
(* passes any index and meets the fault path.                              *)
(***************************************************************************)
EXTENDS Integers, FiniteSets

CONSTANTS
  Capacity,       \* capacity_, the number of slots
  INVALID_INDEX   \* UINT32_MAX, "no such index"

(***************************************************************************)
(* The constructor clamps the capacity to kMaxPoolCapacity, one less than  *)
(* INVALID_INDEX, so the sentinel never names a slot.                      *)
(***************************************************************************)
ASSUME CapacityAssumption ==
  /\ Capacity \in Nat
  /\ INVALID_INDEX \in Nat
  /\ Capacity < INVALID_INDEX

VARIABLES
  link,        \* first word of each slot
  free_head,   \* free_head_
  allocated,   \* slots stamped Live
  live_count,  \* live_count_
  handler,     \* what the installed PoolFaultHandler answers, "none" if absent
  fault,       \* message of the last operation's fault, "none" if it had none
  aborted      \* std::abort() was called

poolVars == <<link, free_head, allocated, live_count>>
faultVars == <<handler, fault, aborted>>
vars == <<link, free_head, allocated, live_count, handler, fault, aborted>>

Slots == 0 .. Capacity - 1
Words == 0 .. INVALID_INDEX
FreeSlots == Slots \ allocated
Handlers == {"none", "Abort", "SkipOperation"}
Faults == {"none", "range", "notlive", "broken"}

TypeOK ==
  /\ link \in [Slots -> Words]
  /\ free_head \in Words
  /\ allocated \in SUBSET Slots
  /\ live_count \in 0 .. Capacity
  /\ handler \in Handlers
  /\ fault \in Faults
  /\ aborted \in BOOLEAN

-----------------------------------------------------------------------------
(***************************************************************************)
(* The constructor threads the free list through the slots in ascending    *)
(* order.                                                                  *)
(***************************************************************************)
PoolInit ==
  /\ link = [i \in Slots |-> IF i = Capacity - 1 THEN INVALID_INDEX ELSE i + 1]
  /\ free_head = IF Capacity = 0 THEN INVALID_INDEX ELSE 0
  /\ allocated = {}
  /\ live_count = 0

Init ==
  /\ PoolInit
  /\ handler = "none"
  /\ fault = "none"
  /\ aborted = FALSE

(***************************************************************************)
(* What an operation leaves of the first words: those of free slots are    *)
(* the pool's and keep their value, those of live slots are the client's.  *)
(***************************************************************************)
FreeLinksKept(except) ==
  /\ link' \in [Slots -> Words]
  /\ \A i \in FreeSlots \ except : link'[i] = link[i]

(***************************************************************************)
(* allocate() when the list is not empty; with an empty list it returns    *)
(* INVALID_INDEX and changes nothing.  The word of the slot handed out is  *)
(* the client's from here on.                                              *)
(***************************************************************************)
Allocate ==
  /\ free_head # INVALID_INDEX
  /\ free_head' = link[free_head]
  /\ FreeLinksKept({free_head})
  /\ allocated' = allocated \cup {free_head}
  /\ live_count' = live_count + 1

\* Mutant of Deallocate: the statistics are not kept.
DeallocateUncounted(index) ==
  /\ index \in allocated
  /\ FreeLinksKept({})
  /\ link'[index] = free_head
  /\ free_head' = index
  /\ allocated' = allocated \ {index}
  /\ UNCHANGED live_count

(***************************************************************************)
(* deallocate(index) of a live slot: push on the free list.                *)
(***************************************************************************)
Deallocate(index) ==
  /\ index \in allocated
  /\ FreeLinksKept({})
  /\ link'[index] = free_head
  /\ free_head' = index
  /\ allocated' = allocated \ {index}
  /\ live_count' = live_count - 1

(***************************************************************************)
(* A walk p of n live slots, none of them twice, along the links lk, the   *)
(* way deallocate_chain follows them: tail can only be its last slot.      *)
(***************************************************************************)
IsWalk(lk, n, p, tail) ==
  /\ \A k \in 1 .. n : p[k] \in allocated
  /\ \A k \in 1 .. n - 1 : lk[p[k]] = p[k + 1] /\ p[k] # tail
  /\ \A j, k \in 1 .. n : p[j] = p[k] => j = k

\* Mutant of DeallocateChain: the splice forgets the old free list.
DeallocateChainForgets(n, p) ==
  /\ FreeLinksKept({})
  /\ IsWalk(link', n, p, p[n])
  /\ link'[p[n]] = INVALID_INDEX
  /\ free_head' = p[1]
  /\ allocated' = allocated \ {p[k] : k \in 1 .. n}
  /\ live_count' = live_count - n

(***************************************************************************)
(* deallocate_chain(p[1], p[n]) of a live chain: every slot is released    *)
(* and the chain is spliced in front of the free list.  Only the tail's    *)
(* link is written.                                                        *)
(***************************************************************************)
DeallocateChain(n, p) ==
  /\ FreeLinksKept({})
  /\ IsWalk(link', n, p, p[n])
  /\ link'[p[n]] = free_head
  /\ free_head' = p[1]
  /\ allocated' = allocated \ {p[k] : k \in 1 .. n}
  /\ live_count' = live_count - n

(***************************************************************************)
(* The owner of live slots writes their first words (Order::next through   *)
(* data()).                                                                *)
(***************************************************************************)
ClientWrite ==
  /\ FreeLinksKept({})
  /\ UNCHANGED <<free_head, allocated, live_count>>

TrustedStep ==
  \/ Allocate
  \/ \E index \in Slots : Deallocate(index)
  \/ \E n \in 1 .. Capacity : \E p \in [1 .. n -> Slots] : DeallocateChain(n, p)
  \/ ClientWrite

TrustedNext ==
  /\ TrustedStep
  /\ fault' = "none"
  /\ UNCHANGED <<handler, aborted>>

TrustedSpec == Init /\ [][TrustedNext]_vars

-----------------------------------------------------------------------------
(***************************************************************************)
(* pool_fault: without a handler that answers SkipOperation the process    *)
(* aborts.                                                                 *)
(***************************************************************************)
PoolFault(message) ==
  /\ fault' = message
  /\ aborted' = (handler # "SkipOperation")
  /\ UNCHANGED handler

SetPoolFaultHandler(h) ==
  /\ handler' = h
  /\ fault' = "none"
  /\ UNCHANGED <<poolVars, aborted>>

\* Mutant of DeallocateFault: the double free is reported but not skipped.
DeallocateFaultPushes(index) ==
  /\ index \notin allocated
  /\ PoolFault(IF index \in Slots THEN "notlive" ELSE "range")
  /\ IF index \in Slots
     THEN /\ link' = [link EXCEPT ![index] = free_head]
          /\ free_head' = index
          /\ UNCHANGED <<allocated, live_count>>
     ELSE UNCHANGED poolVars

(***************************************************************************)
(* deallocate(index) of an index that is out of range or not live.         *)
(***************************************************************************)
DeallocateFault(index) ==
  /\ index \notin allocated
  /\ PoolFault(IF index \in Slots THEN "notlive" ELSE "range")
  /\ UNCHANGED poolVars

(***************************************************************************)
(* deallocate_chain(head, tail) that does not reach tail: the walk p is as *)
(* long as it can be, its slots have been released, and the splice is      *)
(* skipped.  The walk stops at a slot that is not live (one it released    *)
(* itself included) or at a link that leaves the pool.                     *)
(***************************************************************************)
ChainRangeFault(head, tail) ==
  /\ head \notin Slots \/ tail \notin Slots
  /\ PoolFault("range")
  /\ UNCHANGED poolVars

ChainBroken(head, tail, n, p) ==
  LET stop == IF n = 0 THEN head ELSE link[p[n]]
      released == {p[k] : k \in 1 .. n}
  IN  /\ head \in Slots /\ tail \in Slots
      /\ IsWalk(link, n, p, tail)
      /\ n > 0 => p[1] = head /\ p[n] # tail
      /\ stop \notin allocated \/ stop \in released
      /\ PoolFault(IF stop \in Slots THEN "notlive" ELSE "broken")
      /\ allocated' = allocated \ released
      /\ live_count' = live_count - n
      /\ UNCHANGED <<link, free_head>>

ArbitraryStep ==
  \/ \E h \in Handlers : SetPoolFaultHandler(h)
  \/ \E index \in Words : DeallocateFault(index)
  \/ \E head, tail \in Words : ChainRangeFault(head, tail)
  \/ \E head, tail \in Slots : \E n \in 0 .. Capacity : \E p \in [1 .. n -> Slots] :
       ChainBroken(head, tail, n, p)

Next ==
  /\ ~aborted
  /\ TrustedNext \/ ArbitraryStep

Spec == Init /\ [][Next]_vars

-----------------------------------------------------------------------------
(***************************************************************************)
(* fl, of length n, is the free list: the slots met from free_head along   *)
(* the overlaid links, none twice, up to INVALID_INDEX.                    *)
(***************************************************************************)
IsFreeList(n, fl) ==
  /\ \A j, k \in 1 .. n : fl[j] = fl[k] => j = k
  /\ \A k \in 1 .. n - 1 : link[fl[k]] = fl[k + 1]
  /\ IF n = 0 THEN free_head = INVALID_INDEX
     ELSE free_head = fl[1] /\ link[fl[n]] = INVALID_INDEX

(***************************************************************************)
(* Whatever the client passes, the free list has no cycle, no wild link    *)
(* and no live slot on it, so allocate() never hands out a slot that is    *)
(* already owned.                                                          *)
(***************************************************************************)
FreeListSafe ==
  \E n \in 0 .. Capacity : \E fl \in [1 .. n -> Slots] :
    /\ IsFreeList(n, fl)
    /\ \A k \in 1 .. n : fl[k] \in FreeSlots

(***************************************************************************)
(* free_list_depth() = capacity - live_count, and the list holds every     *)
(* free slot: nothing has leaked (the reconciliation of stats() and of     *)
(* validate_book's check 7).                                               *)
(***************************************************************************)
FreeListExact ==
  \E fl \in [1 .. Capacity - live_count -> Slots] :
    /\ IsFreeList(Capacity - live_count, fl)
    /\ {fl[k] : k \in 1 .. Capacity - live_count} = FreeSlots

(***************************************************************************)
(* FaultAction::SkipOperation: "the faulting call returns without          *)
(* mutating; the pool stays internally consistent" (MemoryPool.h:75).      *)
(***************************************************************************)
SkipLeavesPoolConsistent == fault # "none" /\ ~aborted => FreeListExact
=============================================================================
