----------------------------- MODULE PriceLevel -----------------------------
(***************************************************************************)
(* PriceLevel of src/PriceLevel.h: the FIFO of the orders resting at one   *)
(* price, an intrusive doubly linked list through the pool's slots.  The   *)
(* operations take the level and the slots and return both.                *)
(***************************************************************************)
EXTENDS Integers

CONSTANT INVALID_INDEX   \* UINT32_MAX, "no such index"

EmptyLevel == [head |-> INVALID_INDEX, tail |-> INVALID_INDEX,
               total_quantity |-> 0, order_count |-> 0]

IsEmpty(level) == level.head = INVALID_INDEX

\* Mutant of AppendOrder: a new order jumps to the front of the queue.
AppendOrderInFront(level, slot, i) ==
  [level |-> [head |-> i,
              tail |-> IF IsEmpty(level) THEN i ELSE level.tail,
              total_quantity |-> level.total_quantity + slot[i].quantity,
              order_count |-> level.order_count + 1],
   slot |-> [k \in DOMAIN slot |->
     IF k = i THEN [slot[i] EXCEPT !.prev = INVALID_INDEX, !.next = level.head]
     ELSE IF k = level.head THEN [slot[k] EXCEPT !.prev = i]
     ELSE slot[k]]]

(***************************************************************************)
(* append_order: slot i goes to the end of the queue.                      *)
(***************************************************************************)
AppendOrder(level, slot, i) ==
  [level |-> [head |-> IF IsEmpty(level) THEN i ELSE level.head,
              tail |-> i,
              total_quantity |-> level.total_quantity + slot[i].quantity,
              order_count |-> level.order_count + 1],
   slot |-> [k \in DOMAIN slot |->
     IF k = i THEN [slot[i] EXCEPT !.prev = IF IsEmpty(level) THEN INVALID_INDEX ELSE level.tail,
                                   !.next = INVALID_INDEX]
     ELSE IF ~IsEmpty(level) /\ k = level.tail THEN [slot[k] EXCEPT !.next = i]
     ELSE slot[k]]]

(***************************************************************************)
(* remove_order: slot i leaves the queue from wherever it stands.          *)
(***************************************************************************)
RemoveOrder(level, slot, i) ==
  LET prev == slot[i].prev
      next == slot[i].next
  IN  [level |-> [head |-> IF prev = INVALID_INDEX THEN next ELSE level.head,
                  tail |-> IF next = INVALID_INDEX THEN prev ELSE level.tail,
                  total_quantity |-> level.total_quantity - slot[i].quantity,
                  order_count |-> level.order_count - 1],
       slot |-> [k \in DOMAIN slot |->
         IF k = i THEN [slot[i] EXCEPT !.prev = INVALID_INDEX, !.next = INVALID_INDEX]
         ELSE IF k = prev THEN [slot[k] EXCEPT !.next = next]
         ELSE IF k = next THEN [slot[k] EXCEPT !.prev = prev]
         ELSE slot[k]]]
=============================================================================
