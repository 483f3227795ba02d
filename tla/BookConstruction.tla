-------------------------- MODULE BookConstruction --------------------------
(***************************************************************************)
(* The constructors of OrderBook (src/OrderBook.cpp) and of its MemoryPool *)
(* in a process that has negotiated its memory (MemLock): reservations,    *)
(* argument checks and the pre-touch, on Linux.  Sizes are in units of     *)
(* four bytes.  The arrays of the debug tools are left out: they are       *)
(* reserved in the same way and never pre-touched.                         *)
(***************************************************************************)
EXTENDS MemLock, FiniteSetsExt

CONSTANTS
  Args,             \* the constructor arguments a client may pass
  SizeModulus,      \* 2^64: size_t
  IndexModulus,     \* 2^32: OrderId, Price and slot indices
  MaxPriceRange,    \* kMaxPriceRangeTicks
  WordBits,         \* detail::kWordBits
  PageSize,         \* detail::kPageSize
  Alignments,       \* where in its page a block may start
  MaxBooks          \* bound: books built one after the other

\* What size_t and Price hold.
ConstructorArgs ==
  [max_order_id : 0 .. SizeModulus - 1, max_active_orders : 0 .. SizeModulus - 1,
   min_price : 0 .. IndexModulus - 1, max_price : 0 .. IndexModulus - 1]

ASSUME ConstructionAssumption ==
  /\ SizeModulus \in Nat
  /\ IndexModulus \in 3 .. SizeModulus
  /\ WordBits \in Nat \ {0}
  /\ PageSize \in Nat \ {0}
  /\ Alignments \subseteq 0 .. PageSize - 1
  /\ Args \subseteq ConstructorArgs

VARIABLES
  args,         \* the arguments of the book under construction
  blocks,       \* its storage, in the order of reservation
  diagnostic,   \* what the constructor wrote to stderr
  books         \* the books finished so far

bookVars == <<args, blocks, diagnostic, books>>

INVALID_INDEX == IndexModulus - 1
MaxOrderIds == IndexModulus - 2       \* kMaxOrderIds and kMaxPoolCapacity

NoArgs == [max_order_id |-> 0, max_active_orders |-> 0, min_price |-> 0, max_price |-> 0]

\* The pool is a member and comes first; the rest is reserved by the body.
Structures == <<"pool", "order_map", "bids_levels", "asks_levels",
                "bids_bitset", "asks_bitset", "bids_summary", "asks_summary">>

Capacity(a) == IF a.max_active_orders > MaxOrderIds THEN MaxOrderIds ELSE a.max_active_orders
PriceRange(a) == a.max_price - a.min_price + 1
WordsFor(n) == (n + WordBits - 1) \div WordBits

Count(a, s) ==
  CASE s = "pool" -> Capacity(a)
    [] s = "order_map" -> (a.max_order_id + 1) % SizeModulus
    [] s \in {"bids_levels", "asks_levels"} -> PriceRange(a)
    [] s \in {"bids_bitset", "asks_bitset"} -> WordsFor(PriceRange(a))
    [] s \in {"bids_summary", "asks_summary"} -> WordsFor(WordsFor(PriceRange(a)))

\* sizeof Order, uint32_t, PriceLevel and uint64_t.
UnitsOf(s) ==
  CASE s = "pool" -> 6
    [] s = "order_map" -> 1
    [] s \in {"bids_levels", "asks_levels"} -> 8
    [] OTHER -> 2

Bytes(a, s) == Count(a, s) * UnitsOf(s)

\* Mutant of Verdict: the order-id cap is not checked.
VerdictNoIdCap(a) ==
  CASE a.min_price > a.max_price -> "MinAboveMax"
    [] a.max_price = IndexModulus - 1 -> "PriceSaturates"
    [] PriceRange(a) > MaxPriceRange -> "RangeCap"
    [] OTHER -> "ok"

(***************************************************************************)
(* The refusals of the constructor, the first that applies.                *)
(***************************************************************************)
Verdict(a) ==
  CASE a.min_price > a.max_price -> "MinAboveMax"
    [] a.max_price = IndexModulus - 1 -> "PriceSaturates"
    [] a.max_order_id > MaxOrderIds -> "IdCap"
    [] PriceRange(a) > MaxPriceRange -> "RangeCap"
    [] OTHER -> "ok"

-----------------------------------------------------------------------------
(***************************************************************************)
(* A block is what resize() returns: storage at some place in a page.      *)
(* resize() writes initial values into it; touched are the pages that the  *)
(* pre-touch has reached since, all a lazily allocated structure would get.*)
(***************************************************************************)
PagesOf(base, bytes) == {(base + i) \div PageSize : i \in 0 .. bytes - 1}

Block(base, bytes) == [base |-> base, bytes |-> bytes, touched |-> {}]

\* External: madvise(MADV_POPULATE_WRITE) wants a page-aligned address.
MayPopulate(b) == host.populate /\ b.base = 0
Populated(b) == [b EXCEPT !.touched = PagesOf(b.base, b.bytes)]

\* touch_fallback and touch_pages_fallback: one byte read every PageSize.
TouchFallback(b) ==
  [b EXCEPT !.touched = @ \cup {(b.base + k * PageSize) \div PageSize :
                                  k \in {k \in 0 .. b.bytes : k * PageSize < b.bytes}}]

\* External: the allocator, under the lock that is in force.
Granted(bytes) == bytes <= host.memory /\ (bytes > 0 /\ future => host.maps)

NextBytes == Bytes(args, Structures[Len(blocks) + 1])

ConstructionInit ==
  /\ LockInit
  /\ args = NoArgs
  /\ blocks = <<>>
  /\ diagnostic = "none"
  /\ books = 0

-----------------------------------------------------------------------------
(***************************************************************************)
(* main() prints the recap and builds a book, when the last one is gone.   *)
(***************************************************************************)
BeginBook(a) ==
  /\ pc \in {"recap", "next"}
  /\ books < MaxBooks
  /\ args' = a
  /\ blocks' = <<>>
  /\ pc' = "pool"
  /\ UNCHANGED <<lockVars, diagnostic, books>>

(***************************************************************************)
(* MemoryPool's constructor: reserve, then pre-touch unless it is empty.   *)
(***************************************************************************)
PoolTouched(b) ==
  IF b.bytes = 0 THEN {b}
  ELSE {TouchFallback(b)} \cup {Populated(c) : c \in {c \in {b} : MayPopulate(c)}}

ReservePool ==
  /\ pc = "pool"
  /\ Granted(NextBytes)
  /\ \E base \in Alignments : \E b \in PoolTouched(Block(base, NextBytes)) : blocks' = <<b>>
  /\ pc' = "check"
  /\ UNCHANGED <<lockVars, args, diagnostic, books>>

(***************************************************************************)
(* The body of OrderBook's constructor: it aborts on bad arguments, or     *)
(* reserves the rest one after the other.                                  *)
(***************************************************************************)
RefuseArguments ==
  /\ pc = "check"
  /\ Verdict(args) # "ok"
  /\ diagnostic' = Verdict(args)
  /\ pc' = "aborted"
  /\ UNCHANGED <<lockVars, args, blocks, books>>

AcceptArguments ==
  /\ pc = "check"
  /\ Verdict(args) = "ok"
  /\ pc' = "reserve"
  /\ UNCHANGED <<lockVars, bookVars>>

Reserve ==
  /\ pc = "reserve"
  /\ Len(blocks) < Len(Structures)
  /\ Granted(NextBytes)
  /\ \E base \in Alignments : blocks' = Append(blocks, Block(base, NextBytes))
  /\ UNCHANGED <<lockVars, pc, args, diagnostic, books>>

\* bad_alloc, from the pool or from a vector of the body.
ReservationFails ==
  /\ pc \in {"pool", "reserve"}
  /\ Len(blocks) < Len(Structures)
  /\ ~Granted(NextBytes)
  /\ pc' = "terminated"
  /\ UNCHANGED <<lockVars, bookVars>>

(***************************************************************************)
(* The pre-touch of the seven vectors: madvise on one after the other, and *)
(* at the first that fails (which any of them may) the fallback on all.    *)
(***************************************************************************)
Body == 2 .. Len(Structures)

PopulateAll ==
  /\ pc = "reserve"
  /\ Len(blocks) = Len(Structures)
  /\ \A k \in Body : MayPopulate(blocks[k])
  /\ blocks' = [k \in DOMAIN blocks |-> IF k \in Body THEN Populated(blocks[k]) ELSE blocks[k]]
  /\ pc' = "built"
  /\ UNCHANGED <<lockVars, args, diagnostic, books>>

\* Mutant of PopulateFails: the fallback is for the structure whose madvise failed.
PopulateFailsOne(failing) ==
  /\ pc = "reserve"
  /\ Len(blocks) = Len(Structures)
  /\ \A k \in Body : k < failing => MayPopulate(blocks[k])
  /\ blocks' = [k \in DOMAIN blocks |->
                  CASE k \in Body /\ k < failing -> Populated(blocks[k])
                    [] k = failing -> TouchFallback(blocks[k])
                    [] OTHER -> blocks[k]]
  /\ pc' = "built"
  /\ UNCHANGED <<lockVars, args, diagnostic, books>>

PopulateFails(failing) ==
  /\ pc = "reserve"
  /\ Len(blocks) = Len(Structures)
  /\ \A k \in Body : k < failing => MayPopulate(blocks[k])
  /\ blocks' = [k \in DOMAIN blocks |->
                  IF k \notin Body THEN blocks[k]
                  ELSE TouchFallback(IF k < failing THEN Populated(blocks[k]) ELSE blocks[k])]
  /\ pc' = "built"
  /\ UNCHANGED <<lockVars, args, diagnostic, books>>

(***************************************************************************)
(* The benchmark is over and the book goes out of scope.                   *)
(***************************************************************************)
DestroyBook ==
  /\ pc = "built"
  /\ books' = books + 1
  /\ blocks' = <<>>
  /\ args' = NoArgs
  /\ pc' = "next"
  /\ UNCHANGED <<lockVars, diagnostic>>

Construct ==
  \/ \E a \in Args : BeginBook(a)
  \/ ReservePool
  \/ RefuseArguments
  \/ AcceptArguments
  \/ Reserve
  \/ ReservationFails
  \/ PopulateAll
  \/ \E failing \in Body : PopulateFails(failing)
  \/ DestroyBook

ConstructionNext == (Negotiate /\ UNCHANGED bookVars) \/ Construct

ConstructionSpec == ConstructionInit /\ [][ConstructionNext]_<<pc, lockVars, bookVars>>

-----------------------------------------------------------------------------
(***************************************************************************)
(* The self-heal works: a reservation fails only on a host that has not    *)
(* the memory, never because the process asked for locked memory on a      *)
(* host that cannot give any, whatever that host had answered before.      *)
(***************************************************************************)
DiesOnlyOfMemory == pc = "terminated" => NextBytes > host.memory

(***************************************************************************)
(* What the pre-touch of a finished book did, on every path through the    *)
(* madvise chain (which stops at its first failure, with the later         *)
(* structures never advised): it reached no page outside a structure, and  *)
(* all pages inside but possibly one, the last page of a structure that    *)
(* does not start on a page boundary.                                      *)
(***************************************************************************)
Covered(b) ==
  \A page \in PagesOf(b.base, b.bytes) \ b.touched :
    b.base # 0 /\ page + 1 \notin PagesOf(b.base, b.bytes)

PreTouchCovers ==
  pc = "built" =>
    \A k \in DOMAIN blocks :
      Covered(blocks[k]) /\ blocks[k].touched \subseteq PagesOf(blocks[k].base, blocks[k].bytes)

(***************************************************************************)
(* The indices of a book that was built stay inside its storage: each id   *)
(* and price add_order lets through, each level's bit, each word's summary *)
(* bit; no id it lets through and no slot is the reserved index, and the   *)
(* empty-ask sentinel of the Price type lies above every price.            *)
(***************************************************************************)
IndicesInside ==
  pc = "built" =>
    LET size(s) == blocks[CHOOSE k \in DOMAIN blocks : Structures[k] = s].bytes \div UnitsOf(s)
    IN  /\ \A id \in 1 .. IndexModulus - 1 :
             id <= args.max_order_id => id < size("order_map") /\ id # INVALID_INDEX
        /\ \A price \in args.min_price .. args.max_price :
             LET i == price - args.min_price
             IN  /\ i < size("bids_levels") /\ i < size("asks_levels")
                 /\ i \div WordBits < size("bids_bitset")
                 /\ (i \div WordBits) \div WordBits < size("bids_summary")
        /\ \A i \in 0 .. size("pool") - 1 : i # INVALID_INDEX
        /\ (args.max_price + 1) % IndexModulus > args.max_price

(***************************************************************************)
(* "Invalid arguments abort with a diagnostic on stderr rather than        *)
(* throwing" (src/OrderBook.h:155-156): a construction that dies in a      *)
(* reservation had valid arguments.                                        *)
(***************************************************************************)
InvalidArgumentsDiagnosed == pc = "terminated" => Verdict(args) = "ok"
=============================================================================
