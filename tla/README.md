# Models of the matching engine

TLA+ models of the limit order book in `src/OrderBook.h`, of the parts it is
built from, of the program that starts it, and of the reference book its
differential tests compare it with; TLC runs that check them on small instances;
and TLAPS proofs about the book, the memory pool, the price index, the journal, the
entry gate and the start-up for every size.

Paths below are relative to the repository.

## The system

The program is one library and one benchmark program. A book belongs to the
thread that built it, allocates nothing after construction and does no I/O on the
trading path; in instrumented builds a gate refuses calls from other threads and
from inside its own callback.

| Part | State | Operations | Meets |
|---|---|---|---|
| `MemoryPool` (`src/MemoryPool.h`) | slots, `free_head_`, and in instrumented builds a live stamp per slot and counters | `allocate`, `deallocate`, `deallocate_chain`, fault handler, `free_list_depth` | its client owns live slots and writes their first word, which is the free-list link while the slot is free |
| `PriceLevel` (`src/PriceLevel.h`) | head, tail, total quantity, order count | `append_order`, `remove_order`, `is_empty` | links orders inside the pool's slots |
| Price index (in `src/OrderBook.h`) | per side a bitset with one bit per tick, and a summary with one bit per bitset word | set, clear, scan up (asks), scan down (bids) | finds the next best price when a level empties |
| `OrderBook` (`src/OrderBook.h`, `src/OrderBook.cpp`) | levels and index per side, cached best prices, `order_map_`, `active_count_`, the pool | `add_order`, `cancel_order`, `validate_book` | calls the client's `on_trade` in the middle of a match |
| Construction (`src/OrderBook.cpp`, `src/MemoryPool.h`) | the storage of a book | reserve, validate, pre-touch | runs under the memory lock `main()` negotiated |
| Entry gate (in `src/OrderBook.h`) | `in_public_entry_`, `owner_thread_`, the process-wide fault handler | `debug_entry_gate`, `EntryLatch`, `book_fault`, `set_book_fault_handler` | refuses calls from inside `on_trade` or from another thread |
| `Journal` (`src/Journal.h`) | a ring of entries and a position | `record`, `at`, `clear`, `dump` | written by every book operation, read by people; relies on the gate for its single writer |
| Reference book (`tests/StdOrderBook.h`) | sorted maps of lists, id maps | `add_order`, `cancel_order` | oracle of `tests/test_differential_fuzz.cpp` |
| Memory locking (`src/main.cpp`) | lock mode, `MCL_FUTURE` | `prepare_memory_locking`, `locked_alloc_probe_ok` | decides whether the reservations of every later book are locked |

What is hardest here is **redundancy and overlays**. The same fact
is kept in many places that different lines maintain: a resting order is in the
id map, in a queue, in a level's totals, in two bitset levels, possibly in the
cached best price, in `active_count_` and in the pool's stamps. The first word
of a slot is the client's `next` while it is live and the pool's free-list link
when it is not, so one stale index corrupts something else, later. And
`match_order_direct` has three ways of consuming a level, written out twice
(once per side), which the client observes half-way through `on_trade`. Threads
and callbacks meet the book only at the gate, whose fault handler is read without
synchronisation; the kernel meets it at construction, and may say that memory is
locked when no locked memory can be had.

What makes each part correct:

- pool: the free list is acyclic, inside the pool, disjoint from the live slots,
  and complete; a slot is never handed out twice;
- index: the summary agrees with the words, and a scan finds exactly the
  neighbouring occupied tick, across word and summary-word boundaries;
- level: FIFO under appends, drained heads and removals anywhere;
- book: `validate_book()` after every call; never crossed; the trades, verdicts
  and filled quantities of the reference book; calls terminate; an order that is
  refused for lack of a slot has traded nothing;
- gate: one call at a time behind it, the owner's outermost; the latch exact, a
  blocked call included; `SkipOperation` honoured;
- journal: `at` and `dump` show the last entries in order; what is recorded tells
  the reader every queue of the book;
- construction: the pre-touch covers the storage of a book that was built, whichever
  of its calls fail, and the storage is large enough for every index; refused arguments are diagnosed;
- memory locking: the recap is true, and the process never dies because it asked
  for locked memory.

`PROJECT.json` lists the hazards line by line, each with the properties that
would catch it.

## Modules

| Module | Models | Notes |
|---|---|---|
| `MemoryPool` | `src/MemoryPool.h` | a trusted client (`TrustedSpec`) and one that passes any index (`Spec`) |
| `PriceIndex` | the bitset and scans | pure operators; a machine word is the set of its 1 bits |
| `PriceIndexSpec` | one side's index on its own | levels fill and empty in any order |
| `PriceIndexBits` | the same index in machine words, with the masks and bit counts | runs in lock step with `PriceIndexSpec` and justifies the set view of a word |
| `PriceLevel` | `src/PriceLevel.h` | operators on a level and the slots |
| `OrderBook` | the book | extends `PriceIndex` and `PriceLevel` |
| `StdOrderBook` | `tests/StdOrderBook.h` | the abstract specification |
| `OrderBookRefinement` | both refinements of the book | `StdOrderBook` above it, `MemoryPool` below it |
| `OrderBookJournal` | the `HFT_JOURNAL` calls of the book, and a reader of them | extends `OrderBookRefinement` |
| `Journal` | `src/Journal.h` | the ring; `JournalSpec` is its contract |
| `EntryGate` | the gate, the latch and `book_fault` | extends `Journal`: what runs behind the gate records entries |
| `MemLock` | `prepare_memory_locking` | on any kernel |
| `BookConstruction` | the constructors of the book and its pool | extends `MemLock`: the books `main()` builds |
| `MemoryPoolProofs`, `PriceIndexLemmas`, `PriceIndexProofs`, `OrderBookLemmas`, `OrderBookProofs`, `OrderBookRefinementProofs`, `EntryGateProofs`, `BookConstructionProofs` | | lemmas and theorems |
| `MCMemoryPool`, `MCOrderBook`, `MCOrderBookRefinement`, `MCOrderBookJournal`, `MCEntryGate`, `MCBookConstruction` | | for TLC |

All of the trading path models the instrumented build (`HFT_DEBUG_TOOLS`), whose stamps and
poisoning make a wrong step visible. The release build runs the same control
without the checks: `KeepsPoolContract` is what it relies on.

**MemoryPool.** `link[i]` is the first word of slot `i`. Every operation may
find the words of live slots rewritten by their owner (`FreeLinksKept` pins only
those of free slots), so the book's writes of `Order::next` are stutters or
`ClientWrite`s of the pool. `allocated` stands for the two stamps the code keeps
in step. A faulting call goes through `PoolFault`, which aborts unless the
handler answers `SkipOperation`.

**PriceIndex.** `ScanUp` is `update_best_ask_after_remove` and the same code
inlined in the matching loop; `ScanDown` is its bid twin. They are compared with
`FirstFrom` and `LastBelow`, which know nothing of words. `PriceIndexBits` keeps
the arrays of numbers the code keeps, updates them with the code's `|=` and
`&= ~`, and scans them with its masks, `countr_zero` and `countl_zero`.

**OrderBook.** `slot`, `free_head` and `allocated` are the pool; `levels`,
`index` and `best` are functions of the side, so the two copies of the code
become one set of actions (`MatchStep`) taken by `MatchBuy` and `MatchSell`, with
the genuinely different parts (`BuyCrosses`/`SellCrosses`,
`AdvanceBestAsk`/`AdvanceBestBid`) kept apart. `add_order` is split exactly where
it calls `on_trade`, since nothing else can observe it: `pc = "walk"` with a maker
left is a state inside the callback (`OnTrade`), with the trade `CurrentTrade`.
`cancel_order` calls nobody back and is one step; `OrderType::Cancel` through
`add_order` is the same step. `POISON` is what a freed slot's fields read as.
`reported` is a history variable.

**StdOrderBook / OrderBookRefinement.** The mapping turns each level's linked
queue into a sequence of ids and quantities. On the whole-level ("chain") path
the engine walks first and frees afterwards; there the abstract queue starts at
the cursor and the abstract remaining quantity is reduced by the makers already
walked. `Pool` maps the book to `MemoryPool` with `link[i] = slot[i].next`.

**Journal.** `record()` is two steps, `Store` and `Bump`, because what goes wrong
with two writers goes wrong between them. `JournalNext` is the ring's contract:
one writer at a time and no `clear()` in the middle. `log` is a history variable,
everything recorded since the last `clear()`.

**OrderBookJournal.** Each step of `OrderBook` is paired with the entries the
code records there (`CancelRecords`, `FillRecords`, `LevelRecords`, ...). Keeping
the whole log would make every behaviour a state of its own, so the model keeps
what a reader makes of it: `replayed`, the queues it believes in, and `announced`,
the last best price it was told. `TradeExecuted` names the taker only; the reader
takes the maker for the first of its queue. A step records at most two entries,
which `ReadAll` reads in turn. `Followed` selects the events the
reader looks at, so that a run does not carry state it does not ask about.

**EntryGate.** A thread has a stack of calls, the inner ones made by its
`on_trade`. `book_fault` is `Fault`, `FaultRead` (`set_book_fault_handler(nullptr)`
reads the static), `FaultSwap` (and writes it), `FaultRestore` and then `Blocked`
or `Abort`: every interleaving of two of them is a behaviour. `installed` and
`overlapped` are history variables. The body behind the gate is reduced to what
the gate protects: it records entries and calls `on_trade`. The owner may clear
the journal between calls and inside `on_trade`, which `journal()` allows.

**MemLock and BookConstruction.** `host` is the kernel: each call may be refused,
and `maps` or `mlock` false on a host with `mlockall` true is the runtime that
`tools/mlock_gvisor_sim.c` simulates. A block is what `resize()` returns, at some
offset in its page, with the pages the pre-touch has reached; that `resize()` has
written it before is not counted.
The pool comes first because it is a member; then the checks, the seven vectors
and the `madvise` chain. Sizes are in units of four bytes. `ConstructorArgs` are the
arguments the parameter types can hold; a run passes some of them (`Args`).

## Runs

| Run | Shows |
|---|---|
| `pool_trusted` | with a client that keeps the contract, the free list holds every free slot once (`FreeListExact`) |
| `pool_arbitrary` | with any arguments and any handler, the list is never corrupted (`FreeListSafe`) |
| `pool_skip` | **finding**: a broken chain under `SkipOperation` leaks the slots before the break |
| `price_index` | the scans and the summary, and that the machine words compute them, over three summary words |
| `book_core` | type safety, `validate_book`, what clients are told |
| `book_prices` | never crossed, refinement of the reference book across five prices, the journal replays to the queues, termination |
| `book_fifo` | refinement with queues of three, and of the pool's contract; the journal again |
| `cancel_verdict` | **finding**: cancels of ids out of range get different verdicts from engine and oracle |
| `gate_journal` | two threads, nested calls and every handler: one call behind the gate, the latch, `SkipOperation`, the ring and its contract |
| `startup` | every host and environment, arguments on both sides of every limit: recap, self-heal, pre-touch, indices |
| `best_journal` | **finding**: the best price moves without an entry |
| `refusal` | **finding**: bad arguments may end in `bad_alloc` instead of their diagnostic |

**Bounds.** Three slots give a chain a head, a middle and a tail, and a pool
that can be empty, full and in between; one id more than slots gives an order
that does not fit. Words of one or two bits make two or three summary words with
a handful of ticks, so that every branch of the scans is taken, and the last
words are partly used. `price_index` has twenty ticks in words of three bits
(seven words, three summary words); eleven of them, `UsedTicks`, fill and empty:
both ends and the middle of words, and words that stay empty in between. All 2^11
sets are reached and the scans start from every tick. `book_core` has `QuantityModulus = 4` with quantities up
to 3, so a level can hold more than any taker may ask for (the 64-bit total
against the 32-bit quantity). `book_prices` offers prices 1, 2 and 5 of 1..5: an
adjacent step, a scan within a summary word and one across. It alone also passes
bad arguments: prices 0 and 6, ids 0 and 4, quantity 0.
`MARKET_BUY_PRICE` lies above every price, as `UINT32_MAX` does. In
`book_prices` and `book_fifo` clients cancel only ids inside the map's range,
where engine and oracle agree; `cancel_verdict` is about the others. Since ids,
prices and slots are used as numbers, no symmetry is declared.

`gate_journal` has the owner and one foreign thread, calls two deep, and up to
five records between two clears in rings asked for 0, 3 and 4 entries (1, 2 and 4
after rounding), so that each wraps. Two threads are enough for a fault to meet a
fault or an installation; the theorems are for any number. `startup` shrinks the
machine: sizes of four bits, indices of three, pages of eight units, so that the
limits 6, 7 and 15 stand for the id cap, one above it and the largest `size_t`
(whose successor is 0), and price ranges fall below, at and above the cap. Two
books in a row are built, each with its own arguments.

`pool_arbitrary`, `pool_skip`, `gate_journal`, `startup` and `refusal` end when
the process aborts or `main()` returns, so they do not check deadlock; every other
run does.

**Fairness.** `FairSpec` asks weak fairness of the engine's steps and of the
client reading a result; `RecordedFairSpec` is the same with the journal. The engine is sequential code on one thread: a call that
has been entered keeps running. Nothing makes the client call. Under it
`CallReturns` says that the matching loops terminate.

Each property is paired in `PROJECT.json` with a mutation of the modelled code
that breaks it; the mutants are the definitions whose comment begins "Mutant of".

## Theorems

`MemoryPoolProofs` assumes only `CapacityAssumption` (the constructor's clamp:
the capacity is below `INVALID_INDEX`).

- `TrustedFreeListExact`: `TrustedSpec => [](TypeOK /\ FreeListExact)`.
  `FreeListExact` says a list exists; to be inductive the invariant must carry
  the list, as a function `fl` from positions to slots (`ListOf`), together with
  the fact that every free slot has a position (`Covers`) and that the counter is
  the number of live slots (`Counted`). Each operation says what it does to `fl`:
  `allocate` drops the first position (`AllocateList`), `deallocate` and
  `deallocate_chain` put one or `m` slots in front (`SpliceList`). That the list
  has `Capacity - live_count` positions follows from counting an injective
  function's image.
- `FaultingFreeListSafe`: `Spec => [](TypeOK /\ FreeListSafe)`, the same
  invariant without `Covers`, which `SkipOperation` destroys.

`PriceIndexProofs` assumes only `PriceAssumption` (`MinPrice <= MaxPrice`, words
of at least one bit).

- `ScansExact`: `Spec => [](SummaryExact /\ ScanUpExact /\ ScanDownExact)`. The
  inductive invariant `Sound` adds to `SummaryMatches` that no bit past the last
  tick and no summary bit past the last word is set: the words cover more bits
  than there are ticks, and a scan that met such a bit would return a price out
  of range. The argument (`PriceIndexLemmas`) is that indices compare by word
  first and by bit second (`LexOrder`), applied twice; each scan is then a case
  split on where its answer lies.

  `SummaryStaysExact`, `AskScanExact` and `BidScanExact` state its parts.

`EntryGateProofs` proves the ring from `JournalAssumption` alone (capacities asked
for are natural numbers).

- `JournalShowsSuffix`: `JournalSpec => []WindowIsSuffix`. The property says
  nothing while an entry is being recorded and nothing of where an entry lies, so
  the invariant `RingInv` says both: `OneWriter` (the log is one longer than `pos`
  exactly while somebody stores) and `Retained` (each of the last `capacity`
  entries of the log lies at its position modulo the capacity). A store keeps
  `Retained` because two positions less than a capacity apart lie in different
  entries (`DistinctEntries`). It uses of `std::bit_floor` only that it is
  positive; that the mask is the modulo is `MaskIsModulo`, which needs bits and is
  checked by TLC.

The gate needs `GateAssumption` (the owner is a thread, threads may write the
journal), and is proved for any set of threads and any depth of calls.

- `OwnerIsAlone` and `LatchIsExact`. The invariant `GateInv` adds `Nested` (a call
  that made another one is in `on_trade`; without it a returning call could
  uncover anything) and `StoringExact` (an entry is being recorded exactly while
  the owner's call is at "record"). Every action is one of three changes to a
  stack (`Moved`, `Pushed`, `Left`), and the invariant is kept per change.
- `GateKeepsContract`: `GateSpec => JournalSpec`, step by step, from `GateInv`;
  and with `JournalShowsSuffix` its corollary `GatedJournalShowsSuffix`.
- `SkipIsHonoured`. The invariant `HandlerKept`: while nothing has overlapped, at
  most one thread has the handler in its hands, what it read is what was installed
  last, and with nobody between swap and restore the handler is in its place.

`OrderBookProofs` assumes `PriceAssumption` and `BookAssumption` (the capacity is
below `INVALID_INDEX`, clients pass natural numbers, quantities fit their width and
the price of a market buy lies above the range), for any capacity, price range,
word size and width of a quantity, and any sets of ids, prices and quantities
clients pass.

- `TypeCorrect`, `BookValid` (`Spec => []ValidateBook`), `BookNeverCrossed`,
  `FillsAreReported`, `TradesAtBest` and `ExhaustedMeansUnfilled`: every invariant
  the runs check of `OrderBook`.

  All follow from one invariant, `Inv` (`InvHolds`). `ValidateBook` is what
  `validate_book()` computes, by following links; it is not inductive, and it only
  speaks of the states between two calls. `Inv` says that there are three numbers per
  slot: `pos`, its place in its level's queue; `acc`, the quantity of the queue up
  to and including it; and `rank`, its place in the free list. A queue is then a set of slots
  numbered without gaps (`Chain`), whose links lead from each number to the next
  and back (`Backward`), whose sums are right (`Sums`), and whose level holds the
  ends, the length and the total (`Queue`); the free list is a `Chain` of the slots
  that are not live. `Store` says this of all levels and the free list at once,
  and that the members of a level are exactly the live slots with its side and
  price. Around it, `BookInv` relates the index, the cached best prices, the id map
  and the call in progress, also in the middle of a match, where the code lets them
  disagree: an emptied best level keeps its bit until `LevelDone` (`Pending`), and
  the slots of a chain that has been walked but not spliced have lost their map
  entry (`Walked`).

  `OrderBookLemmas` says what each operation of the pool and of a level does to
  the numbers: an append, a removal at any place, a splice of a whole queue and a
  partial fill are `StoreAdd`, `StoreRemove`, `StoreSplice` and `StoreShrink`.
  `OrderBookProofs` has one lemma per action. Two arguments carry more than
  bookkeeping. `ExhaustedMeansUnfilled` holds because a taker that has traded and
  has something left has emptied at least one slot of its own call (`TakerInv`),
  so the free list cannot be empty when it comes to rest. `BookNeverCrossed` holds
  because an order comes to rest only after the loop has found that it does not
  cross the cached best price, which is the best of the *index*; that no level
  beyond it crosses is `BestOn` and the scans of `PriceIndexLemmas`.

  `Hops`, `QuantityOf` and `RestingCount` are recursive functions, and the
  library's induction theorems cannot be used with these provers. Each is by
  definition a `CHOOSE` over the functions that satisfy its equations: the queue
  exhibits one (the numbers again), and any two agree along a list, because there
  is no least place at which they could differ.

`OrderBookRefinementProofs` has the same assumptions.

- `EngineImplementsReference`: `Spec => ImplementsReference`, for clients that
  cancel ids of `1 .. MaxOrderId`. The hypothesis is needed: for other ids the two
  books answer different reasons, the second finding below.

  The mapping shows, for each price, the sequence of orders met by following the
  links, which has nothing to do with `pos`. The bridge is `Viewed`, which `Inv`
  implies: what `Walk` returns follows the links from its first slot to
  `INVALID_INDEX` (`Follows`) and lists, each once, the live orders of the level
  that the id map still knows (`Waits`). At most one sequence follows the links
  from a given slot (`FollowsUnique`), so a queue after a step is found by
  exhibiting one: the same (`QueueStays`), its tail (`DrainedQueue`), itself without
  one place (`QueueWithout`), itself with one more (`AddRestedIs`). There is then
  one lemma per action. The chain path is where the two books are furthest apart:
  the engine drops map entries and nothing else until `ChainDone`, and the
  reference removes an order and its quantity at each callback. `ChainView` shows
  that the queue from the cursor on, and the remaining quantity without what has
  been reported, are what the reference has, and `SpliceUnseen` that the splice is
  no step of it.
- `TradesAreTheReferences`: `Spec => []TradesAgree`. The cached best price is the
  extreme of the occupied prices of the mapped book (`BestAgrees`), and the maker
  at the cursor is the first of its queue (`MakerFirst`).
- `BookKeepsPoolContract`: `Spec => KeepsPoolContract`, with no hypothesis on the
  ids. A cancelled order's predecessor, and the tail an order is appended to, are
  live, so the writes of their links are the client's own; what `ChainDone` frees
  is the whole queue, ending at `level.tail` (`ChainSpliced`). By
  `TrustedFreeListExact` the pool of the book then never loses a slot.

- `JournalRebuildsBook`: `RecordedSpec => []JournalReplays`, for a reader that
  follows the four events about queues (`OrderRested`, `TradeExecuted`, `MakerFilled`,
  `OrderCancelled`) and, perhaps, others. Without the hypothesis the reader would
  ignore what it is told.

  The lemmas of the refinement already say what a step does to `AbstractQueue`; what
  is left is that the entries say the same. The difference is that an entry names an
  order and the book names a place. `NamesOne` closes it: an id shown in a queue is
  the id of the order that `order_map_` finds for it, so it stands in one queue at one
  place, and removing by id (`Without`) removes what `cancel_order` unlinked
  (`CancelRecorded`). For a fill the reader takes the traded quantity from the head
  of the best queue and, when told that the maker is filled, drops the id, which is the
  head (`FillRecorded`); this covers the chain path too, since `AbstractQueue` starts
  at the cursor there. The other entries name no order the reader keeps
  (`OthersRecorded`).
- `RecordingDisturbsNothing`: `RecordedSpec => Spec`. Every theorem about `OrderBook`
  holds of the book with its journal.

`BookConstructionProofs` assumes `MemoryAssumption` (the host's memory is a natural
number) and `ConstructionAssumption`: `size_t` is at least as wide as the type of an
index, words and pages are not empty, blocks start inside a page, and the arguments are
values of `size_t` and `Price`. Widths, page size, word size, the price-range cap, the number of books and the host
are arbitrary.

- `NegotiationTellsTheTruth`, `ReservationsFailForMemory`, `PreTouchCoversStorage` and
  `BuiltIndicesInside`: the four invariants of `startup`, all from `StartInv`.

  They speak of the end of the negotiation and of finished books; `StartInv` adds what
  holds on the way. `NegotiationInv`: the lock is in force from `mlockall` until the
  process heals, and a probe page that is mapped shows that this host grants locked
  mappings, so that whoever keeps the lock may map. That is why a reservation can
  fail only for lack of memory. `BookInv`: the blocks are those of `Structures` in their
  order, each with the bytes its structure asks for; the pool's is covered as soon as it
  is reserved, the others when the `madvise` chain or the fallback is through; and beyond
  the pool nothing is reserved before the arguments have passed the checks. `Covered`
  rests on `Strides`: from a place in page 0 the steps fall into one page after the
  other, and the page they stop before can only be the last, of a block that does not
  start on a page boundary. From the checks, `max_order_id + 1` and `max_price + 1` do
  not wrap, and the index of every tick falls into a word, and its word into a summary
  word, that exists (`WordInside`, used twice).

Only model-checked, not proved: `CallReturns`, because liveness under fairness is
beyond the prover; and `MachineWordsAgree`, `MachineScanUpAgrees`,
`MachineScanDownAgrees` (`PriceIndexBits`) and `MaskIsModulo`, because they are about
bitwise operators, which the prover does not have. Every other property of a passing
run is stated by a theorem.

## Findings

1. `FaultAction::SkipOperation` is documented as "the faulting call returns
   without mutating; the pool stays internally consistent"
   (`src/MemoryPool.h:75`). `deallocate_chain` has released every slot before the
   one it faults on, and does not put them on the free list (`pool_skip`). The
   list stays safe (`FaultingFreeListSafe`), but slots are lost. A comment inside
   the function says so; the enumerator's contract does not.
2. `tests/StdOrderBook.h:24-28` claims the engine's input validation, "id bounds"
   included, and `cancel_order` there has no id check: the verdicts differ for id
   0 and ids above `max_order_id` (`cancel_verdict`).
3. `BestBidChanged` and `BestAskChanged` are documented as the best price's
   transitions, in a journal "written at every order state transition"
   (`src/Journal.h:9-10,38-39`). They are recorded when an order rests in front
   and when a taker's emptied level makes the index be scanned; not when the
   adjacent level becomes the best (`src/OrderBook.h:502-504`) and never by
   `cancel_order` (`best_journal`).
4. "Invalid arguments abort with a diagnostic on stderr rather than throwing"
   (`src/OrderBook.h:155-156`). The pool is a member and reserves its storage
   before the constructor's body looks at the arguments, so a request the body
   would refuse can end in the pool's `bad_alloc` first (`refusal`).

Noticed while modelling, without a run of their own: `touch_fallback` steps by
pages from the start of a structure and does not reach the last page of one that
starts inside a page, where the comment at its call says "fault every page
deterministically here" (`src/OrderBook.cpp:135-136`) (harmless while `resize()`
writes every page, as the comments there say it does; `PreTouchCovers` says that
nothing else is missed); `book_fault` takes the handler out while it looks at it, so a
second thread that a latch catches in between finds none and aborts although one that
answers `SkipOperation` is installed (the static is marked "single-threaded engine
contract", but the thread latch that reads it exists for calls that break that
contract; `SkipHonoured` says that only this, or an installation in the middle of a
fault, makes a fault abort under `SkipOperation`); `Journal::total()` is
called monotonic (`src/Journal.h:121`) and `clear()` resets it; `OrderSubmitted`
is described as the entry of `add_order` (`src/Journal.h:31`) and is not recorded
for an add that is refused; a failed `setrlimit` is "best effort; a warning is
non-fatal" (`src/main.cpp:14`), and the code then does not try `mlockall` at all.

## Not modelled

Prefetching, inlining, alignment, time stamps and the benchmarks' measurements:
they change how fast a call is, not what it does. The Windows variants of the
pre-touch and of the locking. Moving a book or a pool. Pool statistics beyond the
live count, and the level canary, which nothing in the engine reads or
overwrites. The fields of a journal entry that only people read (time stamp,
reject reason). The tests, the fuzz driver and the latency tools drive the
modelled components and hold no logic of their own that the book depends on.

## Plan

All of the plan is done: every component that holds logic is modelled, and every safety
property of the runs that the prover can express is proved. What could be added next
needs other means: the machine words of `PriceIndexBits` and the journal's mask for all
sizes (a prover with bit vectors), and `CallReturns` for all sizes (a prover for
liveness; the measure would be the makers left on the levels the taker crosses).
