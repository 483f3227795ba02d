-------------------------- MODULE OrderBookProofs --------------------------
(***************************************************************************)
(* The order book for every capacity, price range, word size and quantity  *)
(* width.  BookInv relates the storage, the index, the cached best prices, *)
(* the id map and the call in progress in every state, also inside the     *)
(* matching loop where they disagree for a while: between the fast paths   *)
(* and LevelDone an empty level keeps its bit, and while a chain is walked *)
(* its orders lose their map entries before they lose their slots.         *)
(***************************************************************************)
EXTENDS OrderBookLemmas

\* The best level keeps its bit until the matching loop is done with it.
Pending(side) == IF pc = "level" /\ side = MakerSide THEN {best[side].idx} ELSE {}

IndexInv ==
  \A side \in Sides :
    /\ Sound(index[side])
    /\ SetTicks(index[side]) = Occupied(levels, side) \cup Pending(side)

BestInv == \A side \in Sides : BestOn(SetTicks(index[side]), side, best[side])

CrossInv ==
  \A bid \in SetTicks(index["Buy"]), ask \in SetTicks(index["Sell"]) : bid < ask

\* Slot i has been filled by the chain path and waits for the splice.
Walked(i, pos) ==
  /\ pc = "walk" /\ path = "chain"
  /\ i \in Members(slot, allocated, MakerSide, best[MakerSide].idx)
  /\ cursor = INVALID_INDEX \/ pos[i] < pos[cursor]

MapInv(pos) ==
  /\ \A i \in allocated : ~Walked(i, pos) => order_map[slot[i].id] = i
  /\ \A id \in 0 .. MaxOrderId : order_map[id] # INVALID_INDEX =>
       /\ order_map[id] \in allocated
       /\ slot[order_map[id]].id = id
       /\ ~Walked(order_map[id], pos)

\* The order being added has no map entry yet, and once it has traded there is
\* a slot for its remainder.
TakerInv ==
  /\ taker \in Takers
  /\ taker.id \in 1 .. MaxOrderId
  /\ order_map[taker.id] = INVALID_INDEX
  /\ taker.type = "Limit" => taker.price \in MinPrice .. MaxPrice
  /\ remaining <= taker.quantity
  /\ 0 < remaining /\ remaining < taker.quantity => free_head # INVALID_INDEX

AtBest ==
  /\ best[MakerSide].has
  /\ IF taker.side = "Buy" THEN best[MakerSide].price <= taker.price
     ELSE best[MakerSide].price >= taker.price

\* The three loops over the makers of the best level.
SingleInv ==
  /\ BestLevel.order_count = 1
  /\ BestLevel.total_quantity <= remaining
  /\ cursor = BestLevel.head
  /\ reported = taker.quantity - remaining

ChainInv(acc) ==
  /\ ~IsEmpty(BestLevel)
  /\ BestLevel.total_quantity <= remaining
  /\ IF cursor = INVALID_INDEX
     THEN reported = taker.quantity - remaining + BestLevel.total_quantity
     ELSE /\ cursor \in Members(slot, allocated, MakerSide, best[MakerSide].idx)
          /\ reported = taker.quantity - remaining + acc[cursor] - slot[cursor].quantity

SlowInv ==
  /\ remaining < BestLevel.total_quantity
  /\ remaining > 0 => cursor = BestLevel.head
  /\ reported = taker.quantity - remaining

WalkInv(acc) ==
  \/ path = "single" /\ SingleInv
  \/ path = "chain" /\ ChainInv(acc)
  \/ path = "slow" /\ SlowInv

CallInv(acc) ==
  /\ pc = "idle" => reported = 0
  /\ pc = "done" => filled = reported /\ (ret = "PoolExhausted" => filled = 0)
  /\ pc \in {"match", "walk", "level"} => TakerInv
  /\ pc \in {"match", "level"} => reported = taker.quantity - remaining
  /\ pc \in {"walk", "level"} => AtBest
  /\ pc = "walk" => WalkInv(acc)

CallType ==
  /\ index \in [Sides -> IndexType]
  /\ best \in [Sides -> Bests]
  /\ order_map \in [0 .. MaxOrderId -> Words]
  /\ pc \in {"idle", "match", "walk", "level", "done"}
  /\ taker \in Takers \cup {NoTaker}
  /\ remaining \in 0 .. QuantityModulus - 1
  /\ path \in {"none", "single", "chain", "slow"}
  /\ cursor \in Words
  /\ ret \in RejectReasons
  /\ filled \in 0 .. QuantityModulus - 1
  /\ reported \in 0 .. QuantityModulus - 1

Consistent(pos, acc, rank) ==
  /\ Store(slot, allocated, free_head, levels, pos, acc, rank)
  /\ active_count = Cardinality(allocated)
  /\ IndexInv
  /\ BestInv
  /\ CrossInv
  /\ MapInv(pos)

BookInv(pos, acc, rank) ==
  /\ Consistent(pos, acc, rank)
  /\ CallInv(acc)
  /\ CallType

Inv == \E pos, acc, rank : BookInv(pos, acc, rank)

-----------------------------------------------------------------------------
\* Arithmetic of Quantity, and the other side.
LEMMA Basics ==
  /\ 0 \in 0 .. QuantityModulus - 1
  /\ \A q \in 0 .. QuantityModulus - 1 : q \in Nat /\ q % QuantityModulus = q
  /\ INVALID_INDEX \in Words /\ INVALID_INDEX \notin Slots
  /\ \A side \in Sides : Opposite(side) \in Sides /\ Opposite(side) # side
  /\ NoTaker \notin Takers
<1>1. 0 \in 0 .. QuantityModulus - 1
  BY BookAssumption
<1>2. \A q \in 0 .. QuantityModulus - 1 : q \in Nat /\ q % QuantityModulus = q
  BY BookAssumption
<1>3. INVALID_INDEX \in Words /\ INVALID_INDEX \notin Slots
  BY BookAssumption DEF Words, Slots
<1>4. \A side \in Sides : Opposite(side) \in Sides /\ Opposite(side) # side
  BY DEF Opposite, Sides
<1>5. NoTaker \notin Takers
  BY DEF NoTaker, Takers
<1>. QED
  BY <1>1, <1>2, <1>3, <1>4, <1>5

\* A step outside the loops over the makers that leaves the book alone.
LEMMA BookFrame ==
  ASSUME NEW pos, NEW acc, NEW rank, Consistent(pos, acc, rank), UNCHANGED bookVars,
         pc \notin {"walk", "level"}, pc' \notin {"walk", "level"}
  PROVE  Consistent(pos, acc, rank)'
<1> USE DEF bookVars
<1>1. Store(slot, allocated, free_head, levels, pos, acc, rank)' /\ active_count' = Cardinality(allocated')
  BY DEF Consistent
<1>2. IndexInv'
  BY DEF Consistent, IndexInv, Pending
<1>3. BestInv' /\ CrossInv'
  BY DEF Consistent, BestInv, CrossInv
<1>4. MapInv(pos)'
  BY DEF Consistent, MapInv, Walked
<1>. QED
  BY <1>1, <1>2, <1>3, <1>4 DEF Consistent

\* The initial state.
LEMMA InitInv == Init => Inv
<1> SUFFICES ASSUME Init PROVE Inv
  OBVIOUS
<1> USE DEF Init
<1>1. PICK zero \in [Slots -> Nat] : zero = [i \in Slots |-> 0]
  OBVIOUS
<1>2. PICK rank \in [Slots -> Nat] : rank = [i \in Slots |-> i + 1]
  <2>1. \A i \in Slots : i + 1 \in Nat
    BY SlotsFinite
  <2>2. [i \in Slots |-> i + 1] \in [Slots -> Nat]
    BY <2>1
  <2>. QED
    BY <2>2, Zenon
<1>3. slot \in [Slots -> Orders]
  <2>1. \A i \in Slots : (IF i = Capacity - 1 THEN INVALID_INDEX ELSE i + 1) \in Words
    BY BookAssumption DEF Slots, Words
  <2>2. /\ INVALID_INDEX \in Words /\ 0 \in 0 .. MaxOrderId /\ 0 \in 0 .. MaxPrice
        /\ 0 \in 0 .. QuantityModulus - 1 /\ "Buy" \in Sides
    BY BookAssumption, PriceAssumption DEF Words, Sides
  <2>. QED
    BY <2>1, <2>2 DEF Orders
<1>4. EmptyLevel \in Levels
  BY BookAssumption DEF EmptyLevel, Levels, Words
<1>5. Cardinality({}) = 0
  BY FS_EmptySet
<1>6. Chain(slot, Slots \ allocated, Capacity - Cardinality(allocated), free_head, rank)
  <2>1. Slots \ allocated = Slots /\ Capacity - Cardinality(allocated) = Capacity /\ Capacity \in Nat
    BY <1>5, BookAssumption
  <2>2. \A i \in Slots : slot[i].next = IF i = Capacity - 1 THEN INVALID_INDEX ELSE i + 1
    OBVIOUS
  <2>3. \A i \in Slots : rank[i] = i + 1 /\ i \in 0 .. Capacity - 1
    BY <1>2 DEF Slots
  <2>4. IF Capacity = 0 THEN Slots = {} /\ free_head = INVALID_INDEX ELSE free_head \in Slots
    BY <2>1 DEF Slots
  <2>5. ASSUME NEW i \in Slots
        PROVE  /\ rank[i] \in 1 .. Capacity
               /\ rank[i] = 1 <=> i = free_head
               /\ IF rank[i] = Capacity THEN slot[i].next = INVALID_INDEX
                  ELSE slot[i].next \in Slots /\ rank[slot[i].next] = rank[i] + 1
    <3>1. i \in Nat /\ i < Capacity /\ rank[i] = i + 1 /\ free_head = 0
      BY <2>1, <2>3
    <3>2. CASE i = Capacity - 1
      BY <2>1, <2>2, <3>1, <3>2
    <3>3. CASE i # Capacity - 1
      <4>1. i + 1 \in Slots /\ slot[i].next = i + 1
        BY <2>1, <2>2, <3>1, <3>3 DEF Slots
      <4>2. rank[i + 1] = (i + 1) + 1
        BY <4>1, <2>3
      <4>. QED
        BY <2>1, <3>1, <3>3, <4>1, <4>2
    <3>. QED
      BY <3>2, <3>3
  <2>6. \A i, j \in Slots : rank[i] = rank[j] => i = j
    BY <2>3
  <2>7. Chain(slot, Slots, Capacity, free_head, rank)
    BY <2>4, <2>5, <2>6 DEF Chain
  <2>. QED
    BY <2>1, <2>7
<1>7. ASSUME NEW side \in Sides, NEW tick \in Ticks
      PROVE  Queue(slot, Members(slot, allocated, side, tick), levels[side][tick], zero, zero)
  <2>1. Members(slot, allocated, side, tick) = {} /\ levels[side][tick] = EmptyLevel
    BY DEF Members
  <2>2. Queue(slot, {}, EmptyLevel, zero, zero)
    BY <1>5 DEF Queue, Chain, Backward, Sums, EmptyLevel
  <2>. QED
    BY <2>1, <2>2
<1>8. Store(slot, allocated, free_head, levels, zero, zero, rank)
  <2>1. free_head \in Words
    BY BookAssumption DEF Words
  <2>2. levels \in [Sides -> [Ticks -> Levels]]
    BY <1>4
  <2>. QED
    BY <1>3, <1>6, <1>7, <2>1, <2>2 DEF Store
<1>9. IndexInv
  <2>1. Sound(EmptyIndex)
    BY EmptyIndexSound
  <2>2. SetTicks(EmptyIndex) = {}
    BY Sizes DEF SetTicks, EmptyIndex, WordIdx
  <2>3. \A side \in Sides : Occupied(levels, side) = {}
    BY DEF Occupied, IsEmpty, EmptyLevel
  <2>. QED
    BY <2>1, <2>2, <2>3 DEF IndexInv, Pending
<1>10. \A side \in Sides : SetTicks(index[side]) = {}
  BY <1>9 DEF IndexInv, Pending, Occupied, IsEmpty, EmptyLevel
<1>11. \A side \in Sides : EmptyBest(side) \in Bests /\ ~EmptyBest(side).has
  BY PriceAssumption, Sizes DEF EmptyBest, Bests, Ticks, PriceRange
<1>12. BestInv /\ CrossInv
  BY <1>10, <1>11 DEF BestInv, BestOn, CrossInv, Sides
<1>13. MapInv(zero)
  BY DEF MapInv
<1>14. CallType
  <2>1. EmptyIndex \in IndexType
    BY EmptyIndexSound DEF Sound
  <2>. QED
    BY <1>11, <2>1, Basics DEF CallType, RejectReasons
<1>15. CallInv(zero)
  BY DEF CallInv
<1>. QED
  BY <1>5, <1>8, <1>9, <1>12, <1>13, <1>14, <1>15 DEF Inv, BookInv, Consistent


-----------------------------------------------------------------------------
(***************************************************************************)
(* The steps between the calls, and the ends of a call, which leave the    *)
(* book alone.                                                             *)
(***************************************************************************)
\* The client resumes.
LEMMA ResumesKeepsInv ==
  ASSUME NEW pos, NEW acc, NEW rank, BookInv(pos, acc, rank), ClientResumes
  PROVE  BookInv(pos, acc, rank)'
<1>1. Consistent(pos, acc, rank)'
  BY BookFrame DEF BookInv, ClientResumes
<1>2. CallType'
  BY Basics DEF BookInv, CallType, ClientResumes, bookVars, RejectReasons
<1>3. CallInv(acc)'
  BY DEF CallInv, ClientResumes
<1>. QED
  BY <1>1, <1>2, <1>3 DEF BookInv

\* A refused cancel or add.
LEMMA RejectKeepsInv ==
  ASSUME NEW pos, NEW acc, NEW rank, BookInv(pos, acc, rank), NEW reason \in RejectReasons,
         pc = "idle", Return(reason, 0), UNCHANGED bookVars, reason # "PoolExhausted"
  PROVE  BookInv(pos, acc, rank)'
<1>1. Consistent(pos, acc, rank)'
  BY BookFrame DEF BookInv, Return
<1>2. CallType'
  BY Basics DEF BookInv, CallType, Return, bookVars
<1>3. CallInv(acc)'
  BY DEF BookInv, CallInv, Return
<1>. QED
  BY <1>1, <1>2, <1>3 DEF BookInv

\* cancel_order refuses the id.
LEMMA RejectCancelKeepsInv ==
  ASSUME NEW pos, NEW acc, NEW rank, BookInv(pos, acc, rank), NEW id, RejectCancel(id)
  PROVE  BookInv(pos, acc, rank)'
<1>1. PICK reason : reason = CancelVerdict(id)
  OBVIOUS
<1>2. reason \in RejectReasons /\ reason # "PoolExhausted"
  BY <1>1 DEF CancelVerdict, RejectReasons
<1>3. pc = "idle" /\ Return(reason, 0) /\ UNCHANGED bookVars
  BY <1>1 DEF RejectCancel
<1>. QED
  BY <1>2, <1>3, RejectKeepsInv

\* add_order refuses its arguments.
LEMMA RejectAddKeepsInv ==
  ASSUME NEW pos, NEW acc, NEW rank, BookInv(pos, acc, rank),
         NEW id, NEW type, NEW price, NEW quantity, NEW side,
         RejectAdd(id, type, price, quantity, side)
  PROVE  BookInv(pos, acc, rank)'
<1>1. PICK reason : reason = AddVerdict(id, type, price, quantity, side)
  OBVIOUS
<1>2. reason \in RejectReasons /\ reason # "PoolExhausted"
  BY <1>1 DEF AddVerdict, RejectReasons
<1>3. pc = "idle" /\ Return(reason, 0) /\ UNCHANGED bookVars
  BY <1>1 DEF RejectAdd
<1>. QED
  BY <1>2, <1>3, RejectKeepsInv

\* add_order accepts its arguments: the taker has no map entry and its limit is
\* inside the price range.
LEMMA AcceptAddKeepsInv ==
  ASSUME NEW pos, NEW acc, NEW rank, BookInv(pos, acc, rank),
         NEW id \in AddIds, NEW type \in {"Limit", "Market"}, NEW price \in OrderPrices,
         NEW quantity \in Quantities, NEW side \in Sides,
         AcceptAdd(id, type, price, quantity, side)
  PROVE  BookInv(pos, acc, rank)'
<1>1. pc = "idle" /\ pc' = "match" /\ UNCHANGED bookVars /\ remaining' = quantity
  BY DEF AcceptAdd
<1>2. Consistent(pos, acc, rank)'
  BY <1>1, BookFrame DEF BookInv
<1>3. quantity \in 0 .. QuantityModulus - 1 /\ price \in 0 .. MARKET_BUY_PRICE /\ id \in Nat
  BY BookAssumption
<1>4. AddVerdict(id, type, price, quantity, side) = "Accepted"
  BY DEF AcceptAdd
<1>5. /\ id \in 1 .. MaxOrderId /\ order_map[id] = INVALID_INDEX
      /\ type = "Limit" => price \in MinPrice .. MaxPrice
  BY <1>3, <1>4, BookAssumption, PriceAssumption DEF AddVerdict
<1>6. ResolvedPrice(type, price, side) \in 0 .. MARKET_BUY_PRICE
  BY <1>3, BookAssumption DEF ResolvedPrice, MARKET_SELL_PRICE
<1>7. PICK p : p = ResolvedPrice(type, price, side)
  OBVIOUS
<1>8. taker' = [id |-> id, type |-> type, side |-> side, price |-> p, quantity |-> quantity]
  BY <1>7 DEF AcceptAdd
<1>9. taker' \in Takers
  BY <1>3, <1>6, <1>7, <1>8 DEF Takers
<1>10. type = "Limit" => p \in MinPrice .. MaxPrice
  BY <1>5, <1>7 DEF ResolvedPrice
<1>11. TakerInv'
  BY <1>1, <1>3, <1>5, <1>8, <1>9, <1>10 DEF TakerInv, bookVars
<1>12. CallType'
  BY <1>1, <1>3, <1>9 DEF BookInv, CallType, AcceptAdd, bookVars
<1>13. reported' = taker'.quantity - remaining'
  BY <1>1, <1>3, <1>8 DEF BookInv, CallInv, AcceptAdd
<1>14. CallInv(acc)'
  BY <1>1, <1>11, <1>13 DEF CallInv
<1>. QED
  BY <1>2, <1>12, <1>14 DEF BookInv

\* The match is over and the order is filled, or the rest of a market order is
\* dropped.
LEMMA AddFilledKeepsInv ==
  ASSUME NEW pos, NEW acc, NEW rank, BookInv(pos, acc, rank), AddFilled
  PROVE  BookInv(pos, acc, rank)'
<1>1. pc = "match" /\ Return("Accepted", Filled) /\ UNCHANGED bookVars
  BY DEF AddFilled, MatchOver
<1>2. Consistent(pos, acc, rank)'
  BY <1>1, BookFrame DEF BookInv, Return
<1>3. reported = Filled /\ reported \in 0 .. QuantityModulus - 1
  BY <1>1 DEF BookInv, CallInv, CallType, Filled
<1>4. CallType'
  BY <1>1, <1>3 DEF BookInv, CallType, Return, bookVars, RejectReasons
<1>5. CallInv(acc)'
  BY <1>1, <1>3 DEF CallInv, Return
<1>. QED
  BY <1>2, <1>4, <1>5 DEF BookInv

\* The pool is exhausted: nothing was traded, or the trade would have freed a
\* slot.
LEMMA AddExhaustedKeepsInv ==
  ASSUME NEW pos, NEW acc, NEW rank, BookInv(pos, acc, rank), AddExhausted
  PROVE  BookInv(pos, acc, rank)'
<1>1. pc = "match" /\ Return("PoolExhausted", Filled) /\ UNCHANGED bookVars
  BY DEF AddExhausted, MatchOver
<1>2. Consistent(pos, acc, rank)'
  BY <1>1, BookFrame DEF BookInv, Return
<1>3. reported = Filled /\ reported \in 0 .. QuantityModulus - 1
  BY <1>1 DEF BookInv, CallInv, CallType, Filled
<1>4. Filled = 0
  <2>1. TakerInv /\ remaining \in Nat
    BY <1>1, Basics DEF BookInv, CallInv, CallType
  <2>2. taker.quantity \in Nat
    BY <2>1, Basics DEF TakerInv, Takers
  <2>3. ~(remaining < taker.quantity)
    BY <2>1, <2>2 DEF TakerInv, AddExhausted
  <2>. QED
    BY <2>1, <2>2, <2>3 DEF TakerInv, Filled
<1>5. CallType'
  BY <1>1, <1>3 DEF BookInv, CallType, Return, bookVars, RejectReasons
<1>6. CallInv(acc)'
  BY <1>1, <1>3, <1>4 DEF CallInv, Return
<1>. QED
  BY <1>2, <1>5, <1>6 DEF BookInv


-----------------------------------------------------------------------------
(***************************************************************************)
(* The matching loop.                                                      *)
(***************************************************************************)
\* The taker of a call in flight and the side it trades against.
LEMMA Matching ==
  ASSUME NEW pos, NEW acc, NEW rank, BookInv(pos, acc, rank), pc \in {"match", "walk", "level"}
  PROVE  /\ TakerInv /\ taker \in Takers /\ taker.side \in Sides
         /\ taker.quantity \in 0 .. QuantityModulus - 1 /\ taker.quantity \in Nat
         /\ remaining \in 0 .. QuantityModulus - 1 /\ remaining \in Nat
         /\ remaining <= taker.quantity
         /\ reported \in Nat
         /\ MakerSide \in Sides /\ MakerSide # taker.side
         /\ best[MakerSide] \in Bests /\ best[MakerSide].idx \in Ticks
         /\ BestOn(SetTicks(index[MakerSide]), MakerSide, best[MakerSide])
<1>1. TakerInv
  BY DEF BookInv, CallInv
<1>2. taker \in Takers /\ remaining <= taker.quantity
  BY <1>1 DEF TakerInv
<1>3. taker.side \in Sides /\ taker.quantity \in 0 .. QuantityModulus - 1
  BY <1>2 DEF Takers
<1>4. remaining \in 0 .. QuantityModulus - 1 /\ reported \in 0 .. QuantityModulus - 1
  BY DEF BookInv, CallType
<1>5. taker.quantity \in Nat /\ remaining \in Nat /\ reported \in Nat
  BY <1>3, <1>4, Basics
<1>6. MakerSide \in Sides /\ MakerSide # taker.side
  BY <1>3, Basics DEF MakerSide
<1>7. best[MakerSide] \in Bests
  BY <1>6 DEF BookInv, CallType
<1>8. best[MakerSide].idx \in Ticks
  BY <1>7 DEF Bests
<1>9. BestOn(SetTicks(index[MakerSide]), MakerSide, best[MakerSide])
  BY <1>6 DEF BookInv, Consistent, BestInv
<1>. QED
  BY <1>1, <1>2, <1>3, <1>4, <1>5, <1>6, <1>7, <1>8, <1>9

\* The best level is where its cached index says, and holds the orders of the
\* best price.
LEMMA AtBestLevel ==
  ASSUME NEW pos, NEW acc, NEW rank, BookInv(pos, acc, rank), pc \in {"match", "walk"},
         best[MakerSide].has,
         NEW S, S = Members(slot, allocated, MakerSide, best[MakerSide].idx),
         NEW level, level = BestLevel
  PROVE  /\ best[MakerSide].price = MinPrice + best[MakerSide].idx
         /\ best[MakerSide].idx \in SetTicks(index[MakerSide])
         /\ ~IsEmpty(level)
         /\ Queue(slot, S, level, pos, acc)
         /\ S \in SUBSET Slots /\ S \in SUBSET allocated /\ level \in Levels
         /\ level.order_count \in Nat \ {0} /\ level.total_quantity \in Nat
         /\ \A j \in S : /\ slot[j].quantity \in 1 .. QuantityModulus - 1
                         /\ slot[j].quantity \in Nat
                         /\ slot[j].side = MakerSide
                         /\ slot[j].price = best[MakerSide].price
                         /\ slot[j].price - MinPrice = best[MakerSide].idx
         /\ level.head \in S /\ pos[level.head] = 1
         /\ level.tail \in S /\ pos[level.tail] = level.order_count
         /\ slot[level.head].quantity <= level.total_quantity
<1>1. PICK side, tick : side = MakerSide /\ tick = best[MakerSide].idx
  OBVIOUS
<1>2. side \in Sides /\ tick \in Ticks /\ tick \in Nat
  BY <1>1, Matching, Sizes
<1>3. best[side].price = MinPrice + tick /\ tick \in SetTicks(index[side])
  BY <1>1, Matching DEF BestOn
<1>4. tick \in Occupied(levels, side)
  BY <1>2, <1>3 DEF BookInv, Consistent, IndexInv, Pending
<1>5. level = levels[side][tick] /\ S = Members(slot, allocated, side, tick)
  BY <1>1 DEF BestLevel
<1>6. ~IsEmpty(level)
  BY <1>4, <1>5 DEF Occupied
<1>7. Store(slot, allocated, free_head, levels, pos, acc, rank)
  BY DEF BookInv, Consistent
<1>8. /\ Queue(slot, S, level, pos, acc)
      /\ S \in SUBSET Slots /\ S \in SUBSET allocated /\ level \in Levels
      /\ level.order_count \in Nat /\ level.total_quantity \in Nat
      /\ \A j \in S : slot[j].quantity \in Nat /\ slot[j].quantity \in 1 .. QuantityModulus - 1
      /\ level.order_count # 0
      /\ level.head \in S /\ pos[level.head] = 1
      /\ level.tail \in S /\ pos[level.tail] = level.order_count
      /\ slot[level.head].quantity <= level.total_quantity
  BY <1>2, <1>5, <1>6, <1>7, LevelFacts
<1>9. \A j \in S : slot[j].side = side /\ slot[j].price = MinPrice + tick
  BY <1>5 DEF Members
<1>10. (MinPrice + tick) - MinPrice = tick
  BY <1>2, PriceAssumption
<1>. QED
  BY <1>1, <1>3, <1>6, <1>8, <1>9, <1>10

\* Entering a level: the path is chosen by what the level holds.
LEMMA EnterLevelKeepsInv ==
  ASSUME NEW pos, NEW acc, NEW rank, BookInv(pos, acc, rank), EnterLevel
  PROVE  BookInv(pos, acc, rank)'
<1>1. /\ pc = "match" /\ pc' = "walk" /\ Crosses /\ path' = PathOf(BestLevel)
      /\ cursor' = BestLevel.head
      /\ UNCHANGED bookVars /\ UNCHANGED <<taker, remaining, ret, filled, reported>>
  BY DEF EnterLevel
<1>2. AtBest /\ remaining > 0
  BY <1>1, Matching DEF Crosses, BuyCrosses, SellCrosses, AtBest, MakerSide, Opposite, Bests, Takers, Sides
<1>3. PICK S, level : S = Members(slot, allocated, MakerSide, best[MakerSide].idx) /\ level = BestLevel
  OBVIOUS
<1>4. /\ ~IsEmpty(level)
      /\ Queue(slot, S, level, pos, acc)
      /\ S \in SUBSET Slots /\ level \in Levels
      /\ level.order_count \in Nat \ {0} /\ level.total_quantity \in Nat
      /\ \A j \in S : slot[j].quantity \in Nat
      /\ level.head \in S /\ pos[level.head] = 1
  BY <1>1, <1>2, <1>3, AtBestLevel DEF AtBest
<1>5. UNCHANGED <<MakerSide, BestLevel>>
  BY <1>1 DEF MakerSide, BestLevel, bookVars
<1>6. level.head \in Words /\ level.head # INVALID_INDEX
  BY <1>4, SlotsFinite, Basics
<1>7. \A i : ~Walked(i, pos)'
  <2>1. SUFFICES ASSUME NEW i, Walked(i, pos)' PROVE FALSE
    OBVIOUS
  <2>2. i \in S /\ pos[i] < pos[level.head]
    BY <2>1, <1>1, <1>3, <1>5, <1>6 DEF Walked, bookVars
  <2>3. pos[i] \in 1 .. level.order_count
    BY <2>2, <1>4 DEF Queue, Chain
  <2>. QED
    BY <2>2, <2>3, <1>4
<1>8. \A i : ~Walked(i, pos)
  BY <1>1 DEF Walked
<1>9. MapInv(pos)'
  BY <1>1, <1>7, <1>8 DEF BookInv, Consistent, MapInv, bookVars
<1>10. Consistent(pos, acc, rank)'
  <2>1. Store(slot, allocated, free_head, levels, pos, acc, rank)' /\ active_count' = Cardinality(allocated')
    BY <1>1 DEF BookInv, Consistent, bookVars
  <2>2. IndexInv'
    BY <1>1 DEF BookInv, Consistent, IndexInv, Pending, bookVars
  <2>3. BestInv' /\ CrossInv'
    BY <1>1 DEF BookInv, Consistent, BestInv, CrossInv, bookVars
  <2>. QED
    BY <1>9, <2>1, <2>2, <2>3 DEF Consistent
<1>11. TakerInv'
  BY <1>1, Matching DEF TakerInv, bookVars
<1>12. AtBest'
  BY <1>1, <1>2, <1>5 DEF AtBest, bookVars
<1>13. reported = taker.quantity - remaining
  BY <1>1 DEF BookInv, CallInv
<1>14. acc[level.head] = slot[level.head].quantity /\ slot[level.head].quantity \in Nat
  BY <1>4 DEF Queue, Sums
<1>15. WalkInv(acc)'
  <2>1. CASE PathOf(level) = "single"
    <3>1. level.order_count = 1 /\ level.total_quantity <= remaining
      BY <2>1, <1>4, Matching, <1>1 DEF PathOf
    <3>2. SingleInv'
      BY <3>1, <1>1, <1>3, <1>5, <1>13 DEF SingleInv
    <3>. QED
      BY <2>1, <3>2, <1>1, <1>3 DEF WalkInv
  <2>2. CASE PathOf(level) = "chain"
    <3>1. level.total_quantity <= remaining
      BY <2>2, <1>4, Matching, <1>1 DEF PathOf
    <3>2. reported = taker.quantity - remaining + acc[level.head] - slot[level.head].quantity
      BY <1>1, <1>13, <1>14, Matching
    <3>3. ChainInv(acc)'
      BY <3>1, <3>2, <1>1, <1>3, <1>4, <1>5, <1>6 DEF ChainInv, bookVars
    <3>. QED
      BY <2>2, <3>3, <1>1, <1>3 DEF WalkInv
  <2>3. CASE PathOf(level) = "slow"
    <3>1. remaining < level.total_quantity
      BY <2>3, <1>4, Matching, <1>1 DEF PathOf
    <3>2. SlowInv'
      BY <3>1, <1>1, <1>3, <1>5, <1>13 DEF SlowInv
    <3>. QED
      BY <2>3, <3>2, <1>1, <1>3 DEF WalkInv
  <2>. QED
    BY <2>1, <2>2, <2>3 DEF PathOf
<1>16. CallType'
  <2>1. path' \in {"none", "single", "chain", "slow"}
    BY <1>1 DEF PathOf
  <2>. QED
    BY <2>1, <1>1, <1>3, <1>6 DEF BookInv, CallType, bookVars
<1>17. CallInv(acc)'
  BY <1>1, <1>11, <1>12, <1>15 DEF CallInv
<1>. QED
  BY <1>10, <1>16, <1>17 DEF BookInv

\* The slow loop is left: its level is not empty.
LEMMA SlowDoneKeepsInv ==
  ASSUME NEW pos, NEW acc, NEW rank, BookInv(pos, acc, rank), SlowDone
  PROVE  BookInv(pos, acc, rank)'
<1>1. /\ pc = "walk" /\ path = "slow" /\ pc' = "level"
      /\ UNCHANGED bookVars /\ UNCHANGED <<taker, remaining, path, cursor, ret, filled, reported>>
  BY DEF SlowDone
<1>2. AtBest /\ SlowInv
  BY <1>1 DEF BookInv, CallInv, WalkInv
<1>3. best[MakerSide].idx \in SetTicks(index[MakerSide])
  BY <1>1, <1>2, Matching DEF AtBest, BestOn
<1>4. UNCHANGED MakerSide
  BY <1>1 DEF MakerSide
<1>5. IndexInv'
  <2>1. \A side \in Sides : SetTicks(index[side]) = Occupied(levels, side)
    BY <1>1 DEF BookInv, Consistent, IndexInv, Pending
  <2>2. \A side \in Sides : Occupied(levels, side) = Occupied(levels, side) \cup Pending(side)'
    BY <2>1, <1>1, <1>3, <1>4, Matching DEF Pending, bookVars
  <2>. QED
    BY <2>1, <2>2, <1>1 DEF BookInv, Consistent, IndexInv, bookVars
<1>6. MapInv(pos)'
  BY <1>1 DEF BookInv, Consistent, MapInv, Walked, bookVars
<1>7. Consistent(pos, acc, rank)'
  <2>1. Store(slot, allocated, free_head, levels, pos, acc, rank)' /\ active_count' = Cardinality(allocated')
    BY <1>1 DEF BookInv, Consistent, bookVars
  <2>2. BestInv' /\ CrossInv'
    BY <1>1 DEF BookInv, Consistent, BestInv, CrossInv, bookVars
  <2>. QED
    BY <1>5, <1>6, <2>1, <2>2 DEF Consistent
<1>8. TakerInv' /\ AtBest'
  BY <1>1, <1>2, <1>4, Matching DEF TakerInv, AtBest, bookVars
<1>9. CallType'
  BY <1>1 DEF BookInv, CallType, bookVars
<1>10. CallInv(acc)'
  BY <1>1, <1>2, <1>8 DEF CallInv, SlowInv
<1>. QED
  BY <1>7, <1>9, <1>10 DEF BookInv

\* After a level: an emptied one loses its bit and the best price moves on.
LEMMA LevelDoneKeepsInv ==
  ASSUME NEW pos, NEW acc, NEW rank, BookInv(pos, acc, rank), LevelDone
  PROVE  BookInv(pos, acc, rank)'
<1>1. /\ pc = "level" /\ pc' = "match"
      /\ UNCHANGED <<slot, free_head, allocated, levels, order_map, active_count,
                     taker, remaining, path, cursor, ret, filled, reported>>
  BY DEF LevelDone
<1>2. PICK side, tick : side = MakerSide /\ tick = best[MakerSide].idx
  OBVIOUS
<1>3. side \in Sides /\ tick \in Ticks /\ tick \in Nat
  BY <1>1, <1>2, Matching, Sizes
<1>4. /\ best[side].has /\ best[side].price = MinPrice + tick /\ tick \in SetTicks(index[side])
      /\ \A t \in SetTicks(index[side]) : IF side = "Buy" THEN t <= tick ELSE tick <= t
      /\ best[side].price - MinPrice = tick
  <2>1. best[side].has
    BY <1>1, <1>2 DEF BookInv, CallInv, AtBest
  <2>2. /\ best[side].price = MinPrice + tick /\ tick \in SetTicks(index[side])
        /\ \A t \in SetTicks(index[side]) : IF side = "Buy" THEN t <= tick ELSE tick <= t
    BY <2>1, <1>1, <1>2, Matching DEF BestOn
  <2>. QED
    BY <2>1, <2>2, <1>3, PriceAssumption
<1>5. \A s \in Sides : /\ Sound(index[s])
                       /\ SetTicks(index[s]) = Occupied(levels, s) \cup Pending(s)
                       /\ SetTicks(index[s]) \in SUBSET Ticks
                       /\ index[s] \in IndexType
  BY DEF BookInv, Consistent, IndexInv, Sound, SetTicks
<1>6. \A s \in Sides : s # side => SetTicks(index[s]) = Occupied(levels, s)
  BY <1>2, <1>5 DEF Pending
<1>7. SetTicks(index[side]) = Occupied(levels, side) \cup {tick}
  BY <1>1, <1>2, <1>3, <1>5 DEF Pending
<1>8. /\ best \in [Sides -> Bests] /\ index \in [Sides -> IndexType]
      /\ \A s \in Sides : BestOn(SetTicks(index[s]), s, best[s])
  BY DEF BookInv, Consistent, BestInv, CallType
<1>9. /\ best' \in [Sides -> Bests] /\ index' \in [Sides -> IndexType]
      /\ \A s \in Sides : /\ Sound(index'[s])
                          /\ SetTicks(index'[s]) = Occupied(levels, s)
                          /\ SetTicks(index'[s]) \subseteq SetTicks(index[s])
                          /\ BestOn(SetTicks(index'[s]), s, best'[s])
  <2>1. CASE ~IsEmpty(BestLevel)
    <3>1. UNCHANGED <<index, best>>
      BY <2>1 DEF LevelDone
    <3>2. tick \in Occupied(levels, side)
      BY <2>1, <1>2, <1>3 DEF BestLevel, Occupied
    <3>3. \A s \in Sides : SetTicks(index[s]) = Occupied(levels, s)
      BY <1>6, <1>7, <3>2
    <3>. QED
      BY <1>5, <1>8, <3>1, <3>3
  <2>2. CASE IsEmpty(BestLevel)
    <3>1. PICK ix : ix = ClearBit(index[side], tick)
      OBVIOUS
    <3>2. PICK b : b = IF side = "Sell" THEN AdvanceBestAsk(ix, tick) ELSE AdvanceBestBid(ix, tick)
      OBVIOUS
    <3>3. index' = [index EXCEPT ![side] = ix] /\ best' = [best EXCEPT ![side] = b]
      BY <2>2, <1>2, <1>4, <3>1, <3>2 DEF LevelDone
    <3>4. Sound(ix) /\ SetTicks(ix) = SetTicks(index[side]) \ {tick}
      BY <1>3, <1>5, <3>1, ClearBitSound, ClearBitTicks
    <3>5. tick \notin Occupied(levels, side)
      BY <2>2, <1>2 DEF BestLevel, Occupied
    <3>6. SetTicks(ix) = Occupied(levels, side)
      BY <1>7, <3>4, <3>5
    <3>7. \A t \in SetTicks(ix) : IF side = "Buy" THEN t < tick ELSE tick < t
      <4>1. \A t \in SetTicks(ix) : t \in Nat /\ t # tick
        BY <1>3, <1>5, <3>4, Sizes
      <4>. QED
        BY <1>3, <1>4, <3>4, <4>1
    <3>8. b \in Bests /\ BestOn(SetTicks(ix), side, b)
      BY <1>3, <3>2, <3>4, <3>6, <3>7, BestAdvances
    <3>9. /\ index'[side] = ix /\ \A s \in Sides \ {side} : index'[s] = index[s]
          /\ best'[side] = b /\ \A s \in Sides \ {side} : best'[s] = best[s]
          /\ best' \in [Sides -> Bests] /\ index' \in [Sides -> IndexType]
      <4>1. ix \in IndexType
        BY <3>4 DEF Sound
      <4>. QED
        BY <1>3, <1>8, <3>3, <3>8, <4>1
    <3>. QED
      BY <1>3, <1>5, <1>6, <1>8, <3>4, <3>6, <3>8, <3>9
  <2>. QED
    BY <2>1, <2>2
<1>10. Consistent(pos, acc, rank)'
  <2>1. Store(slot, allocated, free_head, levels, pos, acc, rank)' /\ active_count' = Cardinality(allocated')
    BY <1>1 DEF BookInv, Consistent
  <2>2. IndexInv'
    BY <1>1, <1>9 DEF IndexInv, Pending, Occupied
  <2>3. BestInv'
    BY <1>9 DEF BestInv
  <2>4. CrossInv'
    BY <1>9 DEF BookInv, Consistent, CrossInv, Sides
  <2>5. MapInv(pos)'
    BY <1>1 DEF BookInv, Consistent, MapInv, Walked
  <2>. QED
    BY <2>1, <2>2, <2>3, <2>4, <2>5 DEF Consistent
<1>11. TakerInv'
  BY <1>1, Matching DEF TakerInv
<1>12. CallType'
  BY <1>1, <1>9 DEF BookInv, CallType
<1>13. CallInv(acc)'
  BY <1>1, <1>11 DEF BookInv, CallInv
<1>. QED
  BY <1>10, <1>12, <1>13 DEF BookInv


-----------------------------------------------------------------------------
(***************************************************************************)
(* The steps that take orders out of the book or put one in.               *)
(***************************************************************************)
\* map resolves exactly the ids of the live slots A.
MapOf(map, A, sl) ==
  /\ map \in [0 .. MaxOrderId -> Words]
  /\ \A i \in A : sl[i].id \in 1 .. MaxOrderId /\ map[sl[i].id] = i
  /\ \A id \in 0 .. MaxOrderId : map[id] # INVALID_INDEX => map[id] \in A /\ sl[map[id]].id = id

\* Outside the chain path the map is such a map.
LEMMA MapWhole ==
  ASSUME NEW pos, NEW acc, NEW rank, BookInv(pos, acc, rank), ~(pc = "walk" /\ path = "chain")
  PROVE  MapOf(order_map, allocated, slot)
<1>1. \A i : ~Walked(i, pos)
  BY DEF Walked
<1>2. Store(slot, allocated, free_head, levels, pos, acc, rank)
  BY DEF BookInv, Consistent
<1>3. \A i \in allocated : slot[i].id \in 1 .. MaxOrderId
  BY <1>2, LiveSlot
<1>4. order_map \in [0 .. MaxOrderId -> Words] /\ MapInv(pos)
  BY DEF BookInv, Consistent, CallType
<1>. QED
  BY <1>1, <1>3, <1>4 DEF MapOf, MapInv

\* And that is all MapInv says there.
LEMMA MapWholeNext ==
  ASSUME NEW pos, MapOf(order_map, allocated, slot)', ~(pc' = "walk" /\ path' = "chain")
  PROVE  MapInv(pos)' /\ order_map' \in [0 .. MaxOrderId -> Words]
BY DEF MapOf, MapInv, Walked

\* Dropping the entry of a slot that leaves.
LEMMA MapDrop ==
  ASSUME NEW map, NEW A \in SUBSET Slots, NEW sl, NEW sl2, MapOf(map, A, sl), NEW i \in A,
         SameIds(sl, sl2, A \ {i})
  PROVE  MapOf([map EXCEPT ![sl[i].id] = INVALID_INDEX], A \ {i}, sl2)
<1>1. PICK id : id = sl[i].id
  OBVIOUS
<1>2. PICK map2 : map2 = [map EXCEPT ![id] = INVALID_INDEX]
  OBVIOUS
<1>3. id \in 1 .. MaxOrderId /\ id \in 0 .. MaxOrderId /\ map[id] = i
  BY <1>1, BookAssumption DEF MapOf
<1>4. /\ map2 \in [0 .. MaxOrderId -> Words] /\ map2[id] = INVALID_INDEX
      /\ \A x \in 0 .. MaxOrderId : x # id => map2[x] = map[x]
  BY <1>2, <1>3, Basics DEF MapOf
<1>5. ASSUME NEW j \in A \ {i}
      PROVE  sl2[j].id \in 1 .. MaxOrderId /\ map2[sl2[j].id] = j
  <2>1. sl2[j].id = sl[j].id /\ sl[j].id \in 1 .. MaxOrderId /\ map[sl[j].id] = j
    BY DEF MapOf, SameIds
  <2>2. sl[j].id # id /\ sl[j].id \in 0 .. MaxOrderId
    BY <1>3, <2>1, BookAssumption
  <2>. QED
    BY <2>1, <2>2, <1>4
<1>6. ASSUME NEW x \in 0 .. MaxOrderId, map2[x] # INVALID_INDEX
      PROVE  map2[x] \in A \ {i} /\ sl2[map2[x]].id = x
  <2>1. x # id /\ map2[x] = map[x]
    BY <1>4, <1>6
  <2>2. map[x] \in A /\ sl[map[x]].id = x
    BY <1>6, <2>1 DEF MapOf
  <2>3. map[x] # i
    BY <1>1, <2>1, <2>2
  <2>. QED
    BY <2>1, <2>2, <2>3 DEF SameIds
<1>7. MapOf(map2, A \ {i}, sl2)
  BY <1>4, <1>5, <1>6 DEF MapOf
<1>. QED
  BY <1>1, <1>2, <1>7

\* Adding the entry of a slot that comes in.
LEMMA MapAdd ==
  ASSUME NEW map, NEW A \in SUBSET Slots, NEW sl, NEW sl2, MapOf(map, A, sl), NEW i \in Slots \ A,
         SameIds(sl, sl2, A),
         NEW id \in 1 .. MaxOrderId, sl2[i].id = id, map[id] = INVALID_INDEX
  PROVE  MapOf([map EXCEPT ![id] = i], A \cup {i}, sl2)
<1>1. PICK map2 : map2 = [map EXCEPT ![id] = i]
  OBVIOUS
<1>2. id \in 0 .. MaxOrderId /\ i \in Words /\ \A j \in Slots : j # INVALID_INDEX
  BY BookAssumption, SlotsFinite
<1>3. /\ map2 \in [0 .. MaxOrderId -> Words] /\ map2[id] = i
      /\ \A x \in 0 .. MaxOrderId : x # id => map2[x] = map[x]
  BY <1>1, <1>2 DEF MapOf
<1>4. ASSUME NEW j \in A \cup {i}
      PROVE  sl2[j].id \in 1 .. MaxOrderId /\ map2[sl2[j].id] = j
  <2>1. CASE j = i
    BY <2>1, <1>3
  <2>2. CASE j \in A
    <3>1. sl2[j].id = sl[j].id /\ sl[j].id \in 1 .. MaxOrderId /\ map[sl[j].id] = j
      BY <2>2 DEF MapOf, SameIds
    <3>2. sl[j].id # id /\ sl[j].id \in 0 .. MaxOrderId
      BY <2>2, <1>2, <3>1, BookAssumption
    <3>. QED
      BY <3>1, <3>2, <1>3
  <2>. QED
    BY <2>1, <2>2
<1>5. ASSUME NEW x \in 0 .. MaxOrderId, map2[x] # INVALID_INDEX
      PROVE  map2[x] \in A \cup {i} /\ sl2[map2[x]].id = x
  <2>1. CASE x = id
    BY <2>1, <1>3
  <2>2. CASE x # id
    BY <2>2, <1>3, <1>5 DEF MapOf, SameIds
  <2>. QED
    BY <2>1, <2>2
<1>6. MapOf(map2, A \cup {i}, sl2)
  BY <1>3, <1>4, <1>5 DEF MapOf
<1>. QED
  BY <1>1, <1>6

\* One level changes: only its tick can become or stop being occupied.
LEMMA OccupiedUpdate ==
  ASSUME NEW lv \in [Sides -> [Ticks -> Levels]], NEW side \in Sides, NEW tick \in Ticks,
         NEW level, NEW s \in Sides
  PROVE  Occupied(PutLevel(lv, side, tick, level), s) =
           IF s # side THEN Occupied(lv, s)
           ELSE IF IsEmpty(level) THEN Occupied(lv, s) \ {tick} ELSE Occupied(lv, s) \cup {tick}
<1>1. PICK lv2 : lv2 = PutLevel(lv, side, tick, level)
  OBVIOUS
<1>2. /\ \A t \in Ticks : lv2[side][t] = IF t = tick THEN level ELSE lv[side][t]
      /\ s # side => lv2[s] = lv[s]
  BY <1>1 DEF PutLevel
<1>3. CASE s # side
  BY <1>1, <1>2, <1>3 DEF Occupied
<1>4. CASE s = side /\ IsEmpty(level)
  BY <1>1, <1>2, <1>4 DEF Occupied
<1>5. CASE s = side /\ ~IsEmpty(level)
  BY <1>1, <1>2, <1>5 DEF Occupied
<1>. QED
  BY <1>3, <1>4, <1>5

\* cancel_order takes the order out of its queue, wherever it stands.
LEMMA CancelKeepsInv ==
  ASSUME NEW pos, NEW acc, NEW rank, BookInv(pos, acc, rank), NEW id \in CancelIds, CancelOrder(id)
  PROVE  \E pos2, acc2, rank2 : BookInv(pos2, acc2, rank2)'
<1>1. pc = "idle" /\ CancelVerdict(id) = "Accepted" /\ Return("Accepted", 0)
  BY Zenon DEF CancelOrder
<1>2. id \in 1 .. MaxOrderId /\ id \in 0 .. MaxOrderId /\ order_map[id] # INVALID_INDEX
  BY <1>1, BookAssumption DEF CancelVerdict
<1>3. MapOf(order_map, allocated, slot)
  BY <1>1, MapWhole
<1>4. PICK i : i = order_map[id]
  OBVIOUS
<1>5. i \in allocated /\ slot[i].id = id
  BY <1>2, <1>3, <1>4 DEF MapOf
<1>6. PICK side, tick : side = slot[i].side /\ tick = slot[i].price - MinPrice
  OBVIOUS
<1>7. Store(slot, allocated, free_head, levels, pos, acc, rank) /\ active_count = Cardinality(allocated)
  BY DEF BookInv, Consistent
<1>8. /\ side \in Sides /\ tick \in Ticks /\ tick \in Nat
      /\ i \in Members(slot, allocated, side, tick) /\ slot[i].price = MinPrice + tick
      /\ i \in Slots
  <2>1. /\ side \in Sides /\ tick \in Ticks /\ i \in Members(slot, allocated, side, tick)
        /\ i \in Slots
    BY <1>5, <1>6, <1>7, LiveSlot
  <2>. QED
    BY <2>1, Sizes DEF Members
<1>9. /\ allocated \in SUBSET Slots /\ levels \in [Sides -> [Ticks -> Levels]]
      /\ best \in [Sides -> Bests] /\ index \in [Sides -> IndexType]
  BY <1>7 DEF Store, BookInv, CallType
<1>10. PICK rem : rem = RemoveOrder(levels[side][tick], slot, i)
  OBVIOUS
<1>11. Leaves(slot, allocated, levels, i, side, tick, rem)
  BY <1>5, <1>6, <1>10 DEF Leaves
<1>12. PICK ix : ix = IF IsEmpty(rem.level) THEN ClearBit(index[side], tick) ELSE index[side]
  BY Zenon
<1>13. /\ levels' = PutLevel(levels, side, tick, rem.level)
       /\ index' = [index EXCEPT ![side] = ix]
       /\ best' = IF IsEmpty(rem.level) /\ best[side].has /\ best[side].price = slot[i].price
                  THEN [best EXCEPT ![side] = UpdateBestAfterRemove(side, ix, tick)]
                  ELSE best
       /\ slot' = Released(rem, i, free_head)
       /\ free_head' = i
       /\ allocated' = allocated \ {i}
       /\ order_map' = [order_map EXCEPT ![slot[i].id] = INVALID_INDEX]
       /\ active_count' = active_count - 1
  BY <1>4, <1>5, <1>6, <1>10, <1>12, Zenon DEF CancelOrder, PutLevel, Released
<1>14. PICK pos2, acc2, rank2 : Store(slot, allocated, free_head, levels, pos2, acc2, rank2)'
  <2>1. \E pos2, acc2, rank2 :
              Store(Released(rem, i, free_head), allocated \ {i}, i,
                    PutLevel(levels, side, tick, rem.level), pos2, acc2, rank2)
    BY <1>7, <1>11, StoreRemove
  <2>. QED
    BY <2>1, <1>13
<1>15. MapOf(order_map, allocated, slot)'
  <2>1. SameIds(slot, Released(rem, i, free_head), allocated \ {i})
    BY <1>7, <1>11, StoreRemove
  <2>2. PICK sl2 : sl2 = Released(rem, i, free_head)
    OBVIOUS
  <2>3. SameIds(slot, sl2, allocated \ {i})
    BY <2>1, <2>2
  <2>4. MapOf([order_map EXCEPT ![slot[i].id] = INVALID_INDEX], allocated \ {i}, sl2)
    BY <1>3, <1>5, <1>9, <2>3, MapDrop
  <2>. QED
    BY <2>2, <2>4, <1>13
<1>16. active_count' = Cardinality(allocated')
  BY <1>5, <1>7, <1>8, <1>9, <1>13, CountChanges
<1>17. /\ pc' = "done" /\ ret' = "Accepted" /\ filled' = 0
       /\ UNCHANGED <<taker, remaining, path, cursor, reported>>
  BY <1>1 DEF Return
<1>18. \A s \in Sides : Sound(index[s]) /\ SetTicks(index[s]) = Occupied(levels, s)
                        /\ BestOn(SetTicks(index[s]), s, best[s]) /\ SetTicks(index[s]) \in SUBSET Nat
  BY <1>1, Sizes DEF BookInv, Consistent, IndexInv, BestInv, Pending, SetTicks
<1>19. tick \in Occupied(levels, side)
  <2>1. ~IsEmpty(levels[side][tick])
    BY <1>7, <1>8, LevelFacts
  <2>. QED
    BY <2>1, <1>8 DEF Occupied
<1>20. /\ Sound(ix) /\ SetTicks(ix) = Occupied(levels', side) /\ ix \in IndexType
       /\ SetTicks(ix) = IF IsEmpty(rem.level) THEN SetTicks(index[side]) \ {tick} ELSE SetTicks(index[side])
       /\ \A s \in Sides \ {side} : Occupied(levels', s) = Occupied(levels, s)
  <2>1. PICK level : level = rem.level
    OBVIOUS
  <2>2. \A s \in Sides : Occupied(PutLevel(levels, side, tick, level), s) =
           IF s # side THEN Occupied(levels, s)
           ELSE IF IsEmpty(level) THEN Occupied(levels, s) \ {tick} ELSE Occupied(levels, s) \cup {tick}
    BY <1>8, <1>9, OccupiedUpdate
  <2>3. levels' = PutLevel(levels, side, tick, level)
    BY <2>1, <1>13
  <2>4. CASE IsEmpty(rem.level)
    <3>1. Sound(ix) /\ SetTicks(ix) = SetTicks(index[side]) \ {tick}
      BY <1>8, <1>12, <1>18, <2>4, ClearBitSound, ClearBitTicks
    <3>. QED
      BY <2>1, <2>2, <2>3, <2>4, <3>1, <1>8, <1>18 DEF Sound
  <2>5. CASE ~IsEmpty(rem.level)
    BY <2>1, <2>2, <2>3, <2>5, <1>8, <1>12, <1>18, <1>19 DEF Sound
  <2>. QED
    BY <2>4, <2>5
<1>21. PICK b : b = IF IsEmpty(rem.level) /\ best[side].has /\ best[side].price = slot[i].price
                    THEN UpdateBestAfterRemove(side, ix, tick) ELSE best[side]
  OBVIOUS
<1>22. b \in Bests /\ BestOn(SetTicks(ix), side, b)
  <2>1. /\ best[side].has /\ best[side].idx \in SetTicks(index[side]) /\ best[side].idx \in Nat
        /\ best[side].price = MinPrice + best[side].idx
        /\ \A t \in SetTicks(index[side]) :
             IF side = "Buy" THEN t <= best[side].idx ELSE best[side].idx <= t
    BY <1>8, <1>18, <1>19 DEF BestOn
  <2>2. CASE IsEmpty(rem.level) /\ best[side].idx = tick
    <3>1. b = UpdateBestAfterRemove(side, ix, tick)
      BY <1>8, <1>21, <2>1, <2>2
    <3>2. \A t \in SetTicks(ix) : IF side = "Buy" THEN t < tick ELSE tick < t
      <4>1. \A t \in SetTicks(ix) : t \in SetTicks(index[side]) /\ t \in Nat /\ t # tick
        BY <1>8, <1>18, <1>20, <2>2
      <4>. QED
        BY <2>1, <2>2, <1>8, <4>1
    <3>. QED
      BY <1>8, <1>20, <3>1, <3>2, BestAfterRemove
  <2>3. CASE IsEmpty(rem.level) /\ best[side].idx # tick
    <3>1. best[side].price # slot[i].price
      BY <1>8, <2>1, <2>3, PriceAssumption
    <3>2. b = best[side] /\ SetTicks(ix) = SetTicks(index[side]) \ {tick}
      BY <1>20, <1>21, <2>3, <3>1
    <3>. QED
      BY <1>8, <1>9, <2>1, <2>3, <3>2 DEF BestOn
  <2>4. CASE ~IsEmpty(rem.level)
    BY <1>8, <1>9, <1>18, <1>20, <1>21, <2>4
  <2>. QED
    BY <2>2, <2>3, <2>4
<1>23. /\ index'[side] = ix /\ \A s \in Sides \ {side} : index'[s] = index[s]
       /\ best'[side] = b /\ \A s \in Sides \ {side} : best'[s] = best[s]
       /\ best' \in [Sides -> Bests] /\ index' \in [Sides -> IndexType]
  BY <1>8, <1>9, <1>13, <1>20, <1>21, <1>22
<1>24. IndexInv' /\ BestInv'
  <2>1. \A s \in Sides : /\ Sound(index'[s]) /\ SetTicks(index'[s]) = Occupied(levels', s)
                         /\ BestOn(SetTicks(index'[s]), s, best'[s])
    BY <1>18, <1>20, <1>22, <1>23
  <2>. QED
    BY <2>1, <1>17 DEF IndexInv, BestInv, Pending
<1>25. CrossInv'
  <2>1. \A s \in Sides : SetTicks(index'[s]) \subseteq SetTicks(index[s])
    BY <1>20, <1>23
  <2>. QED
    BY <2>1 DEF BookInv, Consistent, CrossInv, Sides
<1>26. MapInv(pos2)' /\ order_map' \in [0 .. MaxOrderId -> Words]
  BY <1>15, <1>17, MapWholeNext
<1>27. CallType'
  BY <1>17, <1>23, <1>26, Basics DEF BookInv, CallType, RejectReasons
<1>28. CallInv(acc2)'
  BY <1>1, <1>17 DEF BookInv, CallInv
<1>29. BookInv(pos2, acc2, rank2)'
  BY <1>14, <1>16, <1>24, <1>25, <1>26, <1>27, <1>28 DEF BookInv, Consistent
<1>. QED
  BY <1>29, Zenon


\* The slots after the only order of a level, or the first of several, is freed.
FreedOne(sl, i, fh) == [sl EXCEPT ![i] = FreedSlot(fh)]

FreedHead(sl, i, fh) ==
  [k \in Slots |-> IF k = i THEN FreedSlot(fh)
                   ELSE IF k = sl[i].next THEN [sl[k] EXCEPT !.prev = INVALID_INDEX]
                   ELSE sl[k]]

\* i is the first order of a level.
AtHead(sl, S, level, pos, acc, i) ==
  /\ S \in SUBSET Slots /\ level \in Levels /\ sl \in [Slots -> Orders]
  /\ pos \in [Slots -> Nat] /\ acc \in [Slots -> Nat]
  /\ Queue(sl, S, level, pos, acc) /\ i = level.head

\* Removing the only order of a level resets the level, and touches no other slot.
LEMMA SoleRemoved ==
  ASSUME NEW S, NEW level, NEW sl, NEW pos, NEW acc, NEW i, AtHead(sl, S, level, pos, acc, i),
         level.order_count = 1,
         NEW rem, rem = RemoveOrder(level, sl, i), NEW fh
  PROVE  /\ rem.level = EmptyLevel
         /\ Released(rem, i, fh) = FreedOne(sl, i, fh)
         /\ level.total_quantity = sl[i].quantity
<1> USE DEF AtHead
<1>1. i \in S /\ i \in Slots /\ S # {} /\ pos[i] = 1
  BY DEF Queue, Chain
<1>2. sl[i].next = INVALID_INDEX /\ sl[i].prev = INVALID_INDEX
  BY <1>1 DEF Queue, Chain, Backward
<1>3. level.tail = i
  BY <1>1 DEF Queue, Chain, Backward
<1>4. level.total_quantity = sl[i].quantity /\ level.total_quantity \in Nat
  BY <1>1, <1>3 DEF Queue, Sums, Levels
<1>5. rem.level = EmptyLevel
  BY <1>2, <1>4 DEF RemoveOrder, EmptyLevel
<1>6. rem.slot = [k \in Slots |-> IF k = i THEN [sl[i] EXCEPT !.prev = INVALID_INDEX, !.next = INVALID_INDEX]
                                  ELSE sl[k]]
  <2>1. INVALID_INDEX \notin Slots /\ DOMAIN sl = Slots
    BY Basics
  <2>. QED
    BY <1>2, <2>1 DEF RemoveOrder
<1>7. Released(rem, i, fh) = FreedOne(sl, i, fh)
  BY <1>1, <1>6 DEF Released, FreedOne
<1>. QED
  BY <1>4, <1>5, <1>7

\* Removing the first of several orders moves the head.
LEMMA HeadRemoved ==
  ASSUME NEW S, NEW level, NEW sl, NEW pos, NEW acc, NEW i, AtHead(sl, S, level, pos, acc, i),
         sl[i].quantity < level.total_quantity, S # {},
         NEW rem, rem = RemoveOrder(level, sl, i), NEW fh
  PROVE  /\ rem.level = WithoutHead(level, sl[i].quantity, sl[i].next)
         /\ Released(rem, i, fh) = FreedHead(sl, i, fh)
         /\ sl[i].next \in S
<1> USE DEF AtHead
<1>1. i \in S /\ i \in Slots /\ pos[i] = 1 /\ level.order_count # 0
  BY DEF Queue, Chain
<1>2. level.total_quantity \in Nat
  BY DEF Levels
<1>3. pos[i] # level.order_count
  <2>1. SUFFICES ASSUME pos[i] = level.order_count PROVE FALSE
    OBVIOUS
  <2>2. level.tail = i
    BY <1>1, <2>1 DEF Queue, Chain, Backward
  <2>3. level.total_quantity = sl[i].quantity
    BY <1>1, <2>2 DEF Queue, Sums
  <2>. QED
    BY <1>2, <2>3
<1>4. sl[i].next \in S /\ pos[sl[i].next] = 2 /\ sl[i].prev = INVALID_INDEX
  BY <1>1, <1>3 DEF Queue, Chain, Backward
<1>5. sl[i].next # i /\ sl[i].next # INVALID_INDEX /\ INVALID_INDEX \notin Slots
  BY <1>1, <1>4, Basics
<1>6. rem.level = WithoutHead(level, sl[i].quantity, sl[i].next)
  <2>1. PICK h, l, t, c, q, x : /\ h = level.head /\ l = level.tail /\ t = level.total_quantity
                               /\ c = level.order_count /\ q = sl[i].quantity /\ x = sl[i].next
    OBVIOUS
  <2>2. level = [head |-> h, tail |-> l, total_quantity |-> t, order_count |-> c]
    BY <2>1 DEF Levels
  <2>3. rem.level = [head |-> x, tail |-> l, total_quantity |-> t - q, order_count |-> c - 1]
    BY <1>4, <1>5, <2>1 DEF RemoveOrder
  <2>4. ShrinkLevel(level, q) = [head |-> h, tail |-> l, total_quantity |-> t - q, order_count |-> c]
    BY <2>2 DEF ShrinkLevel
  <2>5. PICK m : m = ShrinkLevel(level, q)
    OBVIOUS
  <2>6. PICK u, v : u = t - q /\ v = [m EXCEPT !.order_count = @ - 1, !.head = x]
    OBVIOUS
  <2>7. m \in [head : {h}, tail : {l}, total_quantity : {u}, order_count : {c}]
    BY <2>4, <2>5, <2>6
  <2>8. v \in [head : {x}, tail : {l}, total_quantity : {u}, order_count : {c - 1}]
    BY <2>6, <2>7
  <2>9. v = [head |-> x, tail |-> l, total_quantity |-> u, order_count |-> c - 1]
    BY <2>8
  <2>10. WithoutHead(level, q, x) = v
    BY <2>5, <2>6 DEF WithoutHead
  <2>. QED
    BY <2>1, <2>3, <2>6, <2>9, <2>10, Zenon
<1>7. rem.slot = [k \in Slots |-> IF k = i THEN [sl[i] EXCEPT !.prev = INVALID_INDEX, !.next = INVALID_INDEX]
                                  ELSE IF k = sl[i].next THEN [sl[k] EXCEPT !.prev = INVALID_INDEX]
                                  ELSE sl[k]]
  <2>1. DOMAIN sl = Slots
    OBVIOUS
  <2>. QED
    BY <1>4, <1>5, <2>1 DEF RemoveOrder
<1>8. Released(rem, i, fh) = FreedHead(sl, i, fh)
  BY <1>1, <1>7 DEF Released, FreedHead
<1>. QED
  BY <1>4, <1>6, <1>8

\* A level the taker consumes whole fits in a Quantity.
LEMMA LevelFits ==
  ASSUME NEW r \in 0 .. QuantityModulus - 1, NEW total \in Nat, total <= r
  PROVE  total % QuantityModulus = total /\ r - total \in 0 .. QuantityModulus - 1 /\ r - total \in Nat
<1>1. total \in 0 .. QuantityModulus - 1
  BY BookAssumption
<1>. QED
  BY <1>1, Basics, BookAssumption

\* The taker after a step that gave a slot back and dropped at most map entries.
LEMMA TakerGoesOn ==
  ASSUME TakerInv, UNCHANGED taker, NEW i, order_map' = [order_map EXCEPT ![i] = INVALID_INDEX],
         order_map \in [0 .. MaxOrderId -> Words],
         remaining' <= taker.quantity,
         \/ free_head' # INVALID_INDEX
         \/ UNCHANGED <<free_head, remaining>>
         \/ remaining' = 0
  PROVE  TakerInv'
<1>1. order_map'[taker.id] = INVALID_INDEX
  <2>1. taker.id \in 0 .. MaxOrderId
    BY BookAssumption DEF TakerInv
  <2>. QED
    BY <2>1 DEF TakerInv
<1>. QED
  BY <1>1 DEF TakerInv


\* The one-order fast path.
LEMMA FillSingleKeepsInv ==
  ASSUME NEW pos, NEW acc, NEW rank, BookInv(pos, acc, rank), FillSingle
  PROVE  \E pos2, acc2, rank2 : BookInv(pos2, acc2, rank2)'
<1>1. pc = "walk" /\ path = "single" /\ pc' = "level" /\ pc \in {"match", "walk"}
  BY DEF FillSingle, OnTrade
<1>2. AtBest /\ SingleInv /\ best[MakerSide].has
  BY <1>1 DEF BookInv, CallInv, WalkInv, AtBest
<1>3. PICK side, tick, S, level :
        /\ side = MakerSide /\ tick = best[MakerSide].idx
        /\ S = Members(slot, allocated, MakerSide, best[MakerSide].idx) /\ level = BestLevel
  OBVIOUS
<1>4. PICK i : i = cursor
  OBVIOUS
<1>5. PICK rem : rem = RemoveOrder(level, slot, i)
  OBVIOUS
<1>6. /\ Queue(slot, S, level, pos, acc)
      /\ S \in SUBSET Slots /\ S \in SUBSET allocated /\ level \in Levels
      /\ level.total_quantity \in Nat
      /\ \A j \in S : /\ slot[j].side = side /\ slot[j].price - MinPrice = tick
      /\ level.head \in S
      /\ tick \in SetTicks(index[side])
  BY <1>1, <1>2, <1>3, AtBestLevel
<1>7. Store(slot, allocated, free_head, levels, pos, acc, rank) /\ active_count = Cardinality(allocated)
  BY DEF BookInv, Consistent
<1>8. /\ slot \in [Slots -> Orders] /\ allocated \in SUBSET Slots /\ levels \in [Sides -> [Ticks -> Levels]]
      /\ pos \in [Slots -> Nat] /\ acc \in [Slots -> Nat]
  BY <1>7 DEF Store
<1>9. /\ i = level.head /\ level.order_count = 1 /\ level.total_quantity <= remaining
      /\ reported = taker.quantity - remaining
  BY <1>2, <1>3, <1>4 DEF SingleInv
<1>10. i \in S /\ i \in allocated /\ i \in Slots /\ i # INVALID_INDEX
  BY <1>6, <1>8, <1>9, SlotsFinite, Basics
<1>11. /\ rem.level = EmptyLevel
       /\ Released(rem, i, free_head) = FreedOne(slot, i, free_head)
       /\ level.total_quantity = slot[i].quantity
  <2>1. AtHead(slot, S, level, pos, acc, i)
    BY <1>6, <1>8, <1>9 DEF AtHead
  <2>. QED
    BY <1>5, <1>9, <2>1, SoleRemoved
<1>12. side \in Sides /\ tick \in Ticks /\ level = levels[side][tick]
  BY <1>1, <1>3, Matching DEF BestLevel
<1>13. /\ slot' = Released(rem, i, free_head)
       /\ free_head' = i /\ allocated' = allocated \ {i} /\ active_count' = active_count - 1
       /\ levels' = PutLevel(levels, side, tick, rem.level)
       /\ order_map' = [order_map EXCEPT ![slot[i].id] = INVALID_INDEX]
       /\ reported' = reported + slot[i].quantity
       /\ remaining' = remaining - (level.total_quantity % QuantityModulus)
       /\ UNCHANGED <<index, best, taker, path, cursor, ret, filled>>
  BY <1>1, <1>3, <1>4, <1>11 DEF FillSingle, PutLevel, FreedOne, CurrentTrade, LevelQuantity
<1>14. PICK pos2, acc2, rank2 : Store(slot, allocated, free_head, levels, pos2, acc2, rank2)'
  <2>1. Leaves(slot, allocated, levels, i, side, tick, rem)
    BY <1>5, <1>6, <1>10, <1>12 DEF Leaves
  <2>2. \E pos2, acc2, rank2 :
              Store(Released(rem, i, free_head), allocated \ {i}, i,
                    PutLevel(levels, side, tick, rem.level), pos2, acc2, rank2)
    BY <1>7, <2>1, StoreRemove
  <2>. QED
    BY <2>2, <1>13
<1>15. MapOf(order_map, allocated, slot)'
  <2>1. MapOf(order_map, allocated, slot)
    BY <1>1, MapWhole
  <2>2. PICK sl2 : sl2 = Released(rem, i, free_head)
    OBVIOUS
  <2>3. SameIds(slot, sl2, allocated \ {i})
    BY <2>2, <1>8, <1>11 DEF SameIds, FreedOne
  <2>4. MapOf([order_map EXCEPT ![slot[i].id] = INVALID_INDEX], allocated \ {i}, sl2)
    BY <1>8, <1>10, <2>1, <2>3, MapDrop
  <2>. QED
    BY <2>2, <2>4, <1>13
<1>16. active_count' = Cardinality(allocated')
  BY <1>7, <1>8, <1>10, <1>13, CountChanges
<1>17. MapInv(pos2)' /\ order_map' \in [0 .. MaxOrderId -> Words]
  BY <1>1, <1>15, MapWholeNext
<1>18. MakerSide' = side
  BY <1>3, <1>13 DEF MakerSide
<1>19. IndexInv'
  <2>1. \A s \in Sides : Sound(index[s]) /\ SetTicks(index[s]) = Occupied(levels, s)
    BY <1>1 DEF BookInv, Consistent, IndexInv, Pending
  <2>2. PICK l2 : l2 = rem.level /\ IsEmpty(l2)
    BY <1>11 DEF IsEmpty, EmptyLevel
  <2>3. \A s \in Sides : Occupied(PutLevel(levels, side, tick, l2), s) =
           IF s # side THEN Occupied(levels, s) 
           ELSE IF IsEmpty(l2) THEN Occupied(levels, s) \ {tick} ELSE Occupied(levels, s) \cup {tick}
    BY <1>8, <1>12, OccupiedUpdate
  <2>4. \A s \in Sides : Occupied(levels', s) = IF s # side THEN Occupied(levels, s) ELSE Occupied(levels, s) \ {tick}
    BY <2>2, <2>3, <1>13
  <2>5. \A s \in Sides : Pending(s)' = IF s # side THEN {} ELSE {tick}
    BY <1>1, <1>3, <1>13, <1>18 DEF Pending
  <2>6. \A s \in Sides : SetTicks(index[s]) = Occupied(levels', s) \cup Pending(s)'
    BY <2>1, <2>4, <2>5, <1>6
  <2>. QED
    BY <2>1, <2>6, <1>13 DEF IndexInv
<1>20. BestInv' /\ CrossInv'
  BY <1>13 DEF BookInv, Consistent, BestInv, CrossInv
<1>21. /\ remaining' = remaining - level.total_quantity /\ remaining' \in 0 .. QuantityModulus - 1
       /\ remaining' \in Nat /\ remaining' <= taker.quantity
  <2>1. /\ remaining \in 0 .. QuantityModulus - 1 /\ remaining \in Nat /\ taker.quantity \in Nat
        /\ remaining <= taker.quantity
    BY <1>1, Matching
  <2>2. /\ level.total_quantity % QuantityModulus = level.total_quantity
        /\ remaining - level.total_quantity \in 0 .. QuantityModulus - 1
        /\ remaining - level.total_quantity \in Nat
    BY <1>6, <1>9, <2>1, LevelFits
  <2>. QED
    BY <1>6, <1>13, <2>1, <2>2
<1>22. reported' = taker'.quantity - remaining' /\ reported' \in 0 .. QuantityModulus - 1
  <2>1. /\ remaining \in Nat /\ taker.quantity \in Nat /\ taker.quantity \in 0 .. QuantityModulus - 1
    BY <1>1, Matching
  <2>2. reported' = taker.quantity - remaining'
    BY <1>6, <1>9, <1>11, <1>13, <1>21, <2>1
  <2>. QED
    BY <1>13, <1>21, <2>1, <2>2, BookAssumption
<1>23. TakerInv'
  <2>1. TakerInv /\ order_map \in [0 .. MaxOrderId -> Words] /\ free_head' # INVALID_INDEX
    BY <1>1, <1>10, <1>13, Matching DEF BookInv, CallType
  <2>. QED
    BY <1>13, <1>21, <2>1, TakerGoesOn
<1>24. AtBest'
  BY <1>2, <1>13 DEF AtBest, MakerSide
<1>25. CallType'
  BY <1>1, <1>13, <1>17, <1>21, <1>22 DEF BookInv, CallType
<1>26. CallInv(acc2)'
  BY <1>1, <1>22, <1>23, <1>24 DEF CallInv
<1>27. BookInv(pos2, acc2, rank2)'
  BY <1>14, <1>16, <1>17, <1>19, <1>20, <1>25, <1>26 DEF BookInv, Consistent
<1>. QED
  BY <1>27


\* One maker of the chain: it loses its map entry, and the next one is the cursor.
LEMMA FillChainKeepsInv ==
  ASSUME NEW pos, NEW acc, NEW rank, BookInv(pos, acc, rank), FillChain
  PROVE  BookInv(pos, acc, rank)'
<1>1. /\ pc = "walk" /\ path = "chain" /\ pc \in {"match", "walk"} /\ cursor # INVALID_INDEX
      /\ reported' = reported + slot[cursor].quantity
      /\ order_map' = [order_map EXCEPT ![slot[cursor].id] = INVALID_INDEX]
      /\ cursor' = slot[cursor].next
      /\ UNCHANGED <<slot, free_head, allocated, levels, index, best, active_count,
                     pc, taker, remaining, path, ret, filled>>
  BY DEF FillChain, OnTrade, CurrentTrade
<1>2. AtBest /\ ChainInv(acc) /\ best[MakerSide].has
  BY <1>1 DEF BookInv, CallInv, WalkInv, AtBest
<1>3. PICK S, level, c, n :
        /\ S = Members(slot, allocated, MakerSide, best[MakerSide].idx) /\ level = BestLevel
        /\ c = cursor /\ n = level.order_count
  OBVIOUS
<1>4. /\ Queue(slot, S, level, pos, acc)
      /\ S \in SUBSET Slots /\ S \in SUBSET allocated /\ level \in Levels
      /\ n \in Nat \ {0} /\ level.total_quantity \in Nat
      /\ \A j \in S : slot[j].quantity \in Nat
  BY <1>1, <1>2, <1>3, AtBestLevel
<1>5. Store(slot, allocated, free_head, levels, pos, acc, rank)
  BY DEF BookInv, Consistent
<1>6. /\ allocated \in SUBSET Slots /\ pos \in [Slots -> Nat] /\ acc \in [Slots -> Nat]
      /\ order_map \in [0 .. MaxOrderId -> Words] /\ MapInv(pos)
  BY <1>5 DEF Store, BookInv, Consistent, CallType
<1>7. /\ c \in S /\ c \in allocated /\ c \in Slots /\ slot[c].quantity \in Nat
      /\ reported = taker.quantity - remaining + acc[c] - slot[c].quantity
      /\ level.total_quantity <= remaining /\ ~IsEmpty(level)
  BY <1>1, <1>2, <1>3, <1>4 DEF ChainInv
<1>8. /\ pos[c] \in 1 .. n /\ acc[c] \in Nat /\ acc[c] <= level.total_quantity
      /\ slot[c].quantity <= acc[c]
      /\ pos[c] = n => slot[c].next = INVALID_INDEX /\ acc[c] = level.total_quantity
      /\ pos[c] # n => /\ slot[c].next \in S /\ pos[slot[c].next] = pos[c] + 1
                       /\ acc[slot[c].next] = acc[c] + slot[slot[c].next].quantity
  <2>1. acc[c] <= level.total_quantity /\ slot[c].quantity <= acc[c]
    BY <1>4, <1>6, <1>7, QueueTotal
  <2>2. pos[c] \in 1 .. n /\ (pos[c] = n => slot[c].next = INVALID_INDEX)
    BY <1>3, <1>4, <1>7 DEF Queue, Chain
  <2>3. pos[c] = n => acc[c] = level.total_quantity
    BY <1>3, <1>4, <1>7 DEF Queue, Chain, Backward, Sums
  <2>4. pos[c] # n => slot[c].next \in S /\ pos[slot[c].next] = pos[c] + 1
    BY <1>3, <1>4, <1>7 DEF Queue, Chain
  <2>5. pos[c] # n => acc[slot[c].next] = acc[c] + slot[slot[c].next].quantity
    BY <1>4, <1>7, <2>4 DEF Queue, Sums
  <2>. QED
    BY <1>6, <1>7, <2>1, <2>2, <2>3, <2>4, <2>5
<1>9. UNCHANGED <<MakerSide, BestLevel>>
  BY <1>1 DEF MakerSide, BestLevel
<1>10. \A i : Walked(i, pos) <=> i \in S /\ pos[i] < pos[c]
  BY <1>1, <1>3 DEF Walked
<1>11. \A i : Walked(i, pos)' <=> i \in S /\ pos[i] <= pos[c]
  <2>1. \A i \in S : pos[i] \in 1 .. n
    BY <1>3, <1>4 DEF Queue, Chain
  <2>2. \A i : Walked(i, pos)' <=> i \in S /\ (slot[c].next = INVALID_INDEX \/ pos[i] < pos[slot[c].next])
    BY <1>1, <1>3, <1>9 DEF Walked
  <2>3. CASE pos[c] = n
    BY <1>4, <1>8, <2>1, <2>2, <2>3
  <2>4. CASE pos[c] # n
    <3>1. slot[c].next # INVALID_INDEX /\ pos[slot[c].next] = pos[c] + 1
      BY <1>4, <1>8, <2>4, Basics
    <3>. QED
      BY <1>8, <2>1, <2>2, <3>1
  <2>. QED
    BY <2>3, <2>4
<1>12. order_map[slot[c].id] = c /\ slot[c].id \in 1 .. MaxOrderId /\ slot[c].id \in 0 .. MaxOrderId
  <2>1. ~Walked(c, pos)
    BY <1>8, <1>10
  <2>2. slot[c].id \in 1 .. MaxOrderId
    BY <1>5, <1>7, LiveSlot
  <2>. QED
    BY <1>6, <1>7, <2>1, <2>2, BookAssumption DEF MapInv
<1>13. \A i : Walked(i, pos)' <=> Walked(i, pos) \/ i = c
  <2>1. \A i \in S : pos[i] \in 1 .. n /\ (pos[i] = pos[c] => i = c)
    BY <1>3, <1>4, <1>7 DEF Queue, Chain
  <2>. QED
    BY <1>7, <1>8, <1>10, <1>11, <2>1
<1>14. /\ order_map' \in [0 .. MaxOrderId -> Words] /\ order_map'[slot[c].id] = INVALID_INDEX
       /\ \A id \in 0 .. MaxOrderId : id # slot[c].id => order_map'[id] = order_map[id]
  BY <1>1, <1>3, <1>6, <1>12, Basics
<1>15. MapInv(pos)'
  <2>1. ASSUME NEW i \in allocated, ~Walked(i, pos)'
        PROVE  order_map'[slot[i].id] = i
    <3>1. ~Walked(i, pos) /\ i # c
      BY <2>1, <1>13
    <3>2. order_map[slot[i].id] = i
      BY <3>1, <1>6 DEF MapInv
    <3>3. slot[i].id \in 0 .. MaxOrderId
      BY <1>5, LiveSlot, BookAssumption
    <3>. QED
      BY <3>1, <3>2, <3>3, <1>12, <1>14
  <2>2. PICK map : map = order_map'
    OBVIOUS
  <2>3. ASSUME NEW id \in 0 .. MaxOrderId, map[id] # INVALID_INDEX
        PROVE  map[id] \in allocated /\ slot[map[id]].id = id /\ ~Walked(map[id], pos)'
    <3>1. id # slot[c].id /\ map[id] = order_map[id]
      BY <2>2, <2>3, <1>14
    <3>2. order_map[id] \in allocated /\ slot[order_map[id]].id = id /\ ~Walked(order_map[id], pos)
      BY <2>3, <3>1, <1>6 DEF MapInv
    <3>3. PICK i : i = map[id]
      OBVIOUS
    <3>4. i \in allocated /\ slot[i].id = id /\ ~Walked(i, pos) /\ i # c
      BY <3>1, <3>2, <3>3
    <3>5. ~Walked(i, pos)'
      BY <3>4, <1>13
    <3>. QED
      BY <3>3, <3>4, <3>5
  <2>. QED
    BY <1>1, <2>1, <2>2, <2>3 DEF MapInv
<1>16. Consistent(pos, acc, rank)'
  <2>1. Store(slot, allocated, free_head, levels, pos, acc, rank)' /\ active_count' = Cardinality(allocated')
    BY <1>1 DEF BookInv, Consistent
  <2>2. IndexInv'
    BY <1>1 DEF BookInv, Consistent, IndexInv, Pending
  <2>3. BestInv' /\ CrossInv'
    BY <1>1 DEF BookInv, Consistent, BestInv, CrossInv
  <2>. QED
    BY <1>15, <2>1, <2>2, <2>3 DEF Consistent
<1>17. TakerInv'
  <2>1. TakerInv /\ remaining' <= taker.quantity
    BY <1>1, Matching
  <2>. QED
    BY <1>1, <1>6, <2>1, TakerGoesOn
<1>18. AtBest'
  BY <1>1, <1>2, <1>9 DEF AtBest
<1>19. reported' = taker.quantity - remaining + acc[c] /\ reported' \in 0 .. QuantityModulus - 1
  <2>1. /\ remaining \in Nat /\ taker.quantity \in 0 .. QuantityModulus - 1 /\ remaining <= taker.quantity
        /\ taker.quantity \in Nat
    BY <1>1, Matching
  <2>2. reported' = taker.quantity - remaining + acc[c]
    BY <1>1, <1>3, <1>7, <1>8, <2>1
  <2>. QED
    BY <2>1, <2>2, <1>4, <1>7, <1>8, BookAssumption
<1>20. ChainInv(acc)'
  <2>1. Members(slot, allocated, MakerSide, best[MakerSide].idx)' = S
    BY <1>1, <1>3, <1>9
  <2>2. BestLevel' = level
    BY <1>3, <1>9
  <2>3. CASE pos[c] = n
    BY <2>2, <2>3, <1>1, <1>3, <1>7, <1>8, <1>19 DEF ChainInv
  <2>4. CASE pos[c] # n
    <3>1. PICK x : x = slot[c].next
      OBVIOUS
    <3>2. x \in S /\ x # INVALID_INDEX /\ acc[x] = acc[c] + slot[x].quantity /\ slot[x].quantity \in Nat
      BY <3>1, <2>4, <1>4, <1>8, Basics
    <3>3. remaining \in Nat /\ taker.quantity \in Nat
      BY <1>1, Matching
    <3>4. reported' = taker.quantity - remaining + acc[x] - slot[x].quantity
      BY <1>8, <1>19, <3>2, <3>3
    <3>5. cursor' = x
      BY <1>1, <1>3, <3>1
    <3>. QED
      BY <2>1, <2>2, <1>1, <1>7, <3>2, <3>4, <3>5 DEF ChainInv
  <2>. QED
    BY <2>3, <2>4
<1>21. CallType'
  <2>1. cursor' \in Words
    BY <1>1, <1>3, <1>4, <1>8, SlotsFinite, Basics
  <2>. QED
    BY <2>1, <1>1, <1>14, <1>19 DEF BookInv, CallType
<1>22. CallInv(acc)'
  BY <1>1, <1>17, <1>18, <1>20 DEF CallInv, WalkInv
<1>. QED
  BY <1>16, <1>21, <1>22 DEF BookInv

\* The chain path frees exactly the orders of the best level, in one splice.
LEMMA ChainSpliced ==
  ASSUME NEW pos, NEW acc, NEW rank, BookInv(pos, acc, rank), ChainDone,
         NEW side, NEW tick, NEW S, NEW level, NEW n,
         side = MakerSide, tick = best[MakerSide].idx,
         S = Members(slot, allocated, MakerSide, best[MakerSide].idx), level = BestLevel,
         n = level.order_count
  PROVE  /\ side \in Sides /\ tick \in Ticks
         /\ level = levels[side][tick] /\ S = Members(slot, allocated, side, tick)
         /\ Lists(Walk(level.head), S, n, pos)
         /\ slot' = Spliced(slot, S, level.tail, free_head)
         /\ free_head' = level.head /\ allocated' = allocated \ S
         /\ active_count' = active_count - n
         /\ remaining' = remaining - (level.total_quantity % QuantityModulus)
         /\ levels' = PutLevel(levels, side, tick, EmptyLevel)
<1>1. /\ pc = "walk" /\ path = "chain" /\ pc \in {"match", "walk"} /\ cursor = INVALID_INDEX
      /\ pc' = "level"
      /\ UNCHANGED <<index, best, order_map, taker, path, cursor, ret, filled, reported>>
  BY DEF ChainDone
<1>2. AtBest /\ ChainInv(acc) /\ best[MakerSide].has
  BY <1>1 DEF BookInv, CallInv, WalkInv, AtBest
<1>3. /\ Queue(slot, S, level, pos, acc)
      /\ S \in SUBSET Slots /\ S \in SUBSET allocated /\ level \in Levels
      /\ n \in Nat \ {0} /\ level.total_quantity \in Nat
      /\ level.tail \in S /\ pos[level.tail] = n /\ level.head \in S
      /\ tick \in SetTicks(index[side]) /\ ~IsEmpty(level)
  BY <1>1, <1>2, AtBestLevel
<1>4. Store(slot, allocated, free_head, levels, pos, acc, rank) /\ active_count = Cardinality(allocated)
  BY DEF BookInv, Consistent
<1>5. /\ allocated \in SUBSET Slots /\ levels \in [Sides -> [Ticks -> Levels]]
      /\ pos \in [Slots -> Nat] /\ acc \in [Slots -> Nat]
      /\ order_map \in [0 .. MaxOrderId -> Words] /\ MapInv(pos)
  BY <1>4 DEF Store, BookInv, Consistent, CallType
<1>6. PICK w, last, chain : /\ w = Walk(level.head)
                            /\ last = Min({k \in DOMAIN w : w[k] = level.tail})
                            /\ chain = {w[k] : k \in 1 .. last}
  OBVIOUS
<1>7. Lists(w, S, n, pos)
  <2>1. PICK first : first = level.head
    OBVIOUS
  <2>2. n \in 0 .. Capacity /\ Chain(slot, S, n, first, pos)
    BY <1>3, <2>1, BookAssumption DEF Queue, Levels
  <2>3. Lists(Walk(first), S, n, pos)
    BY <1>3, <1>5, <2>2, WalkChain
  <2>. QED
    BY <1>6, <2>1, <2>3
<1>8. \A i, j \in S : pos[i] = pos[j] => i = j
  BY <1>3 DEF Queue, Chain
<1>9. \A i \in S : pos[i] \in 1 .. n
  BY <1>3 DEF Queue, Chain
<1>10. last = n
  <2>1. {k \in DOMAIN w : w[k] = level.tail} = {n}
    <3>1. n \in 1 .. n
      BY <1>3
    <3>2. w[n] = level.tail
      BY <3>1, <1>3, <1>7, <1>8 DEF Lists
    <3>3. \A k \in 1 .. n : w[k] = level.tail => k = n
      BY <1>3, <1>7 DEF Lists
    <3>4. DOMAIN w = 1 .. n
      BY <1>7 DEF Lists
    <3>. QED
      BY <3>1, <3>2, <3>3, <3>4
  <2>2. {n} \in SUBSET Nat /\ n \in {n} /\ \A y \in {n} : n <= y
    BY <1>3
  <2>3. Min({n}) = n
    BY <2>2, MinIs
  <2>. QED
    BY <1>6, <2>1, <2>3
<1>11. chain = S
  <2>1. \A k \in 1 .. n : w[k] \in S /\ pos[w[k]] = k
    BY <1>7 DEF Lists
  <2>2. \A i \in S : w[pos[i]] = i
    BY <2>1, <1>8, <1>9
  <2>3. chain = {w[k] : k \in 1 .. n}
    BY <1>6, <1>10
  <2>4. chain \subseteq S
    BY <2>1, <2>3
  <2>5. S \subseteq chain
    BY <1>9, <2>2, <2>3
  <2>. QED
    BY <2>4, <2>5
<1>12. side \in Sides /\ tick \in Ticks /\ level = levels[side][tick] /\ S = Members(slot, allocated, side, tick)
  BY <1>1, Matching DEF BestLevel
<1>13. /\ slot' = Spliced(slot, S, level.tail, free_head)
       /\ free_head' = level.head /\ allocated' = allocated \ S
       /\ active_count' = active_count - n
       /\ remaining' = remaining - (level.total_quantity % QuantityModulus)
       /\ levels' = PutLevel(levels, side, tick, EmptyLevel)
  BY <1>6, <1>11 DEF ChainDone, Spliced, PutLevel, LevelQuantity
<1>. QED
  BY <1>6, <1>7, <1>12, <1>13

\* The splice: the walk from the head to the tail is the whole level, and its
\* orders have no map entries left.
LEMMA ChainDoneKeepsInv ==
  ASSUME NEW pos, NEW acc, NEW rank, BookInv(pos, acc, rank), ChainDone
  PROVE  \E pos2, acc2, rank2 : BookInv(pos2, acc2, rank2)'
<1>1. /\ pc = "walk" /\ path = "chain" /\ pc \in {"match", "walk"} /\ cursor = INVALID_INDEX
      /\ pc' = "level"
      /\ UNCHANGED <<index, best, order_map, taker, path, cursor, ret, filled, reported>>
  BY DEF ChainDone
<1>2. AtBest /\ ChainInv(acc) /\ best[MakerSide].has
  BY <1>1 DEF BookInv, CallInv, WalkInv, AtBest
<1>3. PICK side, tick, S, level, n :
        /\ side = MakerSide /\ tick = best[MakerSide].idx
        /\ S = Members(slot, allocated, MakerSide, best[MakerSide].idx) /\ level = BestLevel
        /\ n = level.order_count
  OBVIOUS
<1>4. /\ Queue(slot, S, level, pos, acc)
      /\ S \in SUBSET Slots /\ S \in SUBSET allocated /\ level \in Levels
      /\ n \in Nat \ {0} /\ level.total_quantity \in Nat
      /\ level.tail \in S /\ pos[level.tail] = n /\ level.head \in S
      /\ tick \in SetTicks(index[side]) /\ ~IsEmpty(level)
  BY <1>1, <1>2, <1>3, AtBestLevel
<1>5. Store(slot, allocated, free_head, levels, pos, acc, rank) /\ active_count = Cardinality(allocated)
  BY DEF BookInv, Consistent
<1>6. /\ allocated \in SUBSET Slots /\ levels \in [Sides -> [Ticks -> Levels]]
      /\ pos \in [Slots -> Nat] /\ acc \in [Slots -> Nat]
      /\ order_map \in [0 .. MaxOrderId -> Words] /\ MapInv(pos)
  BY <1>5 DEF Store, BookInv, Consistent, CallType
<1>7. /\ side \in Sides /\ tick \in Ticks /\ level = levels[side][tick]
      /\ S = Members(slot, allocated, side, tick)
      /\ slot' = Spliced(slot, S, level.tail, free_head)
      /\ free_head' = level.head /\ allocated' = allocated \ S
      /\ active_count' = active_count - n
      /\ remaining' = remaining - (level.total_quantity % QuantityModulus)
      /\ levels' = PutLevel(levels, side, tick, EmptyLevel)
  BY <1>3, ChainSpliced
<1>8. PICK sl2 : sl2 = Spliced(slot, S, level.tail, free_head)
  OBVIOUS
<1>9. /\ Cardinality(allocated \ S) = Cardinality(allocated) - n
      /\ \E pos2, acc2, rank2 :
              Store(sl2, allocated \ S, level.head, PutLevel(levels, side, tick, EmptyLevel), pos2, acc2, rank2)
  <2>1. side \in Sides /\ tick \in Ticks /\ level = levels[side][tick] /\ S = Members(slot, allocated, side, tick)
    BY <1>7
  <2>2. /\ Cardinality(allocated \ S) = Cardinality(allocated) - level.order_count
        /\ \E pos2, acc2, rank2 :
              Store(sl2, allocated \ S, level.head, PutLevel(levels, side, tick, EmptyLevel), pos2, acc2, rank2)
    BY <1>4, <1>5, <1>8, <2>1, StoreSplice
  <2>. QED
    BY <1>3, <2>2
<1>10. PICK pos2, acc2, rank2 : Store(slot, allocated, free_head, levels, pos2, acc2, rank2)'
  BY <1>7, <1>8, <1>9
<1>11. active_count' = Cardinality(allocated')
  BY <1>5, <1>7, <1>9
<1>12. MapOf(order_map, allocated, slot)'
  <2>1. \A i : Walked(i, pos) <=> i \in S
    BY <1>1, <1>3 DEF Walked
  <2>2. \A i \in allocated \ S : sl2[i] = slot[i]
    BY <1>6, <1>8 DEF Spliced
  <2>3. \A i \in allocated : slot[i].id \in 1 .. MaxOrderId
    BY <1>5, LiveSlot
  <2>4. MapOf(order_map, allocated \ S, sl2)
    BY <1>6, <2>1, <2>2, <2>3 DEF MapOf, MapInv
  <2>. QED
    BY <1>1, <1>7, <1>8, <2>4
<1>13. MapInv(pos2)' /\ order_map' \in [0 .. MaxOrderId -> Words]
  BY <1>1, <1>12, MapWholeNext
<1>14. MakerSide' = side
  BY <1>1, <1>3 DEF MakerSide
<1>15. IndexInv'
  <2>1. \A s \in Sides : Sound(index[s]) /\ SetTicks(index[s]) = Occupied(levels, s)
    BY <1>1 DEF BookInv, Consistent, IndexInv, Pending
  <2>2. \A s \in Sides : Occupied(PutLevel(levels, side, tick, EmptyLevel), s) =
           IF s # side THEN Occupied(levels, s)
           ELSE IF IsEmpty(EmptyLevel) THEN Occupied(levels, s) \ {tick} ELSE Occupied(levels, s) \cup {tick}
    BY <1>6, <1>7, OccupiedUpdate
  <2>3. IsEmpty(EmptyLevel)
    BY DEF IsEmpty, EmptyLevel
  <2>4. \A s \in Sides : Occupied(levels', s) = IF s # side THEN Occupied(levels, s) ELSE Occupied(levels, s) \ {tick}
    BY <2>2, <2>3, <1>7
  <2>5. \A s \in Sides : Pending(s)' = IF s # side THEN {} ELSE {tick}
    BY <1>1, <1>3, <1>14 DEF Pending
  <2>6. \A s \in Sides : SetTicks(index[s]) = Occupied(levels', s) \cup Pending(s)'
    BY <2>1, <2>4, <2>5, <1>4
  <2>. QED
    BY <2>1, <2>6, <1>1 DEF IndexInv
<1>16. BestInv' /\ CrossInv'
  BY <1>1 DEF BookInv, Consistent, BestInv, CrossInv
<1>17. /\ remaining' = remaining - level.total_quantity /\ remaining' \in 0 .. QuantityModulus - 1
       /\ remaining' \in Nat /\ remaining' <= taker.quantity
       /\ reported = taker.quantity - remaining'
  <2>1. /\ remaining \in 0 .. QuantityModulus - 1 /\ remaining \in Nat /\ taker.quantity \in Nat
        /\ remaining <= taker.quantity
    BY <1>1, Matching
  <2>2. /\ level.total_quantity <= remaining
        /\ reported = taker.quantity - remaining + level.total_quantity
    BY <1>1, <1>2, <1>3 DEF ChainInv
  <2>3. /\ level.total_quantity % QuantityModulus = level.total_quantity
        /\ remaining - level.total_quantity \in 0 .. QuantityModulus - 1
        /\ remaining - level.total_quantity \in Nat
    BY <1>4, <2>1, <2>2, LevelFits
  <2>. QED
    BY <1>4, <1>7, <2>1, <2>2, <2>3
<1>18. TakerInv'
  <2>1. TakerInv /\ free_head' # INVALID_INDEX
    BY <1>1, <1>4, <1>7, Matching, Basics
  <2>. QED
    BY <1>1, <1>17, <2>1 DEF TakerInv
<1>19. AtBest'
  BY <1>1, <1>2 DEF AtBest, MakerSide
<1>20. CallType'
  BY <1>1, <1>17 DEF BookInv, CallType
<1>21. CallInv(acc2)'
  BY <1>1, <1>17, <1>18, <1>19 DEF CallInv
<1>22. BookInv(pos2, acc2, rank2)'
  BY <1>10, <1>11, <1>13, <1>15, <1>16, <1>20, <1>21 DEF BookInv, Consistent
<1>. QED
  BY <1>22


\* The index and the taker in the slow path, whose level stays occupied.
LEMMA SlowFrame ==
  ASSUME NEW pos, NEW acc, NEW rank, BookInv(pos, acc, rank), pc = "walk", pc' = "walk", path = "slow",
         UNCHANGED <<index, best, taker>>,
         NEW level, ~IsEmpty(level),
         levels' = PutLevel(levels, MakerSide, best[MakerSide].idx, level)
  PROVE  /\ IndexInv' /\ BestInv' /\ CrossInv' /\ AtBest'
         /\ BestLevel' = level
<1>1. PICK side, tick : side = MakerSide /\ tick = best[MakerSide].idx
  OBVIOUS
<1>2. side \in Sides /\ tick \in Ticks
  BY <1>1, Matching
<1>3. AtBest
  BY DEF BookInv, CallInv
<1>4. tick \in SetTicks(index[side])
  BY <1>1, <1>3, Matching DEF AtBest, BestOn
<1>5. levels \in [Sides -> [Ticks -> Levels]]
  BY DEF BookInv, Consistent, Store
<1>6. \A s \in Sides : Sound(index[s]) /\ SetTicks(index[s]) = Occupied(levels, s)
  BY DEF BookInv, Consistent, IndexInv, Pending
<1>7. \A s \in Sides : Occupied(PutLevel(levels, side, tick, level), s) =
           IF s # side THEN Occupied(levels, s)
           ELSE IF IsEmpty(level) THEN Occupied(levels, s) \ {tick} ELSE Occupied(levels, s) \cup {tick}
  BY <1>2, <1>5, OccupiedUpdate
<1>8. levels' = PutLevel(levels, side, tick, level)
  BY <1>1
<1>9. \A s \in Sides : Occupied(levels', s) = Occupied(levels, s)
  BY <1>4, <1>6, <1>7, <1>8
<1>10. IndexInv'
  BY <1>6, <1>9 DEF IndexInv, Pending
<1>11. BestInv' /\ CrossInv'
  BY DEF BookInv, Consistent, BestInv, CrossInv
<1>12. UNCHANGED MakerSide
  BY DEF MakerSide
<1>13. AtBest'
  BY <1>3, <1>12 DEF AtBest
<1>14. levels'[side][tick] = level
  BY <1>2, <1>5, <1>8 DEF PutLevel
<1>15. BestLevel' = level
  BY <1>1, <1>12, <1>14 DEF BestLevel
<1>. QED
  BY <1>10, <1>11, <1>13, <1>15

\* The slow path drains the first maker of a level that holds more.
LEMMA FillSlowDrainKeepsInv ==
  ASSUME NEW pos, NEW acc, NEW rank, BookInv(pos, acc, rank), FillSlowDrain
  PROVE  \E pos2, acc2, rank2 : BookInv(pos2, acc2, rank2)'
<1>1. /\ pc = "walk" /\ pc' = "walk" /\ path = "slow" /\ pc \in {"match", "walk"} /\ remaining > 0
      /\ UNCHANGED <<index, best, pc, taker, path, ret, filled>>
  BY DEF FillSlowDrain, OnTrade
<1>2. AtBest /\ SlowInv /\ best[MakerSide].has
  BY <1>1 DEF BookInv, CallInv, WalkInv, AtBest
<1>3. PICK side, tick, S, level :
        /\ side = MakerSide /\ tick = best[MakerSide].idx
        /\ S = Members(slot, allocated, MakerSide, best[MakerSide].idx) /\ level = BestLevel
  OBVIOUS
<1>4. PICK i, q : i = cursor /\ q = slot[cursor].quantity
  OBVIOUS
<1>5. PICK rem : rem = RemoveOrder(level, slot, i)
  OBVIOUS
<1>6. /\ Queue(slot, S, level, pos, acc)
      /\ S \in SUBSET Slots /\ S \in SUBSET allocated /\ level \in Levels
      /\ level.total_quantity \in Nat
      /\ \A j \in S : /\ slot[j].side = side /\ slot[j].price - MinPrice = tick
                      /\ slot[j].quantity \in 1 .. QuantityModulus - 1 /\ slot[j].quantity \in Nat
      /\ level.head \in S
  BY <1>1, <1>2, <1>3, AtBestLevel
<1>7. Store(slot, allocated, free_head, levels, pos, acc, rank) /\ active_count = Cardinality(allocated)
  BY DEF BookInv, Consistent
<1>8. /\ slot \in [Slots -> Orders] /\ allocated \in SUBSET Slots
      /\ pos \in [Slots -> Nat] /\ acc \in [Slots -> Nat]
  BY <1>7 DEF Store
<1>9. /\ i = level.head /\ remaining < level.total_quantity /\ reported = taker.quantity - remaining
  BY <1>1, <1>2, <1>3, <1>4 DEF SlowInv
<1>10. i \in S /\ i \in allocated /\ i \in Slots /\ i # INVALID_INDEX /\ q = slot[i].quantity /\ q \in Nat
  BY <1>4, <1>6, <1>8, <1>9, SlotsFinite, Basics
<1>11. /\ remaining \in 0 .. QuantityModulus - 1 /\ remaining \in Nat /\ taker.quantity \in Nat
       /\ remaining <= taker.quantity /\ taker.quantity \in 0 .. QuantityModulus - 1
       /\ side \in Sides /\ tick \in Ticks
  BY <1>1, <1>3, Matching
<1>12. q <= remaining
  BY <1>1, <1>4, <1>10, <1>11 DEF FillSlowDrain, CurrentTrade
<1>13. /\ rem.level = WithoutHead(level, slot[i].quantity, slot[i].next)
       /\ Released(rem, i, free_head) = FreedHead(slot, i, free_head)
       /\ slot[i].next \in S
  <2>1. AtHead(slot, S, level, pos, acc, i)
    BY <1>6, <1>8, <1>9 DEF AtHead
  <2>2. slot[i].quantity < level.total_quantity /\ S # {}
    BY <1>6, <1>9, <1>10, <1>11, <1>12
  <2>. QED
    BY <1>5, <2>1, <2>2, HeadRemoved
<1>14. level = levels[side][tick]
  BY <1>3 DEF BestLevel
<1>15. /\ slot' = Released(rem, i, free_head)
       /\ free_head' = i /\ allocated' = allocated \ {i} /\ active_count' = active_count - 1
       /\ levels' = PutLevel(levels, side, tick, rem.level)
       /\ order_map' = [order_map EXCEPT ![slot[i].id] = INVALID_INDEX]
       /\ reported' = reported + q
       /\ remaining' = remaining - q
       /\ cursor' = slot[i].next
  <2>1. /\ slot' = FreedHead(slot, i, free_head)
        /\ free_head' = i /\ allocated' = allocated \ {i} /\ active_count' = active_count - 1
        /\ order_map' = [order_map EXCEPT ![slot[i].id] = INVALID_INDEX]
        /\ reported' = reported + q
        /\ remaining' = remaining - q
        /\ cursor' = slot[i].next
    BY <1>4 DEF FillSlowDrain, FreedHead
  <2>2. levels' = PutLevel(levels, MakerSide, best[MakerSide].idx,
                           WithoutHead(levels[MakerSide][best[MakerSide].idx],
                                       slot[cursor].quantity, slot[cursor].next))
    BY Zenon DEF FillSlowDrain, PutLevel
  <2>3. levels' = PutLevel(levels, side, tick, WithoutHead(level, q, slot[i].next))
    BY <2>2, <1>3, <1>4, <1>14
  <2>. QED
    BY <1>10, <1>13, <2>1, <2>3
<1>16. PICK pos2, acc2, rank2 : Store(slot, allocated, free_head, levels, pos2, acc2, rank2)'
  <2>1. Leaves(slot, allocated, levels, i, side, tick, rem)
    BY <1>5, <1>6, <1>10, <1>14 DEF Leaves
  <2>2. \E pos2, acc2, rank2 :
              Store(Released(rem, i, free_head), allocated \ {i}, i,
                    PutLevel(levels, side, tick, rem.level), pos2, acc2, rank2)
    BY <1>7, <2>1, StoreRemove
  <2>. QED
    BY <2>2, <1>15
<1>17. MapOf(order_map, allocated, slot)'
  <2>1. MapOf(order_map, allocated, slot)
    BY <1>1, MapWhole
  <2>2. PICK sl2 : sl2 = Released(rem, i, free_head)
    OBVIOUS
  <2>3. SameIds(slot, sl2, allocated \ {i})
    <3>1. Leaves(slot, allocated, levels, i, side, tick, rem)
      BY <1>5, <1>6, <1>10, <1>14 DEF Leaves
    <3>2. SameIds(slot, Released(rem, i, free_head), allocated \ {i})
      BY <1>7, <3>1, StoreRemove
    <3>. QED
      BY <2>2, <3>2
  <2>4. MapOf([order_map EXCEPT ![slot[i].id] = INVALID_INDEX], allocated \ {i}, sl2)
    BY <1>8, <1>10, <2>1, <2>3, MapDrop
  <2>. QED
    BY <2>2, <2>4, <1>15
<1>18. active_count' = Cardinality(allocated')
  BY <1>7, <1>8, <1>10, <1>15, CountChanges
<1>19. MapInv(pos2)' /\ order_map' \in [0 .. MaxOrderId -> Words]
  BY <1>1, <1>17, MapWholeNext
<1>20. /\ rem.level.head = slot[i].next
       /\ rem.level.total_quantity = level.total_quantity - q
       /\ ~IsEmpty(rem.level)
  <2>1. slot[i].next # INVALID_INDEX
    BY <1>6, <1>13, Basics
  <2>2. /\ WithoutHead(level, slot[i].quantity, slot[i].next).head = slot[i].next
        /\ WithoutHead(level, slot[i].quantity, slot[i].next).total_quantity = level.total_quantity - slot[i].quantity
    BY <1>6 DEF WithoutHead, ShrinkLevel, Levels
  <2>. QED
    BY <1>10, <1>13, <2>1, <2>2 DEF IsEmpty
<1>21. /\ IndexInv' /\ BestInv' /\ CrossInv' /\ AtBest' /\ BestLevel' = rem.level
  <2>1. PICK l2 : l2 = rem.level
    OBVIOUS
  <2>2. ~IsEmpty(l2) /\ levels' = PutLevel(levels, MakerSide, best[MakerSide].idx, l2)
    BY <2>1, <1>3, <1>15, <1>20
  <2>3. /\ IndexInv' /\ BestInv' /\ CrossInv' /\ AtBest' /\ BestLevel' = l2
    BY <1>1, <2>2, SlowFrame
  <2>. QED
    BY <2>1, <2>3
<1>22. /\ remaining' \in 0 .. QuantityModulus - 1 /\ remaining' <= taker.quantity
       /\ remaining' < level.total_quantity - q
       /\ reported' = taker.quantity - remaining' /\ reported' \in 0 .. QuantityModulus - 1
  BY <1>6, <1>9, <1>10, <1>11, <1>12, <1>15, BookAssumption
<1>23. TakerInv'
  <2>1. TakerInv /\ order_map \in [0 .. MaxOrderId -> Words] /\ free_head' # INVALID_INDEX
    BY <1>1, <1>10, <1>15, Matching DEF BookInv, CallType
  <2>. QED
    BY <1>1, <1>15, <1>22, <2>1, TakerGoesOn
<1>24. SlowInv'
  BY <1>1, <1>15, <1>20, <1>21, <1>22 DEF SlowInv
<1>25. CallType'
  <2>1. cursor' \in Words
    BY <1>6, <1>13, <1>15, SlotsFinite
  <2>. QED
    BY <2>1, <1>1, <1>15, <1>19, <1>22 DEF BookInv, CallType
<1>26. CallInv(acc2)'
  BY <1>1, <1>21, <1>23, <1>24 DEF CallInv, WalkInv
<1>27. BookInv(pos2, acc2, rank2)'
  BY <1>16, <1>18, <1>19, <1>21, <1>25, <1>26 DEF BookInv, Consistent
<1>. QED
  BY <1>27

\* The slow path's last maker keeps what the taker did not need.
LEMMA FillSlowPartialKeepsInv ==
  ASSUME NEW pos, NEW acc, NEW rank, BookInv(pos, acc, rank), FillSlowPartial
  PROVE  \E pos2, acc2, rank2 : BookInv(pos2, acc2, rank2)'
<1>1. /\ pc = "walk" /\ pc' = "walk" /\ path = "slow" /\ pc \in {"match", "walk"} /\ remaining > 0
      /\ UNCHANGED <<free_head, allocated, index, best, order_map, active_count,
                     pc, taker, path, ret, filled>>
  BY DEF FillSlowPartial, OnTrade
<1>2. AtBest /\ SlowInv /\ best[MakerSide].has
  BY <1>1 DEF BookInv, CallInv, WalkInv, AtBest
<1>3. PICK side, tick, S, level :
        /\ side = MakerSide /\ tick = best[MakerSide].idx
        /\ S = Members(slot, allocated, MakerSide, best[MakerSide].idx) /\ level = BestLevel
  OBVIOUS
<1>4. PICK i, d : i = cursor /\ d = remaining
  OBVIOUS
<1>5. /\ S \in SUBSET Slots /\ S \in SUBSET allocated /\ level \in Levels
      /\ level.total_quantity \in Nat /\ ~IsEmpty(level)
      /\ \A j \in S : slot[j].quantity \in Nat
      /\ level.head \in S
  BY <1>1, <1>2, <1>3, AtBestLevel
<1>6. Store(slot, allocated, free_head, levels, pos, acc, rank) /\ active_count = Cardinality(allocated)
  BY DEF BookInv, Consistent
<1>7. slot \in [Slots -> Orders] /\ allocated \in SUBSET Slots
  BY <1>6 DEF Store
<1>8. /\ i = level.head /\ d < level.total_quantity /\ reported = taker.quantity - d
  BY <1>1, <1>2, <1>3, <1>4 DEF SlowInv
<1>9. /\ d \in 0 .. QuantityModulus - 1 /\ d \in Nat /\ taker.quantity \in Nat
      /\ d <= taker.quantity /\ taker.quantity \in 0 .. QuantityModulus - 1
      /\ side \in Sides /\ tick \in Ticks
  BY <1>1, <1>3, <1>4, Matching
<1>10. CurrentTrade.quantity = d /\ d < slot[i].quantity
  <2>1. CurrentTrade.quantity = IF d < slot[i].quantity THEN d ELSE slot[i].quantity
    BY <1>1, <1>4 DEF CurrentTrade
  <2>2. CurrentTrade.quantity < slot[i].quantity /\ slot[i].quantity \in Nat
    BY <1>4, <1>5, <1>8 DEF FillSlowPartial
  <2>. QED
    BY <2>1, <2>2
<1>11. level = levels[side][tick]
  BY <1>3 DEF BestLevel
<1>12. /\ slot' = Taken(slot, i, d)
       /\ levels' = PutLevel(levels, side, tick, ShrinkLevel(level, d))
       /\ reported' = reported + d
       /\ remaining' = d - d
       /\ cursor' = slot[i].next
  <2>1. levels' = [levels EXCEPT ![side][tick] = ShrinkLevel(@, d)]
    BY <1>3, <1>10 DEF FillSlowPartial
  <2>2. levels' = PutLevel(levels, side, tick, ShrinkLevel(level, d))
    BY <2>1, <1>11 DEF PutLevel
  <2>3. /\ slot' = Taken(slot, i, d) /\ reported' = reported + d /\ remaining' = d - d
        /\ cursor' = slot[i].next
    BY <1>4, <1>10 DEF FillSlowPartial, Taken
  <2>. QED
    BY <2>2, <2>3
<1>13. PICK sl2 : sl2 = Taken(slot, i, d)
  OBVIOUS
<1>14. SameIds(slot, sl2, Slots)
  BY <1>5, <1>6, <1>8, <1>9, <1>10, <1>11, <1>13, StoreShrink
<1>15. PICK pos2, acc2, rank2 : Store(slot, allocated, free_head, levels, pos2, acc2, rank2)'
  <2>1. \E pos2, acc2, rank2 :
          Store(sl2, allocated, free_head, PutLevel(levels, side, tick, ShrinkLevel(level, d)), pos2, acc2, rank2)
    BY <1>5, <1>6, <1>8, <1>9, <1>10, <1>11, <1>13, StoreShrink
  <2>. QED
    BY <2>1, <1>1, <1>12, <1>13
<1>16. MapOf(order_map, allocated, slot)'
  <2>1. MapOf(order_map, allocated, slot)
    BY <1>1, MapWhole
  <2>2. MapOf(order_map, allocated, sl2)
    BY <2>1, <1>7, <1>14 DEF MapOf, SameIds
  <2>. QED
    BY <2>2, <1>1, <1>12, <1>13
<1>17. MapInv(pos2)' /\ order_map' \in [0 .. MaxOrderId -> Words]
  BY <1>1, <1>16, MapWholeNext
<1>18. PICK l2 : l2 = ShrinkLevel(level, d)
  OBVIOUS
<1>19. l2.head = level.head /\ l2.total_quantity = level.total_quantity - d /\ ~IsEmpty(l2)
  BY <1>5, <1>18 DEF ShrinkLevel, Levels, IsEmpty
<1>20. /\ IndexInv' /\ BestInv' /\ CrossInv' /\ AtBest' /\ BestLevel' = l2
  <2>1. levels' = PutLevel(levels, MakerSide, best[MakerSide].idx, l2)
    BY <1>3, <1>12, <1>18
  <2>. QED
    BY <1>1, <1>19, <2>1, SlowFrame
<1>21. /\ remaining' = 0 /\ remaining' \in 0 .. QuantityModulus - 1 /\ remaining' <= taker.quantity
       /\ remaining' < level.total_quantity - d
       /\ reported' = taker.quantity - remaining' /\ reported' \in 0 .. QuantityModulus - 1
  BY <1>5, <1>8, <1>9, <1>12, BookAssumption
<1>22. TakerInv'
  <2>1. TakerInv
    BY <1>1, Matching
  <2>. QED
    BY <2>1, <1>1, <1>21 DEF TakerInv
<1>23. SlowInv'
  BY <1>1, <1>19, <1>20, <1>21 DEF SlowInv
<1>24. CallType'
  <2>1. cursor' \in Words
    BY <1>5, <1>7, <1>8, <1>12 DEF Orders
  <2>. QED
    BY <2>1, <1>1, <1>17, <1>21 DEF BookInv, CallType
<1>25. CallInv(acc2)'
  BY <1>1, <1>20, <1>22, <1>23 DEF CallInv, WalkInv
<1>26. BookInv(pos2, acc2, rank2)'
  BY <1>1, <1>6, <1>15, <1>17, <1>20, <1>24, <1>25 DEF BookInv, Consistent
<1>. QED
  BY <1>26

\* The remainder of a limit order rests: it does not cross the best opposite
\* price, so it crosses no resting order.
LEMMA AddRestedKeepsInv ==
  ASSUME NEW pos, NEW acc, NEW rank, BookInv(pos, acc, rank), AddRested
  PROVE  \E pos2, acc2, rank2 : BookInv(pos2, acc2, rank2)'
<1>1. /\ pc = "match" /\ ~Crosses /\ remaining > 0 /\ taker.type = "Limit" /\ free_head # INVALID_INDEX
      /\ Return("Accepted", Filled)
  BY DEF AddRested, MatchOver
<1>2. /\ TakerInv /\ taker \in Takers /\ taker.side \in Sides /\ MakerSide \in Sides
      /\ remaining \in 0 .. QuantityModulus - 1 /\ remaining \in Nat
      /\ taker.id \in 1 .. MaxOrderId /\ order_map[taker.id] = INVALID_INDEX
      /\ taker.price \in MinPrice .. MaxPrice
      /\ MakerSide # taker.side
  BY <1>1, Matching DEF TakerInv
<1>3. PICK side, tick, i : side = taker.side /\ tick = taker.price - MinPrice /\ i = free_head
  OBVIOUS
<1>4. side \in Sides /\ tick \in Ticks /\ tick \in Nat /\ taker.price = MinPrice + tick
  BY <1>2, <1>3, PriceAssumption DEF Ticks, PriceRange
<1>5. PICK order : order = [next |-> INVALID_INDEX, prev |-> INVALID_INDEX, id |-> taker.id,
                            price |-> taker.price, quantity |-> remaining, side |-> side]
  OBVIOUS
<1>6. /\ order \in Resting /\ order.side = side /\ order.price = MinPrice + tick
      /\ order.id = taker.id
  BY <1>1, <1>2, <1>4, <1>5, Basics DEF Resting
<1>7. PICK app : app = AppendOrder(levels[side][tick], [slot EXCEPT ![i] = order], i)
  OBVIOUS
<1>8. Store(slot, allocated, free_head, levels, pos, acc, rank) /\ active_count = Cardinality(allocated)
  BY DEF BookInv, Consistent
<1>9. /\ allocated \in SUBSET Slots /\ levels \in [Sides -> [Ticks -> Levels]]
      /\ best \in [Sides -> Bests] /\ index \in [Sides -> IndexType]
  BY <1>8 DEF Store, BookInv, CallType
<1>10. /\ free_head' = slot[i].next
       /\ allocated' = allocated \cup {i}
       /\ slot' = app.slot
       /\ levels' = PutLevel(levels, side, tick, app.level)
       /\ index' = IF IsEmpty(levels[side][tick])
                   THEN [index EXCEPT ![side] = SetBit(index[side], tick)]
                   ELSE index
       /\ best' = IF Improves(side, taker.price)
                  THEN [best EXCEPT ![side] = BestAt(side, tick)]
                  ELSE best
       /\ order_map' = [order_map EXCEPT ![taker.id] = i]
       /\ active_count' = active_count + 1
  BY <1>3, <1>5, <1>7 DEF AddRested, PutLevel
<1>11. /\ i \in Slots \ allocated
       /\ SameIds(slot, app.slot, allocated) /\ app.slot[i].id = taker.id
       /\ ~IsEmpty(app.level)
       /\ \E pos2, acc2, rank2 :
            Store(app.slot, allocated \cup {i}, slot[i].next, PutLevel(levels, side, tick, app.level),
                  pos2, acc2, rank2)
  <2>1. Store(slot, allocated, i, levels, pos, acc, rank) /\ i # INVALID_INDEX
    BY <1>1, <1>3, <1>8
  <2>2. Rests(slot, i, levels, side, tick, order, app)
    BY <1>4, <1>6, <1>7, <2>1 DEF Rests
  <2>3. Rested(slot, allocated, i, levels, side, tick, order, app)
    BY <2>1, <2>2, StoreAdd
  <2>. QED
    BY <1>6, <2>3 DEF Rested
<1>12. PICK pos2, acc2, rank2 : Store(slot, allocated, free_head, levels, pos2, acc2, rank2)'
  BY <1>10, <1>11
<1>13. MapOf(order_map, allocated, slot)'
  <2>1. MapOf(order_map, allocated, slot)
    BY <1>1, MapWhole
  <2>2. PICK sl2 : sl2 = app.slot
    OBVIOUS
  <2>3. SameIds(slot, sl2, allocated) /\ sl2[i].id = taker.id
    BY <1>11, <2>2
  <2>4. MapOf([order_map EXCEPT ![taker.id] = i], allocated \cup {i}, sl2)
    BY <1>2, <1>9, <1>11, <2>1, <2>3, MapAdd
  <2>. QED
    BY <2>2, <2>4, <1>10
<1>14. active_count' = Cardinality(allocated')
  BY <1>8, <1>9, <1>10, <1>11, CountChanges
<1>15. /\ pc' = "done" /\ ret' = "Accepted" /\ filled' = Filled
       /\ UNCHANGED <<taker, remaining, path, cursor, reported>>
  BY <1>1 DEF Return
<1>16. \A s \in Sides : /\ Sound(index[s]) /\ SetTicks(index[s]) = Occupied(levels, s)
                        /\ BestOn(SetTicks(index[s]), s, best[s])
                        /\ SetTicks(index[s]) \in SUBSET Ticks /\ SetTicks(index[s]) \in SUBSET Nat
  BY <1>1, Sizes DEF BookInv, Consistent, IndexInv, BestInv, Pending, SetTicks
<1>17. PICK ix : ix = IF IsEmpty(levels[side][tick]) THEN SetBit(index[side], tick) ELSE index[side]
  OBVIOUS
<1>18. /\ Sound(ix) /\ ix \in IndexType /\ SetTicks(ix) = SetTicks(index[side]) \cup {tick}
  <2>1. CASE IsEmpty(levels[side][tick])
    <3>1. Sound(ix) /\ SetTicks(ix) = SetTicks(index[side]) \cup {tick}
      BY <1>4, <1>16, <1>17, <2>1, SetBitSound, SetBitTicks
    <3>. QED
      BY <3>1 DEF Sound
  <2>2. CASE ~IsEmpty(levels[side][tick])
    <3>1. tick \in SetTicks(index[side])
      BY <1>4, <1>16, <2>2 DEF Occupied
    <3>. QED
      BY <3>1, <1>4, <1>16, <1>17, <2>2 DEF Sound
  <2>. QED
    BY <2>1, <2>2
<1>19. /\ SetTicks(ix) = Occupied(levels', side)
       /\ \A s \in Sides \ {side} : Occupied(levels', s) = Occupied(levels, s)
  <2>1. PICK level : level = app.level
    OBVIOUS
  <2>2. \A s \in Sides : Occupied(PutLevel(levels, side, tick, level), s) =
           IF s # side THEN Occupied(levels, s)
           ELSE IF IsEmpty(level) THEN Occupied(levels, s) \ {tick} ELSE Occupied(levels, s) \cup {tick}
    BY <1>4, <1>9, OccupiedUpdate
  <2>. QED
    BY <2>1, <2>2, <1>4, <1>10, <1>11, <1>16, <1>18
<1>20. PICK b : b = IF Improves(side, MinPrice + tick) THEN BestAt(side, tick) ELSE best[side]
  OBVIOUS
<1>21. b \in Bests /\ BestOn(SetTicks(ix), side, b)
  <2>1. PICK T \in SUBSET Ticks : T = SetTicks(index[side])
    BY <1>4, <1>16
  <2>2. BestOn(T, side, best[side])
    BY <1>4, <1>16, <2>1
  <2>3. b \in Bests /\ BestOn(T \cup {tick}, side, b)
    BY <1>4, <1>9, <1>20, <2>2, BestImproves
  <2>. QED
    BY <2>1, <2>3, <1>18
<1>22. /\ index'[side] = ix /\ \A s \in Sides \ {side} : index'[s] = index[s]
       /\ best'[side] = b /\ \A s \in Sides \ {side} : best'[s] = best[s]
       /\ best' \in [Sides -> Bests] /\ index' \in [Sides -> IndexType]
  <2>1. /\ index'[side] = ix /\ (\A s \in Sides \ {side} : index'[s] = index[s])
        /\ index' \in [Sides -> IndexType]
    BY <1>4, <1>9, <1>10, <1>17, <1>18
  <2>2. /\ best'[side] = b /\ (\A s \in Sides \ {side} : best'[s] = best[s])
        /\ best' \in [Sides -> Bests]
    BY <1>4, <1>9, <1>10, <1>20, <1>21
  <2>. QED
    BY <2>1, <2>2
<1>23. IndexInv' /\ BestInv'
  <2>1. \A s \in Sides : /\ Sound(index'[s]) /\ SetTicks(index'[s]) = Occupied(levels', s)
                         /\ BestOn(SetTicks(index'[s]), s, best'[s])
    BY <1>16, <1>18, <1>19, <1>21, <1>22
  <2>. QED
    BY <2>1, <1>15 DEF IndexInv, BestInv, Pending
<1>24. CrossInv'
  <2>1. CrossInv
    BY DEF BookInv, Consistent
  <2>2. CASE side = "Buy"
    <3>1. \A ask \in SetTicks(index["Sell"]) : tick < ask
      <4>1. CASE ~best["Sell"].has
        BY <1>16, <4>1 DEF BestOn, Sides
      <4>2. CASE best["Sell"].has
        <5>1. best["Sell"].price > taker.price /\ best["Sell"] \in Bests
          BY <1>1, <1>2, <1>3, <1>9, <2>2, <4>2, PriceAssumption DEF Crosses, BuyCrosses, Bests, Sides
        <5>2. /\ best["Sell"].idx \in Nat /\ best["Sell"].price = MinPrice + best["Sell"].idx
              /\ \A ask \in SetTicks(index["Sell"]) : best["Sell"].idx <= ask /\ ask \in Nat
          BY <1>16, <4>2 DEF BestOn, Sides
        <5>. QED
          BY <1>4, <5>1, <5>2, PriceAssumption
      <4>. QED
        BY <4>1, <4>2
    <3>2. SetTicks(index'["Buy"]) = SetTicks(index["Buy"]) \cup {tick} /\ index'["Sell"] = index["Sell"]
      BY <1>18, <1>22, <2>2 DEF Sides
    <3>. QED
      BY <2>1, <3>1, <3>2 DEF CrossInv
  <2>3. CASE side = "Sell"
    <3>1. \A bid \in SetTicks(index["Buy"]) : bid < tick
      <4>1. CASE ~best["Buy"].has
        BY <1>16, <4>1 DEF BestOn, Sides
      <4>2. CASE best["Buy"].has
        <5>1. best["Buy"].price < taker.price /\ best["Buy"] \in Bests
          BY <1>1, <1>2, <1>3, <1>9, <2>3, <4>2, PriceAssumption DEF Crosses, SellCrosses, Bests, Sides
        <5>2. /\ best["Buy"].idx \in Nat /\ best["Buy"].price = MinPrice + best["Buy"].idx
              /\ \A bid \in SetTicks(index["Buy"]) : bid <= best["Buy"].idx /\ bid \in Nat
          BY <1>16, <4>2 DEF BestOn, Sides
        <5>. QED
          BY <1>4, <5>1, <5>2, PriceAssumption
      <4>. QED
        BY <4>1, <4>2
    <3>2. SetTicks(index'["Sell"]) = SetTicks(index["Sell"]) \cup {tick} /\ index'["Buy"] = index["Buy"]
      BY <1>18, <1>22, <2>3 DEF Sides
    <3>. QED
      BY <2>1, <3>1, <3>2 DEF CrossInv
  <2>. QED
    BY <1>4, <2>2, <2>3 DEF Sides
<1>25. MapInv(pos2)' /\ order_map' \in [0 .. MaxOrderId -> Words]
  BY <1>13, <1>15, MapWholeNext
<1>26. reported = Filled /\ reported \in 0 .. QuantityModulus - 1
  BY <1>1 DEF BookInv, CallInv, CallType, Filled
<1>27. CallType'
  BY <1>15, <1>22, <1>25, <1>26 DEF BookInv, CallType, RejectReasons
<1>28. CallInv(acc2)'
  BY <1>15, <1>26 DEF CallInv
<1>29. BookInv(pos2, acc2, rank2)'
  BY <1>12, <1>14, <1>23, <1>24, <1>25, <1>27, <1>28 DEF BookInv, Consistent
<1>. QED
  BY <1>29

-----------------------------------------------------------------------------
(***************************************************************************)
(* The invariant is inductive.                                             *)
(***************************************************************************)
LEMMA MatchStepKeepsInv ==
  ASSUME NEW pos, NEW acc, NEW rank, BookInv(pos, acc, rank), MatchStep
  PROVE  Inv'
<1>1. CASE EnterLevel
  BY <1>1, EnterLevelKeepsInv DEF Inv
<1>2. CASE FillSingle
  BY <1>2, FillSingleKeepsInv DEF Inv
<1>3. CASE FillChain
  BY <1>3, FillChainKeepsInv DEF Inv
<1>4. CASE ChainDone
  BY <1>4, ChainDoneKeepsInv DEF Inv
<1>5. CASE FillSlowDrain
  BY <1>5, FillSlowDrainKeepsInv DEF Inv
<1>6. CASE FillSlowPartial
  BY <1>6, FillSlowPartialKeepsInv DEF Inv
<1>7. CASE SlowDone
  BY <1>7, SlowDoneKeepsInv DEF Inv
<1>8. CASE LevelDone
  BY <1>8, LevelDoneKeepsInv DEF Inv
<1>. QED
  BY <1>1, <1>2, <1>3, <1>4, <1>5, <1>6, <1>7, <1>8 DEF MatchStep

\* Every step of the client and of the engine keeps the invariant.
LEMMA NextInv == Inv /\ [Next]_vars => Inv'
<1> SUFFICES ASSUME Inv, [Next]_vars PROVE Inv'
  OBVIOUS
<1>1. PICK pos, acc, rank : BookInv(pos, acc, rank)
  BY DEF Inv
<1>2. ASSUME NEW id \in CancelIds, CancelOrder(id) PROVE Inv'
  BY <1>1, <1>2, CancelKeepsInv DEF Inv
<1>3. ASSUME NEW id \in CancelIds, RejectCancel(id) PROVE Inv'
  BY <1>1, <1>3, RejectCancelKeepsInv DEF Inv
<1>4. ASSUME NEW id \in AddIds, NEW type \in {"Limit", "Market"}, NEW price \in OrderPrices,
             NEW quantity \in Quantities, NEW side \in Sides,
             AcceptAdd(id, type, price, quantity, side)
      PROVE  Inv'
  BY <1>1, <1>4, AcceptAddKeepsInv DEF Inv
<1>5. ASSUME NEW id \in AddIds, NEW type \in {"Limit", "Market"}, NEW price \in OrderPrices,
             NEW quantity \in Quantities, NEW side \in Sides,
             RejectAdd(id, type, price, quantity, side)
      PROVE  Inv'
  BY <1>1, <1>5, RejectAddKeepsInv DEF Inv
<1>6. CASE MatchBuy \/ MatchSell
  BY <1>1, <1>6, MatchStepKeepsInv DEF MatchBuy, MatchSell
<1>7. CASE AddFilled
  BY <1>1, <1>7, AddFilledKeepsInv DEF Inv
<1>8. CASE AddExhausted
  BY <1>1, <1>8, AddExhaustedKeepsInv DEF Inv
<1>9. CASE AddRested
  BY <1>1, <1>9, AddRestedKeepsInv DEF Inv
<1>10. CASE ClientResumes
  BY <1>1, <1>10, ResumesKeepsInv DEF Inv
<1>11. CASE UNCHANGED vars
  <2>1. Consistent(pos, acc, rank)'
    <3> USE <1>1, <1>11 DEF vars, BookInv, Consistent
    <3>1. Store(slot, allocated, free_head, levels, pos, acc, rank)' /\ active_count' = Cardinality(allocated')
      OBVIOUS
    <3>2. IndexInv' /\ BestInv' /\ CrossInv'
      BY DEF IndexInv, Pending, MakerSide, BestInv, CrossInv
    <3>3. MapInv(pos)'
      BY DEF MapInv, Walked, MakerSide
    <3>. QED
      BY <3>1, <3>2, <3>3
  <2>2. CallType'
    BY <1>1, <1>11 DEF vars, BookInv, CallType
  <2>3. CallInv(acc)'
    <3> USE <1>11 DEF vars
    <3>1. MakerSide' = MakerSide /\ BestLevel' = BestLevel
      BY DEF MakerSide, BestLevel
    <3>2. TakerInv' = TakerInv /\ AtBest' = AtBest
      BY <3>1 DEF TakerInv, AtBest
    <3>3. SingleInv' = SingleInv /\ ChainInv(acc)' = ChainInv(acc) /\ SlowInv' = SlowInv
      BY <3>1 DEF SingleInv, ChainInv, SlowInv
    <3>4. CallInv(acc)
      BY <1>1 DEF BookInv
    <3>. QED
      BY <3>2, <3>3, <3>4 DEF CallInv, WalkInv
  <2>. QED
    BY <2>1, <2>2, <2>3 DEF Inv, BookInv
<1>. QED
  BY <1>2, <1>3, <1>4, <1>5, <1>6, <1>7, <1>8, <1>9, <1>10, <1>11
  DEF Next, ClientCalls, EngineStep

\* BookInv holds in every reachable state, for some order of the queues.
THEOREM InvHolds == Spec => []Inv
<1>1. Init => Inv
  BY InitInv
<1>2. Inv /\ [Next]_vars => Inv'
  BY NextInv
<1>. QED
  BY <1>1, <1>2, PTL DEF Spec

-----------------------------------------------------------------------------
\* Every index, count and quantity stays inside its range.
LEMMA InvTypeOK == Inv => TypeOK
<1> SUFFICES ASSUME NEW pos, NEW acc, NEW rank, BookInv(pos, acc, rank) PROVE TypeOK
  BY DEF Inv
<1>1. CallType
  BY DEF BookInv
<1>2. /\ slot \in [Slots -> Orders] /\ free_head \in Words /\ allocated \in SUBSET Slots
      /\ levels \in [Sides -> [Ticks -> Levels]]
  BY DEF BookInv, Consistent, Store
<1>3. active_count \in 0 .. Capacity
  BY <1>2, SlotsFinite DEF BookInv, Consistent
<1>. QED
  BY <1>1, <1>2, <1>3 DEF TypeOK, CallType

\* What a queue says of its level is what validate_book checks by walking it.
LEMMA InvLevelValid ==
  ASSUME NEW pos, NEW acc, NEW rank, BookInv(pos, acc, rank), pc \in {"idle", "done"},
         NEW side \in Sides, NEW tick \in Ticks
  PROVE  LevelValid(side, tick)
<1>1. PICK S, level, w : /\ S = Members(slot, allocated, side, tick) /\ level = levels[side][tick]
                         /\ w = Walk(level.head)
  OBVIOUS
<1>2. Store(slot, allocated, free_head, levels, pos, acc, rank)
  BY DEF BookInv, Consistent
<1>3. pos \in [Slots -> Nat] /\ acc \in [Slots -> Nat]
  BY <1>2 DEF Store
<1>4. /\ Queue(slot, S, level, pos, acc)
      /\ S \in SUBSET Slots /\ S \in SUBSET allocated /\ level \in Levels
      /\ level.order_count \in Nat
      /\ \A j \in S : slot[j].quantity \in Nat
  BY <1>1, <1>2, LevelFacts
<1>5. WalksLevel(w, S, level, pos)
  BY <1>1, <1>3, <1>4, WalkQueue
<1>6. level.order_count <= Capacity
  BY <1>4 DEF Levels
<1>7. MapOf(order_map, allocated, slot)
  BY MapWhole
<1>8. \A j \in S : /\ j \in allocated /\ order_map[slot[j].id] = j
                   /\ slot[j].price = MinPrice + tick /\ slot[j].side = side
  BY <1>1, <1>4, <1>7 DEF Members, MapOf
<1>. QED
  BY <1>1, <1>5, <1>6, <1>8 DEF LevelValid, WalksLevel

\* The cached best prices are the extremes of the occupied levels.
LEMMA InvBestValid ==
  ASSUME NEW pos, NEW acc, NEW rank, BookInv(pos, acc, rank), pc \in {"idle", "done"},
         NEW side \in Sides
  PROVE  IndexValid(side) /\ BestValid(side)
<1>1. PICK T : T = Occupied(levels, side)
  OBVIOUS
<1>2. SetTicks(index[side]) = T /\ Sound(index[side]) /\ BestOn(T, side, best[side])
  BY <1>1 DEF BookInv, Consistent, IndexInv, Pending, BestInv
<1>3. T \in SUBSET Ticks /\ T \in SUBSET Nat /\ T \in SUBSET (0 .. PriceRange) /\ PriceRange \in Nat
  BY <1>1, Sizes DEF Occupied, Ticks
<1>4. T = {tick \in Ticks : ~IsEmpty(levels[side][tick])}
  BY <1>1 DEF Occupied
<1>5. IndexValid(side)
  BY <1>2, <1>4 DEF IndexValid, Sound
<1>6. best[side] \in Bests
  BY DEF BookInv, CallType
<1>7. CASE best[side].has
  <2>1. PICK m : m = best[side].idx
    OBVIOUS
  <2>2. /\ m \in T /\ m \in Nat /\ T # {} /\ best[side].price = MinPrice + m
        /\ \A t \in T : IF side = "Buy" THEN t <= m ELSE m <= t
    BY <1>2, <1>3, <1>7, <2>1 DEF BestOn
  <2>3. CASE side = "Buy"
    <3>1. \A t \in T : t <= m
      BY <2>2, <2>3
    <3>2. Max(T) = m
      BY <1>3, <2>2, <3>1, MaxIs
    <3>. QED
      BY <1>4, <1>5, <1>7, <2>1, <2>2, <2>3, <3>2 DEF BestValid
  <2>4. CASE side = "Sell"
    <3>1. \A t \in T : m <= t
      BY <2>2, <2>4
    <3>2. Min(T) = m
      BY <1>3, <2>2, <3>1, MinIs
    <3>. QED
      BY <1>4, <1>5, <1>7, <2>1, <2>2, <2>4, <3>2 DEF BestValid
  <2>. QED
    BY <2>3, <2>4 DEF Sides
<1>8. CASE ~best[side].has
  BY <1>2, <1>4, <1>5, <1>6, <1>8 DEF BestValid, BestOn, Bests
<1>. QED
  BY <1>7, <1>8

\* The four counts validate_book compares are the number of live slots.
LEMMA InvCountsValid ==
  ASSUME NEW pos, NEW acc, NEW rank, BookInv(pos, acc, rank), pc \in {"idle", "done"}
  PROVE  MapValid /\ CountsValid
<1>1. Store(slot, allocated, free_head, levels, pos, acc, rank) /\ active_count = Cardinality(allocated)
  BY DEF BookInv, Consistent
<1>2. MapOf(order_map, allocated, slot)
  BY MapWhole
<1>3. /\ allocated \in SUBSET Slots
      /\ \A i \in allocated : slot[i].id \in 1 .. MaxOrderId /\ order_map[slot[i].id] = i
      /\ \A id \in 1 .. MaxOrderId :
           order_map[id] # INVALID_INDEX => order_map[id] \in allocated /\ slot[order_map[id]].id = id
  BY <1>1, <1>2 DEF MapOf, Store
<1>4. Cardinality({id \in 1 .. MaxOrderId : order_map[id] # INVALID_INDEX}) = Cardinality(allocated)
  BY <1>3, MapCount
<1>5. RestingCount = Cardinality(allocated)
  BY <1>1, RestingCountAll
<1>6. Len(Walk(free_head)) = Capacity - Cardinality(allocated)
  <2>1. PICK F, n : F = Slots \ allocated /\ n = Capacity - Cardinality(allocated)
    OBVIOUS
  <2>2. F \in SUBSET Slots /\ n \in 0 .. Capacity
    BY <1>3, <2>1, SlotsFinite, BookAssumption
  <2>3. Chain(slot, F, n, free_head, rank) /\ rank \in [Slots -> Nat]
    BY <1>1, <2>1 DEF Store
  <2>4. Lists(Walk(free_head), F, n, rank)
    BY <2>2, <2>3, WalkChain
  <2>. QED
    BY <2>1, <2>4 DEF Lists
<1>7. MapValid
  BY <1>3 DEF MapValid
<1>8. CountsValid
  BY <1>1, <1>4, <1>5, <1>6 DEF CountsValid
<1>. QED
  BY <1>7, <1>8

\* Between two calls the book passes validate_book.
LEMMA InvValidateBook == Inv => ValidateBook
<1> SUFFICES ASSUME NEW pos, NEW acc, NEW rank, BookInv(pos, acc, rank), pc \in {"idle", "done"}
             PROVE  /\ \A side \in Sides, tick \in Ticks : LevelValid(side, tick)
                    /\ \A side \in Sides : IndexValid(side) /\ BestValid(side)
                    /\ MapValid
                    /\ CountsValid
  BY DEF Inv, ValidateBook
<1>. QED
  BY InvLevelValid, InvBestValid, InvCountsValid

\* The book is not crossed between two calls.
LEMMA InvNeverCrossed == Inv => NeverCrossed
<1> SUFFICES ASSUME NEW pos, NEW acc, NEW rank, BookInv(pos, acc, rank), pc \in {"idle", "done"},
                    NEW bid \in Ticks, NEW ask \in Ticks,
                    ~IsEmpty(levels["Buy"][bid]), ~IsEmpty(levels["Sell"][ask])
             PROVE  bid < ask
  BY DEF Inv, NeverCrossed
<1>1. \A side \in Sides : SetTicks(index[side]) = Occupied(levels, side)
  BY DEF BookInv, Consistent, IndexInv, Pending
<1>2. bid \in SetTicks(index["Buy"]) /\ ask \in SetTicks(index["Sell"])
  BY <1>1 DEF Occupied, Sides
<1>. QED
  BY <1>2 DEF BookInv, Consistent, CrossInv

\* Inside on_trade: the maker, its price and the quantity.
LEMMA InvTradeAtBest == Inv => TradeAtBest
<1> SUFFICES ASSUME NEW pos, NEW acc, NEW rank, BookInv(pos, acc, rank), OnTrade
             PROVE  /\ cursor \in allocated
                    /\ order_map[CurrentTrade.maker_id] = cursor
                    /\ CurrentTrade.price = best[MakerSide].price
                    /\ IF taker.side = "Buy" THEN CurrentTrade.price <= taker.price
                       ELSE CurrentTrade.price >= taker.price
                    /\ CurrentTrade.quantity > 0
                    /\ reported + CurrentTrade.quantity <= taker.quantity
  BY DEF Inv, TradeAtBest
<1>1. pc = "walk" /\ cursor # INVALID_INDEX /\ (path = "slow" => remaining > 0)
      /\ pc \in {"match", "walk"} /\ pc \in {"match", "walk", "level"}
  BY DEF OnTrade
<1>2. AtBest /\ WalkInv(acc) /\ best[MakerSide].has
  BY <1>1 DEF BookInv, CallInv, AtBest
<1>3. PICK S, level : S = Members(slot, allocated, MakerSide, best[MakerSide].idx) /\ level = BestLevel
  OBVIOUS
<1>4. /\ Queue(slot, S, level, pos, acc)
      /\ S \in SUBSET Slots /\ S \in SUBSET allocated /\ level \in Levels
      /\ level.order_count \in Nat \ {0} /\ level.total_quantity \in Nat
      /\ \A j \in S : /\ slot[j].quantity \in 1 .. QuantityModulus - 1
                      /\ slot[j].quantity \in Nat
                      /\ slot[j].price = best[MakerSide].price
      /\ level.head \in S /\ pos[level.head] = 1
  BY <1>1, <1>2, <1>3, AtBestLevel
<1>5. /\ remaining \in Nat /\ taker.quantity \in Nat /\ remaining <= taker.quantity /\ reported \in Nat
  BY <1>1, Matching
<1>6. cursor \in S
  BY <1>1, <1>2, <1>3, <1>4 DEF WalkInv, SingleInv, ChainInv, SlowInv
<1>7. PICK q : q = slot[cursor].quantity
  OBVIOUS
<1>8. q \in Nat /\ q > 0
  BY <1>4, <1>6, <1>7
<1>9. /\ CurrentTrade.maker_id = slot[cursor].id /\ CurrentTrade.price = slot[cursor].price
      /\ CurrentTrade.quantity = IF path = "slow" /\ remaining < q THEN remaining ELSE q
  BY <1>7 DEF CurrentTrade
<1>10. cursor \in allocated /\ order_map[slot[cursor].id] = cursor
  <2>1. cursor \in allocated /\ cursor \in Slots
    BY <1>4, <1>6
  <2>2. pos \in [Slots -> Nat] /\ MapInv(pos)
    BY DEF BookInv, Consistent, Store
  <2>3. ~Walked(cursor, pos)
    BY <1>1, <2>1, <2>2 DEF Walked
  <2>. QED
    BY <2>1, <2>2, <2>3 DEF MapInv
<1>11. reported + CurrentTrade.quantity <= taker.quantity
  <2>1. pos \in [Slots -> Nat] /\ acc \in [Slots -> Nat] /\ cursor \in Slots
    BY <1>4, <1>6 DEF BookInv, Consistent, Store
  <2>2. q <= level.total_quantity /\ acc[cursor] <= level.total_quantity /\ acc[cursor] \in Nat
    <3>1. \A j \in S : slot[j].quantity <= acc[j] /\ acc[j] <= level.total_quantity
      BY <1>4, <2>1, QueueTotal
    <3>. QED
      BY <1>4, <1>6, <1>7, <1>8, <2>1, <3>1
  <2>3. CASE path = "single"
    <3>1. reported = taker.quantity - remaining /\ level.total_quantity <= remaining
      BY <1>2, <1>3, <2>3 DEF WalkInv, SingleInv
    <3>. QED
      BY <1>4, <1>5, <1>8, <1>9, <2>2, <2>3, <3>1
  <2>4. CASE path = "chain"
    <3>1. reported = taker.quantity - remaining + acc[cursor] - q /\ level.total_quantity <= remaining
      BY <1>1, <1>2, <1>3, <1>7, <2>4 DEF WalkInv, ChainInv
    <3>. QED
      BY <1>4, <1>5, <1>8, <1>9, <2>2, <2>4, <3>1
  <2>5. CASE path = "slow"
    <3>1. reported = taker.quantity - remaining
      BY <1>2, <2>5 DEF WalkInv, SlowInv
    <3>. QED
      BY <1>5, <1>8, <1>9, <2>5, <3>1
  <2>. QED
    BY <1>2, <2>3, <2>4, <2>5 DEF WalkInv
<1>12. CurrentTrade.quantity > 0
  BY <1>1, <1>8, <1>9
<1>13. /\ CurrentTrade.price = best[MakerSide].price
       /\ IF taker.side = "Buy" THEN CurrentTrade.price <= taker.price
          ELSE CurrentTrade.price >= taker.price
  BY <1>2, <1>4, <1>6, <1>9 DEF AtBest
<1>. QED
  BY <1>9, <1>10, <1>11, <1>12, <1>13

-----------------------------------------------------------------------------
\* TypeOK: nothing the code computes in unsigned arithmetic goes below zero.
THEOREM TypeCorrect == Spec => []TypeOK
BY InvHolds, InvTypeOK, PTL

\* validate_book() holds between any two calls.
THEOREM BookValid == Spec => []ValidateBook
BY InvHolds, InvValidateBook, PTL

\* The book is never left crossed or locked.
THEOREM BookNeverCrossed == Spec => []NeverCrossed
BY InvHolds, InvNeverCrossed, PTL

\* *filled_out is the sum of what on_trade was told.
THEOREM FillsAreReported == Spec => []FilledMatchesTrades
<1>1. Inv => FilledMatchesTrades
  BY DEF Inv, BookInv, CallInv, FilledMatchesTrades
<1>. QED
  BY <1>1, InvHolds, PTL

\* Trades are made at the best opposite price, inside the taker's limit, with a
\* live maker.
THEOREM TradesAtBest == Spec => []TradeAtBest
BY InvHolds, InvTradeAtBest, PTL

\* An order refused with PoolExhausted has traded nothing.
THEOREM ExhaustedMeansUnfilled == Spec => []ExhaustedUnfilled
<1>1. Inv => ExhaustedUnfilled
  BY DEF Inv, BookInv, CallInv, ExhaustedUnfilled
<1>. QED
  BY <1>1, InvHolds, PTL
=============================================================================
