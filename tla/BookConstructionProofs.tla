----------------------- MODULE BookConstructionProofs -----------------------
(***************************************************************************)
(* Proofs about the start of the process: the memory-lock negotiation of   *)
(* main() on every host, and the constructor of OrderBook for every pair   *)
(* of integer widths, page and word size and every argument a client can   *)
(* pass.  The four properties follow from one inductive invariant, BookInv *)
(* and NegotiationInv together.                                            *)
(***************************************************************************)
EXTENDS BookConstruction, TLAPS

-----------------------------------------------------------------------------
(***************************************************************************)
(* The negotiation.  RecapTrue speaks of its end only.  On the way there   *)
(* MCL_FUTURE is in force from mlockall until the process heals, and a     *)
(* probe page that is mapped shows that the host grants locked mappings:   *)
(* so whoever leaves the negotiation with the lock in force may map.       *)
(***************************************************************************)
NegotiationType ==
  /\ host \in Hosts
  /\ env \in SUBSET EnvVars
  /\ pc \in {"prepare", "probe", "heal", "recap", "next", "pool", "check", "reserve",
             "built", "aborted", "terminated"}
  /\ future \in BOOLEAN
  /\ probe \in {"none", "mapped", "locked"}
  /\ mode \in LockModes \cup {"none"}

Negotiating == pc \in {"prepare", "probe", "heal"}

NegotiationInv ==
  /\ NegotiationType
  /\ mode = "none" <=> Negotiating
  /\ pc = "prepare" => ~future
  /\ pc = "probe" => future
  /\ pc # "probe" => probe = "none"
  /\ probe # "none" => host.maps
  /\ ~Negotiating => (mode = "Locked" <=> future) /\ (future => host.maps)

(***************************************************************************)
(* The construction.  A block holds what Bytes asks for its structure, and *)
(* the pre-touch reads no page outside it; it covers the pool at once and  *)
(* the rest at the end; and the body reserves only once the arguments have *)
(* passed the checks.                                                      *)
(***************************************************************************)
BlockType == [base : 0 .. PageSize - 1, bytes : Nat, touched : SUBSET Nat]

Sound(b) ==
  /\ b \in BlockType
  /\ b.touched \subseteq PagesOf(b.base, b.bytes)

BlocksInv ==
  /\ blocks \in Seq(BlockType)
  /\ Len(blocks) <= 8
  /\ \A k \in 1 .. Len(blocks) :
       Sound(blocks[k]) /\ blocks[k].bytes = Bytes(args, Structures[k])

BookInv ==
  /\ args \in ConstructorArgs
  /\ BlocksInv
  /\ pc \in {"prepare", "probe", "heal", "recap", "next", "pool"} => blocks = <<>>
  /\ pc = "check" => Len(blocks) = 1
  /\ pc \in {"reserve", "built"} => Verdict(args) = "ok"
  /\ pc = "reserve" => Len(blocks) >= 1
  /\ pc = "built" => Len(blocks) = 8
  /\ pc = "terminated" => Len(blocks) < 8
  /\ blocks # <<>> => Covered(blocks[1])
  /\ pc = "built" => \A k \in 1 .. 8 : Covered(blocks[k])
  /\ DiesOnlyOfMemory

StartInv == NegotiationInv /\ BookInv

-----------------------------------------------------------------------------
\* Every step of the negotiation, and every other step, keeps NegotiationInv.
LEMMA NegotiationStep ==
  NegotiationInv /\ [ConstructionNext]_<<pc, lockVars, bookVars>> => NegotiationInv'
<1>0. SUFFICES ASSUME NegotiationInv, [ConstructionNext]_<<pc, lockVars, bookVars>>
               PROVE  NegotiationInv'
  OBVIOUS
<1>1. CASE SkipLocking
  BY <1>0, <1>1 DEF SkipLocking, NegotiationInv, NegotiationType, Negotiating, LockModes
<1>2. CASE LockingRefused
  BY <1>0, <1>2 DEF LockingRefused, NegotiationInv, NegotiationType, Negotiating, LockModes
<1>3. CASE LockAll
  BY <1>0, <1>3 DEF LockAll, NegotiationInv, NegotiationType, Negotiating, LockModes
<1>4. CASE ProbeMap
  BY <1>0, <1>4 DEF ProbeMap, NegotiationInv, NegotiationType, Negotiating, LockModes
<1>5. CASE ProbeFails
  BY <1>0, <1>5 DEF ProbeFails, NegotiationInv, NegotiationType, Negotiating, LockModes
<1>6. CASE ProbeLock
  BY <1>0, <1>6 DEF ProbeLock, NegotiationInv, NegotiationType, Negotiating, LockModes
<1>7. CASE ProbeSucceeds
  BY <1>0, <1>7 DEF ProbeSucceeds, NegotiationInv, NegotiationType, Negotiating, LockModes
<1>8. CASE SelfHeal
  BY <1>0, <1>8 DEF SelfHeal, NegotiationInv, NegotiationType, Negotiating, LockModes
<1>9. CASE Construct
  <2>1. /\ UNCHANGED lockVars
        /\ ~Negotiating
        /\ pc' \in {"next", "pool", "check", "reserve", "built", "aborted", "terminated"}
    BY <1>9 DEF Construct, BeginBook, ReservePool, RefuseArguments, AcceptArguments, Reserve,
                ReservationFails, PopulateAll, PopulateFails, DestroyBook, Negotiating
  <2>. QED
    BY <1>0, <2>1 DEF NegotiationInv, NegotiationType, Negotiating, lockVars
<1>10. CASE UNCHANGED <<pc, lockVars, bookVars>>
  BY <1>0, <1>10 DEF NegotiationInv, NegotiationType, Negotiating, lockVars
<1>. QED
  BY <1>0, <1>1, <1>2, <1>3, <1>4, <1>5, <1>6, <1>7, <1>8, <1>9, <1>10
     DEF ConstructionNext, Negotiate

-----------------------------------------------------------------------------
\* A remainder smaller than the modulus is the number itself.
LEMMA SmallRemainder ==
  ASSUME NEW m \in Nat \ {0}, NEW n \in 0 .. m - 1
  PROVE  n % m = n
OBVIOUS

\* The words that hold n bits hold the bit of every index below n.
LEMMA WordInside ==
  ASSUME NEW n \in Nat, NEW i \in 0 .. n - 1
  PROVE  i \div WordBits \in 0 .. WordsFor(n) - 1
<1>1. PICK w \in Nat \ {0} : w = WordBits
  BY ConstructionAssumption
<1>2. PICK q \in Nat : q = i \div w
  OBVIOUS
<1>3. PICK p \in Nat : p = (n + w - 1) \div w
  OBVIOUS
<1>4. w * q <= i
  BY <1>2
<1>5. n + w - 1 < w * (p + 1)
  BY <1>3
<1>6. w * q < w * p
  BY <1>4, <1>5
<1>7. q < p
  BY <1>6
<1>. QED
  BY <1>1, <1>2, <1>3, <1>7 DEF WordsFor

\* What each structure asks for.
LEMMA BytesAre ==
  ASSUME NEW a
  PROVE  /\ Bytes(a, Structures[1]) = Capacity(a) * 6
         /\ Bytes(a, Structures[2]) = ((a.max_order_id + 1) % SizeModulus) * 1
         /\ Bytes(a, Structures[3]) = PriceRange(a) * 8
         /\ Bytes(a, Structures[4]) = PriceRange(a) * 8
         /\ Bytes(a, Structures[5]) = WordsFor(PriceRange(a)) * 2
         /\ Bytes(a, Structures[6]) = WordsFor(PriceRange(a)) * 2
         /\ Bytes(a, Structures[7]) = WordsFor(WordsFor(PriceRange(a))) * 2
         /\ Bytes(a, Structures[8]) = WordsFor(WordsFor(PriceRange(a))) * 2
BY DEF Bytes, Structures, Count, UnitsOf

\* An accepted price range is not empty, and the words and summary words it takes
\* are counted by natural numbers.
LEMMA RangeNat ==
  ASSUME NEW a \in ConstructorArgs, Verdict(a) = "ok"
  PROVE  /\ PriceRange(a) \in Nat \ {0}
         /\ WordsFor(PriceRange(a)) \in Nat
         /\ WordsFor(WordsFor(PriceRange(a))) \in Nat
<1>1. a.min_price \in Nat /\ a.max_price \in Nat
  BY ConstructionAssumption DEF ConstructorArgs
<1>2. a.min_price <= a.max_price
  BY <1>1 DEF Verdict
<1>3. \A n \in Nat : WordsFor(n) \in Nat
  BY ConstructionAssumption DEF WordsFor
<1>. QED
  BY <1>1, <1>2, <1>3 DEF PriceRange

\* The pool never has more slots than there are indices, less the two reserved.
LEMMA CapacityNat ==
  ASSUME NEW a \in ConstructorArgs
  PROVE  Capacity(a) \in 0 .. MaxOrderIds
BY ConstructionAssumption DEF ConstructorArgs, Capacity, MaxOrderIds

\* The pool can be sized whatever the arguments, the rest once they are accepted.
LEMMA BytesNat ==
  ASSUME NEW a \in ConstructorArgs, NEW k \in 1 .. 8, k = 1 \/ Verdict(a) = "ok"
  PROVE  Bytes(a, Structures[k]) \in Nat
<1>1. CASE k = 1
  BY <1>1, CapacityNat, BytesAre, ConstructionAssumption DEF MaxOrderIds
<1>2. CASE k # 1
  <2>1. (a.max_order_id + 1) % SizeModulus \in Nat
    BY ConstructionAssumption DEF ConstructorArgs
  <2>. QED
    BY <1>2, <2>1, RangeNat, BytesAre
<1>. QED
  BY <1>1, <1>2

-----------------------------------------------------------------------------
\* The pages of a block are numbered by natural numbers.
LEMMA PagesNat ==
  ASSUME NEW base \in Nat, NEW bytes \in Nat
  PROVE  PagesOf(base, bytes) \in SUBSET Nat
BY ConstructionAssumption DEF PagesOf

\* What resize() returns is sound.
LEMMA BlockSound ==
  ASSUME NEW base \in Alignments, NEW bytes \in Nat
  PROVE  Sound(Block(base, bytes)) /\ Block(base, bytes).bytes = bytes
<1>1. base \in 0 .. PageSize - 1
  BY ConstructionAssumption
<1>. QED
  BY <1>1 DEF Sound, Block, BlockType

\* What a quotient is.
LEMMA Quotient ==
  ASSUME NEW n \in Nat \ {0}, NEW a \in Nat, NEW q, q = a \div n
  PROVE  q \in Nat /\ n * q <= a /\ a < n * (q + 1)
OBVIOUS

\* Steps of a page from a place in page 0 fall into one page after the other, and
\* stop at most one page early, on a block that does not start on a page boundary.
LEMMA Strides ==
  ASSUME NEW base \in 0 .. PageSize - 1, NEW bytes \in Nat, NEW i \in 0 .. bytes - 1,
         NEW k, k = (base + i) \div PageSize
  PROVE  /\ k \in Nat
         /\ (base + k * PageSize) \div PageSize = k
         /\ k * PageSize < bytes => k \in 0 .. bytes
         /\ k * PageSize >= bytes =>
              base # 0 /\ \A j \in 0 .. bytes - 1 : (base + j) \div PageSize # k + 1
<1>1. PICK n \in Nat \ {0} : n = PageSize
  BY ConstructionAssumption
<1>2. base \in 0 .. n - 1 /\ i \in Nat /\ base + i \in Nat
  BY <1>1
<1>3. k = (base + i) \div n
  BY <1>1
<1>4. k \in Nat /\ n * k <= base + i /\ base + i < n * (k + 1)
  BY <1>2, <1>3, Quotient
<1>5. PICK m \in Nat : m = n * k
  BY <1>4
<1>6. (base + k * n) \div n = k
  <2>1. base + k * n = n * k + base
    BY <1>2, <1>4
  <2>2. PICK q : q = (n * k + base) \div n
    OBVIOUS
  <2>3. q \in Nat /\ n * q <= n * k + base /\ n * k + base < n * (q + 1)
    <3>1. n * k + base \in Nat
      BY <1>2, <1>4
    <3>. QED
      BY <2>2, <3>1, Quotient
  <2>4. n * q < n * (k + 1) /\ n * k < n * (q + 1)
    BY <1>2, <1>4, <2>2, <2>3
  <2>5. q < k + 1 /\ k < q + 1
    BY <1>4, <2>2, <2>4
  <2>. QED
    BY <1>4, <2>1, <2>2, <2>5
<1>7. k <= m
  BY <1>4, <1>5
<1>8. ASSUME m >= bytes
      PROVE  base # 0 /\ \A j \in 0 .. bytes - 1 : (base + j) \div n # k + 1
  <2>1. base # 0
    BY <1>2, <1>4, <1>5, <1>8
  <2>2. ASSUME NEW j \in 0 .. bytes - 1, (base + j) \div n = k + 1
        PROVE  FALSE
    <3>1. n * (k + 1) <= base + j
      <4>1. base + j \in Nat
        BY <1>2
      <4>. QED
        BY <2>2, <4>1, Quotient
    <3>2. n * (k + 1) = m + n
      BY <1>4, <1>5
    <3>. QED
      BY <1>2, <1>5, <1>8, <3>1, <3>2
  <2>. QED
    BY <2>1, <2>2
<1>. QED
  BY <1>1, <1>4, <1>5, <1>6, <1>7, <1>8

\* The strides of the fallback stay in the block and cover it, but for a last page.
LEMMA FallbackSound ==
  ASSUME NEW b, Sound(b)
  PROVE  /\ Sound(TouchFallback(b)) /\ TouchFallback(b).bytes = b.bytes
         /\ Covered(TouchFallback(b))
<1> DEFINE P == {(b.base + k * PageSize) \div PageSize :
                   k \in {k \in 0 .. b.bytes : k * PageSize < b.bytes}}
<1>1. /\ b \in BlockType /\ b.base \in Nat /\ b.bytes \in Nat
      /\ b.base \in 0 .. PageSize - 1
  BY ConstructionAssumption DEF Sound, BlockType
<1>2. P \subseteq PagesOf(b.base, b.bytes)
  <2>. SUFFICES ASSUME NEW k \in 0 .. b.bytes, k * PageSize < b.bytes
                PROVE  (b.base + k * PageSize) \div PageSize \in PagesOf(b.base, b.bytes)
    OBVIOUS
  <2>1. k * PageSize \in 0 .. b.bytes - 1
    BY <1>1, ConstructionAssumption
  <2>. QED
    BY <2>1 DEF PagesOf
<1>3. TouchFallback(b) = [b EXCEPT !.touched = b.touched \cup P]
  BY DEF TouchFallback
<1>6. ASSUME NEW page \in PagesOf(b.base, b.bytes), page \notin P
      PROVE  b.base # 0 /\ page + 1 \notin PagesOf(b.base, b.bytes)
  <2>1. PICK i \in 0 .. b.bytes - 1 : page = (b.base + i) \div PageSize
    BY DEF PagesOf
  <2>2. /\ page \in Nat
        /\ (b.base + page * PageSize) \div PageSize = page
        /\ page * PageSize < b.bytes => page \in 0 .. b.bytes
        /\ page * PageSize >= b.bytes =>
             b.base # 0 /\ \A j \in 0 .. b.bytes - 1 : (b.base + j) \div PageSize # page + 1
    BY <1>1, <2>1, Strides
  <2>3. ~(page * PageSize < b.bytes)
    BY <1>6, <2>2
  <2>4. page * PageSize >= b.bytes
    BY <1>1, <2>2, <2>3, ConstructionAssumption
  <2>. QED
    BY <2>2, <2>4 DEF PagesOf
<1>. HIDE DEF P
<1>4. P \in SUBSET Nat
  BY <1>1, <1>2, PagesNat
<1>5. /\ TouchFallback(b) \in BlockType
      /\ TouchFallback(b).base = b.base /\ TouchFallback(b).bytes = b.bytes
      /\ TouchFallback(b).touched = b.touched \cup P
  BY <1>1, <1>3, <1>4 DEF BlockType
<1>7. Covered(TouchFallback(b))
  BY <1>5, <1>6 DEF Covered
<1>. QED
  BY <1>2, <1>5, <1>7 DEF Sound

\* MADV_POPULATE_WRITE faults in the block and nothing else.
LEMMA PopulateSound ==
  ASSUME NEW b, Sound(b)
  PROVE  /\ Sound(Populated(b)) /\ Populated(b).bytes = b.bytes
         /\ Covered(Populated(b))
<1>1. /\ b \in BlockType /\ b.base \in Nat /\ b.bytes \in Nat
      /\ b.base \in 0 .. PageSize - 1
  BY ConstructionAssumption DEF Sound, BlockType
<1>2. PagesOf(b.base, b.bytes) \in SUBSET Nat
  BY <1>1, PagesNat
<1>3. /\ Populated(b) \in BlockType
      /\ Populated(b).base = b.base /\ Populated(b).bytes = b.bytes
      /\ Populated(b).touched = PagesOf(b.base, b.bytes)
  BY <1>1, <1>2 DEF Populated, BlockType
<1>. QED
  BY <1>3 DEF Sound, Covered

-----------------------------------------------------------------------------
\* A reservation is granted or refused for what it asks, a natural number.
LEMMA NextBytesNat ==
  ASSUME StartInv, pc \in {"pool", "reserve"}, Len(blocks) < 8
  PROVE  /\ NextBytes \in Nat
         /\ Len(blocks) + 1 \in 1 .. 8
         /\ pc = "pool" => Len(blocks) = 0
         /\ NextBytes = Bytes(args, Structures[Len(blocks) + 1])
<1>1. Len(blocks) + 1 \in 1 .. 8
  BY DEF StartInv, BookInv, BlocksInv
<1>2. pc = "pool" => Len(blocks) = 0
  BY DEF StartInv, BookInv
<1>3. Len(blocks) + 1 = 1 \/ Verdict(args) = "ok"
  BY <1>2 DEF StartInv, BookInv
<1>. QED
  BY <1>1, <1>2, <1>3, BytesNat DEF StartInv, BookInv, NextBytes

\* A step that leaves the book under construction alone, and goes nowhere where
\* more is asked of it, keeps BookInv.
LEMMA BookStays ==
  ASSUME BookInv, UNCHANGED <<args, blocks, host>>,
         pc' = pc \/ (pc' \in {"heal", "probe", "recap"} /\ blocks = <<>>) \/ pc' = "aborted"
  PROVE  BookInv'
<1>1. BlocksInv' /\ args' \in ConstructorArgs
  BY DEF BookInv, BlocksInv
<1>2. DiesOnlyOfMemory'
  BY DEF BookInv, DiesOnlyOfMemory, NextBytes
<1>. QED
  BY <1>1, <1>2 DEF BookInv

\* The pool's block is sound and covered, and has the bytes it was asked for.
LEMMA PoolSound ==
  ASSUME NEW base \in Alignments, NEW bytes \in Nat, NEW b \in PoolTouched(Block(base, bytes))
  PROVE  Sound(b) /\ b.bytes = bytes /\ Covered(b)
<1>1. PICK c : c = Block(base, bytes)
  OBVIOUS
<1>2. Sound(c) /\ c.bytes = bytes
  BY <1>1, BlockSound
<1>3. (b = c /\ c.bytes = 0) \/ b = TouchFallback(c) \/ b = Populated(c)
  BY <1>1 DEF PoolTouched
<1>4. ASSUME c.bytes = 0 PROVE Covered(c)
  BY <1>4 DEF Covered, PagesOf
<1>. QED
  BY <1>2, <1>3, <1>4, FallbackSound, PopulateSound

\* A function of the numbers from 1 to n is a sequence of that length.
LEMMA SequenceOf ==
  ASSUME NEW T, NEW n \in Nat, NEW w \in [1 .. n -> T]
  PROVE  w \in Seq(T) /\ Len(w) = n
<1>1. w = [k \in 1 .. n |-> w[k]] /\ \A k \in 1 .. n : w[k] \in T
  OBVIOUS
<1>2. ASSUME NEW f, f = w, NEW v, v = [k \in 1 .. n |-> f[k]]
      PROVE  v \in Seq(T) /\ Len(v) = n
  BY <1>1, <1>2
<1>. QED
  BY <1>1, <1>2

\* The pre-touch, whichever way it went, ends with covered blocks of the same sizes.
LEMMA BookBuilt ==
  ASSUME BookInv, pc = "reserve", pc' = "built", args' = args, Len(blocks) = 8,
         NEW w, blocks' = w, w \in [1 .. 8 -> BlockType],
         \A k \in 1 .. 8 : Sound(w[k]) /\ w[k].bytes = blocks[k].bytes /\ Covered(w[k])
  PROVE  BookInv'
<1>1. w \in Seq(BlockType) /\ Len(w) = 8
  <2>1. PICK n \in Nat : n = 8
    OBVIOUS
  <2>2. w \in [1 .. n -> BlockType]
    BY <2>1, Zenon
  <2>3. w \in Seq(BlockType) /\ Len(w) = n
    BY <2>2, SequenceOf, Zenon
  <2>. QED
    BY <2>1, <2>3
<1>2. BlocksInv'
  BY <1>1 DEF BookInv, BlocksInv
<1>. QED
  BY <1>1, <1>2 DEF BookInv, DiesOnlyOfMemory

\* The construction keeps BookInv, one step per action of BookConstruction.
LEMMA BookStep ==
  StartInv /\ [ConstructionNext]_<<pc, lockVars, bookVars>> => BookInv'
<1>0. SUFFICES ASSUME StartInv, [ConstructionNext]_<<pc, lockVars, bookVars>>
               PROVE  BookInv'
  OBVIOUS
<1>i. BookInv /\ NegotiationInv
  BY <1>0 DEF StartInv
<1>1. CASE Negotiate /\ UNCHANGED bookVars
  <2>1. UNCHANGED <<args, blocks, host>>
    BY <1>1 DEF bookVars, Negotiate, SkipLocking, LockingRefused, LockAll, ProbeMap, ProbeFails,
                ProbeLock, ProbeSucceeds, SelfHeal
  <2>2. pc \in {"prepare", "probe", "heal"} /\ pc' \in {"probe", "heal", "recap"}
    BY <1>1 DEF Negotiate, SkipLocking, LockingRefused, LockAll, ProbeMap, ProbeFails,
                ProbeLock, ProbeSucceeds, SelfHeal
  <2>3. blocks = <<>>
    BY <1>i, <2>2 DEF BookInv
  <2>. QED
    BY <1>i, <2>1, <2>2, <2>3, BookStays
<1>2. ASSUME NEW a \in Args, BeginBook(a) PROVE BookInv'
  <2>1. args' \in ConstructorArgs
    BY <1>2, ConstructionAssumption DEF BeginBook
  <2>2. blocks' = <<>> /\ pc' = "pool"
    BY <1>2 DEF BeginBook
  <2>3. BlocksInv'
    BY <2>2 DEF BlocksInv
  <2>. QED
    BY <2>1, <2>2, <2>3 DEF BookInv, DiesOnlyOfMemory
<1>3. CASE ReservePool
  <2>1. NextBytes \in Nat /\ NextBytes = Bytes(args, Structures[1])
    <3>1. Len(blocks) = 0
      BY <1>3, <1>i DEF ReservePool, BookInv
    <3>. QED
      BY <1>0, <1>3, <3>1, NextBytesNat DEF ReservePool
  <2>a. PICK base \in Alignments :
          \E b \in PoolTouched(Block(base, NextBytes)) : blocks' = <<b>>
    BY <1>3 DEF ReservePool
  <2>2. PICK b \in PoolTouched(Block(base, NextBytes)) : blocks' = <<b>>
    BY <2>a
  <2>3. Sound(b) /\ b.bytes = Bytes(args, Structures[1]) /\ Covered(b)
    BY <2>1, <2>2, PoolSound
  <2>4. args' = args /\ pc' = "check"
    BY <1>3 DEF ReservePool
  <2>5. blocks' \in Seq(BlockType) /\ Len(blocks') = 1 /\ blocks'[1] = b
    BY <2>2, <2>3 DEF Sound
  <2>6. BlocksInv'
    BY <2>3, <2>4, <2>5 DEF BlocksInv
  <2>. QED
    BY <1>i, <2>3, <2>4, <2>5, <2>6 DEF BookInv, DiesOnlyOfMemory
<1>4. CASE RefuseArguments
  BY <1>4, <1>i, BookStays DEF RefuseArguments, lockVars
<1>5. CASE AcceptArguments
  <2>1. UNCHANGED <<args, blocks>> /\ Verdict(args) = "ok" /\ pc = "check" /\ pc' = "reserve"
    BY <1>5 DEF AcceptArguments, bookVars
  <2>2. BlocksInv' /\ Len(blocks) = 1 /\ args' \in ConstructorArgs
    BY <1>i, <2>1 DEF BookInv, BlocksInv
  <2>3. blocks' # <<>> => Covered(blocks'[1])
    BY <1>i, <2>1 DEF BookInv
  <2>. QED
    BY <2>1, <2>2, <2>3 DEF BookInv, DiesOnlyOfMemory
<1>6. CASE Reserve
  <2>1. /\ pc = "reserve" /\ pc' = "reserve" /\ args' = args /\ Len(blocks) < 8
    BY <1>6 DEF Reserve, Structures
  <2>2. NextBytes \in Nat /\ NextBytes = Bytes(args, Structures[Len(blocks) + 1])
    BY <1>0, <2>1, NextBytesNat
  <2>3. PICK base \in Alignments : blocks' = Append(blocks, Block(base, NextBytes))
    BY <1>6 DEF Reserve
  <2>4. PICK b : b = Block(base, NextBytes)
    OBVIOUS
  <2>5. Sound(b) /\ b.bytes = Bytes(args, Structures[Len(blocks) + 1])
    BY <2>2, <2>4, BlockSound
  <2>6. blocks \in Seq(BlockType) /\ b \in BlockType /\ blocks' = Append(blocks, b)
    BY <1>i, <2>3, <2>4, <2>5 DEF BookInv, BlocksInv, Sound
  <2>7. /\ blocks' \in Seq(BlockType) /\ Len(blocks') = Len(blocks) + 1
        /\ blocks'[Len(blocks) + 1] = b
        /\ \A k \in 1 .. Len(blocks) : blocks'[k] = blocks[k]
    BY <2>6
  <2>8. BlocksInv'
    <3>1. Len(blocks) \in Nat /\ Len(blocks') <= 8
      BY <2>1, <2>6, <2>7
    <3>2. ASSUME NEW k \in 1 .. Len(blocks')
          PROVE  Sound(blocks'[k]) /\ blocks'[k].bytes = Bytes(args', Structures[k])
      <4>1. CASE k = Len(blocks) + 1
        BY <2>1, <2>5, <2>7, <4>1
      <4>2. CASE k # Len(blocks) + 1
        <5>1. k \in 1 .. Len(blocks)
          BY <2>7, <3>1, <4>2
        <5>. QED
          BY <1>i, <2>1, <2>7, <5>1 DEF BookInv, BlocksInv
      <4>. QED
        BY <4>1, <4>2
    <3>. QED
      BY <2>7, <3>1, <3>2 DEF BlocksInv
  <2>9. Len(blocks) \in Nat
    BY <2>6
  <2>. QED
    BY <1>i, <2>1, <2>7, <2>8, <2>9 DEF BookInv, DiesOnlyOfMemory
<1>7. CASE ReservationFails
  <2>1. /\ pc \in {"pool", "reserve"} /\ pc' = "terminated" /\ Len(blocks) < 8
        /\ UNCHANGED <<args, blocks, host>>
        /\ ~Granted(NextBytes)
    BY <1>7 DEF ReservationFails, Structures, bookVars, lockVars
  <2>2. NextBytes \in Nat
    BY <1>0, <2>1, NextBytesNat
  <2>3. host.memory \in Nat /\ (future => host.maps)
    BY <1>i, <2>1, MemoryAssumption DEF NegotiationInv, NegotiationType, Negotiating, Hosts
  <2>4. NextBytes > host.memory
    BY <2>1, <2>2, <2>3 DEF Granted
  <2>5. DiesOnlyOfMemory'
    BY <2>1, <2>4 DEF DiesOnlyOfMemory, NextBytes
  <2>6. BlocksInv' /\ args' \in ConstructorArgs
    BY <1>i, <2>1 DEF BookInv, BlocksInv
  <2>7. blocks' # <<>> => Covered(blocks'[1])
    BY <1>i, <2>1 DEF BookInv
  <2>. QED
    BY <2>1, <2>5, <2>6, <2>7 DEF BookInv
<1>8. CASE PopulateAll
  <2>1. /\ pc = "reserve" /\ pc' = "built" /\ args' = args /\ Len(blocks) = 8
        /\ blocks' = [k \in DOMAIN blocks |-> IF k \in Body THEN Populated(blocks[k]) ELSE blocks[k]]
    BY <1>8 DEF PopulateAll, Structures
  <2>2. DOMAIN blocks = 1 .. 8
    BY <1>i, <2>1 DEF BookInv, BlocksInv
  <2>3. ASSUME NEW k \in 1 .. 8
        PROVE  Sound(blocks'[k]) /\ blocks'[k].bytes = blocks[k].bytes /\ Covered(blocks'[k])
    <3>1. Sound(blocks[k])
      BY <1>i, <2>1 DEF BookInv, BlocksInv
    <3>2. CASE k = 1
      BY <1>i, <2>1, <2>2, <3>1, <3>2 DEF BookInv, Body, Structures
    <3>3. CASE k # 1
      <4>1. blocks'[k] = Populated(blocks[k])
        BY <2>1, <2>2, <3>3 DEF Body, Structures
      <4>. QED
        BY <3>1, <4>1, PopulateSound
    <3>. QED
      BY <3>2, <3>3
  <2>4. blocks' \in [1 .. 8 -> BlockType]
    BY <2>1, <2>2, <2>3 DEF Sound
  <2>. QED
    BY <1>i, <2>1, <2>3, <2>4, BookBuilt
<1>9. ASSUME NEW failing \in Body, PopulateFails(failing) PROVE BookInv'
  <2>1. /\ pc = "reserve" /\ pc' = "built" /\ args' = args /\ Len(blocks) = 8
        /\ blocks' = [k \in DOMAIN blocks |->
                        IF k \notin Body THEN blocks[k]
                        ELSE TouchFallback(IF k < failing THEN Populated(blocks[k]) ELSE blocks[k])]
    BY <1>9 DEF PopulateFails, Structures
  <2>2. DOMAIN blocks = 1 .. 8
    BY <1>i, <2>1 DEF BookInv, BlocksInv
  <2>3. ASSUME NEW k \in 1 .. 8
        PROVE  Sound(blocks'[k]) /\ blocks'[k].bytes = blocks[k].bytes /\ Covered(blocks'[k])
    <3>1. Sound(blocks[k])
      BY <1>i, <2>1 DEF BookInv, BlocksInv
    <3>2. CASE k = 1
      BY <1>i, <2>1, <2>2, <3>1, <3>2 DEF BookInv, Body, Structures
    <3>3. CASE k # 1
      <4>1. \/ blocks'[k] = TouchFallback(blocks[k])
            \/ blocks'[k] = TouchFallback(Populated(blocks[k]))
        BY <2>1, <2>2, <3>3 DEF Body, Structures
      <4>. QED
        BY <3>1, <4>1, PopulateSound, FallbackSound
    <3>. QED
      BY <3>2, <3>3
  <2>4. blocks' \in [1 .. 8 -> BlockType]
    BY <2>1, <2>2, <2>3 DEF Sound
  <2>. QED
    BY <1>i, <2>1, <2>3, <2>4, BookBuilt
<1>10. CASE DestroyBook
  <2>1. blocks' = <<>> /\ args' = NoArgs /\ pc' = "next"
    BY <1>10 DEF DestroyBook
  <2>2. NoArgs \in ConstructorArgs
    BY ConstructionAssumption DEF NoArgs, ConstructorArgs
  <2>3. BlocksInv'
    BY <2>1 DEF BlocksInv
  <2>. QED
    BY <2>1, <2>2, <2>3 DEF BookInv, DiesOnlyOfMemory
<1>11. CASE UNCHANGED <<pc, lockVars, bookVars>>
  BY <1>11, <1>i, BookStays DEF lockVars, bookVars
<1>. QED
  BY <1>0, <1>1, <1>2, <1>3, <1>4, <1>5, <1>6, <1>7, <1>8, <1>9, <1>10, <1>11
     DEF ConstructionNext, Construct

-----------------------------------------------------------------------------
\* The process starts with nothing negotiated and no storage.
LEMMA StartInit == ConstructionInit => StartInv
<1> SUFFICES ASSUME ConstructionInit PROVE StartInv
  OBVIOUS
<1>1. NegotiationInv
  BY DEF ConstructionInit, LockInit, NegotiationInv, NegotiationType, Negotiating
<1>2. NoArgs \in ConstructorArgs
  BY ConstructionAssumption DEF NoArgs, ConstructorArgs
<1>3. args = NoArgs /\ blocks = <<>> /\ pc = "prepare"
  BY DEF ConstructionInit, LockInit
<1>4. BlocksInv
  BY <1>3 DEF BlocksInv
<1>. QED
  BY <1>1, <1>2, <1>3, <1>4 DEF StartInv, BookInv, DiesOnlyOfMemory

\* StartInv is invariant.
LEMMA StartAlways == ConstructionSpec => []StartInv
<1>1. StartInv /\ [ConstructionNext]_<<pc, lockVars, bookVars>> => StartInv'
  BY NegotiationStep, BookStep DEF StartInv
<1>. QED
  BY <1>1, StartInit, PTL DEF ConstructionSpec

(***************************************************************************)
(* The lock negotiation of main.cpp tells the truth on every host: the     *)
(* recap says "locked" exactly if the lock is in force.                    *)
(***************************************************************************)
THEOREM NegotiationTellsTheTruth == ConstructionSpec => []RecapTrue
<1>1. StartInv => RecapTrue
  BY DEF StartInv, NegotiationInv, NegotiationType, Negotiating, RecapTrue, SaysLocked
<1>. QED
  BY <1>1, StartAlways, PTL

(***************************************************************************)
(* Whatever the kernel answered to mlockall, the constructor of OrderBook  *)
(* fails to reserve only when the host has not the memory.                 *)
(***************************************************************************)
THEOREM ReservationsFailForMemory == ConstructionSpec => []DiesOnlyOfMemory
<1>1. StartInv => DiesOnlyOfMemory
  BY DEF StartInv, BookInv
<1>. QED
  BY <1>1, StartAlways, PTL

(***************************************************************************)
(* Whichever madvise call of the constructor failed first, the pre-touch   *)
(* of a finished book reaches every page of every structure except, when a *)
(* structure starts inside a page, possibly its last, and no page outside. *)
(***************************************************************************)
THEOREM PreTouchCoversStorage == ConstructionSpec => []PreTouchCovers
<1>1. StartInv => PreTouchCovers
  <2>. SUFFICES ASSUME StartInv, pc = "built", NEW k \in DOMAIN blocks
                PROVE  /\ Covered(blocks[k])
                       /\ blocks[k].touched \subseteq PagesOf(blocks[k].base, blocks[k].bytes)
    BY DEF PreTouchCovers
  <2>1. Len(blocks) = 8 /\ blocks \in Seq(BlockType)
    BY DEF StartInv, BookInv, BlocksInv
  <2>2. k \in 1 .. 8
    BY <2>1
  <2>3. Sound(blocks[k])
    BY <2>1, <2>2 DEF StartInv, BookInv, BlocksInv
  <2>. QED
    BY <2>2, <2>3 DEF Sound, StartInv, BookInv
<1>. QED
  BY <1>1, StartAlways, PTL

\* The storage of a finished book, structure by structure.
SizeOf(s) == blocks[CHOOSE k \in DOMAIN blocks : Structures[k] = s].bytes \div UnitsOf(s)

\* A finished book has for each structure the elements it was sized for.
LEMMA BuiltSizes ==
  ASSUME StartInv, pc = "built"
  PROVE  /\ SizeOf("pool") = Capacity(args)
         /\ SizeOf("order_map") = (args.max_order_id + 1) % SizeModulus
         /\ SizeOf("bids_levels") = PriceRange(args)
         /\ SizeOf("asks_levels") = PriceRange(args)
         /\ SizeOf("bids_bitset") = WordsFor(PriceRange(args))
         /\ SizeOf("bids_summary") = WordsFor(WordsFor(PriceRange(args)))
<1>1. /\ DOMAIN blocks = 1 .. 8 /\ args \in ConstructorArgs /\ Verdict(args) = "ok"
      /\ \A k \in 1 .. 8 : blocks[k].bytes = Bytes(args, Structures[k])
  <2>1. Len(blocks) = 8 /\ blocks \in Seq(BlockType)
    BY DEF StartInv, BookInv, BlocksInv
  <2>2. DOMAIN blocks = 1 .. 8
    BY <2>1
  <2>. QED
    BY <2>1, <2>2 DEF StartInv, BookInv, BlocksInv
<1>2. /\ (CHOOSE k \in 1 .. 8 : Structures[k] = "pool") = 1
      /\ (CHOOSE k \in 1 .. 8 : Structures[k] = "order_map") = 2
      /\ (CHOOSE k \in 1 .. 8 : Structures[k] = "bids_levels") = 3
      /\ (CHOOSE k \in 1 .. 8 : Structures[k] = "asks_levels") = 4
      /\ (CHOOSE k \in 1 .. 8 : Structures[k] = "bids_bitset") = 5
      /\ (CHOOSE k \in 1 .. 8 : Structures[k] = "bids_summary") = 7
  BY DEF Structures
<1>3. /\ SizeOf("pool") = (Capacity(args) * 6) \div 6
      /\ SizeOf("order_map") = (((args.max_order_id + 1) % SizeModulus) * 1) \div 1
      /\ SizeOf("bids_levels") = (PriceRange(args) * 8) \div 8
      /\ SizeOf("asks_levels") = (PriceRange(args) * 8) \div 8
      /\ SizeOf("bids_bitset") = (WordsFor(PriceRange(args)) * 2) \div 2
      /\ SizeOf("bids_summary") = (WordsFor(WordsFor(PriceRange(args))) * 2) \div 2
  <2>1. \A s : SizeOf(s) = blocks[CHOOSE k \in 1 .. 8 : Structures[k] = s].bytes \div UnitsOf(s)
    BY <1>1 DEF SizeOf
  <2>2. /\ UnitsOf("pool") = 6 /\ UnitsOf("order_map") = 1 /\ UnitsOf("bids_levels") = 8
        /\ UnitsOf("asks_levels") = 8 /\ UnitsOf("bids_bitset") = 2 /\ UnitsOf("bids_summary") = 2
    BY DEF UnitsOf
  <2>3. /\ SizeOf("pool") = blocks[1].bytes \div 6
        /\ SizeOf("order_map") = blocks[2].bytes \div 1
        /\ SizeOf("bids_levels") = blocks[3].bytes \div 8
        /\ SizeOf("asks_levels") = blocks[4].bytes \div 8
        /\ SizeOf("bids_bitset") = blocks[5].bytes \div 2
        /\ SizeOf("bids_summary") = blocks[7].bytes \div 2
    BY <1>2, <2>1, <2>2, Zenon
  <2>4. /\ blocks[1].bytes = Capacity(args) * 6
        /\ blocks[2].bytes = ((args.max_order_id + 1) % SizeModulus) * 1
        /\ blocks[3].bytes = PriceRange(args) * 8
        /\ blocks[4].bytes = PriceRange(args) * 8
        /\ blocks[5].bytes = WordsFor(PriceRange(args)) * 2
        /\ blocks[7].bytes = WordsFor(WordsFor(PriceRange(args))) * 2
    BY <1>1, BytesAre
  <2>. QED
    BY <2>3, <2>4, Zenon
<1>4. /\ Capacity(args) \in Nat
      /\ (args.max_order_id + 1) % SizeModulus \in Nat
      /\ PriceRange(args) \in Nat
      /\ WordsFor(PriceRange(args)) \in Nat
      /\ WordsFor(WordsFor(PriceRange(args))) \in Nat
  BY <1>1, CapacityNat, RangeNat, ConstructionAssumption DEF ConstructorArgs, MaxOrderIds
<1>5. \A n \in Nat : (n * 6) \div 6 = n /\ (n * 1) \div 1 = n /\ (n * 8) \div 8 = n /\ (n * 2) \div 2 = n
  OBVIOUS
<1>. QED
  BY <1>3, <1>4, <1>5

(***************************************************************************)
(* The argument checks of the constructor suffice: every index add_order   *)
(* and the price index form lies inside the storage reserved for it, for   *)
(* every width of size_t and of the 32-bit types.                          *)
(***************************************************************************)
THEOREM BuiltIndicesInside == ConstructionSpec => []IndicesInside
<1>1. StartInv => IndicesInside
  <2>0. SUFFICES ASSUME StartInv, pc = "built" PROVE IndicesInside
    BY DEF IndicesInside
  <2>1. args \in ConstructorArgs /\ Verdict(args) = "ok"
    BY <2>0 DEF StartInv, BookInv
  <2>2. /\ args.max_order_id \in Nat /\ args.min_price \in Nat /\ args.max_price \in Nat
        /\ args.max_price < IndexModulus
        /\ SizeModulus \in Nat /\ IndexModulus \in Nat /\ IndexModulus <= SizeModulus
    BY <2>1, ConstructionAssumption DEF ConstructorArgs
  <2>3. /\ args.min_price <= args.max_price
        /\ args.max_price # IndexModulus - 1
        /\ args.max_order_id <= IndexModulus - 2
    BY <2>1, <2>2 DEF Verdict, MaxOrderIds
  <2>4. ASSUME NEW id \in 1 .. IndexModulus - 1, id <= args.max_order_id
        PROVE  id < SizeOf("order_map") /\ id # INVALID_INDEX
    <3>1. args.max_order_id + 1 \in 0 .. SizeModulus - 1 /\ SizeModulus \in Nat \ {0}
      BY <2>2, <2>3
    <3>2. (args.max_order_id + 1) % SizeModulus = args.max_order_id + 1
      BY <3>1, SmallRemainder
    <3>. QED
      BY <2>0, <2>2, <2>3, <2>4, <3>2, BuiltSizes DEF INVALID_INDEX
  <2>5. ASSUME NEW price \in args.min_price .. args.max_price,
               NEW i, i = price - args.min_price
        PROVE  /\ i < SizeOf("bids_levels") /\ i < SizeOf("asks_levels")
               /\ i \div WordBits < SizeOf("bids_bitset")
               /\ (i \div WordBits) \div WordBits < SizeOf("bids_summary")
    <3>1. /\ PriceRange(args) \in Nat /\ WordsFor(PriceRange(args)) \in Nat
          /\ WordsFor(WordsFor(PriceRange(args))) \in Nat
      BY <2>1, RangeNat
    <3>2. i \in 0 .. PriceRange(args) - 1
      BY <2>2, <2>5 DEF PriceRange
    <3>3. i \div WordBits \in 0 .. WordsFor(PriceRange(args)) - 1
      BY <3>1, <3>2, WordInside
    <3>4. (i \div WordBits) \div WordBits \in 0 .. WordsFor(WordsFor(PriceRange(args))) - 1
      BY <3>1, <3>3, WordInside
    <3>. QED
      BY <2>0, <3>1, <3>2, <3>3, <3>4, BuiltSizes
  <2>6. ASSUME NEW i \in 0 .. SizeOf("pool") - 1 PROVE i # INVALID_INDEX
    BY <2>0, <2>1, <2>2, BuiltSizes, CapacityNat DEF MaxOrderIds, INVALID_INDEX
  <2>7. (args.max_price + 1) % IndexModulus > args.max_price
    <3>1. args.max_price + 1 \in 0 .. IndexModulus - 1 /\ IndexModulus \in Nat \ {0}
      BY <2>2, <2>3
    <3>2. (args.max_price + 1) % IndexModulus = args.max_price + 1
      BY <3>1, SmallRemainder
    <3>. QED
      BY <2>2, <3>2
  <2>. QED
    BY <2>4, <2>5, <2>6, <2>7 DEF IndicesInside, SizeOf
<1>. QED
  BY <1>1, StartAlways, PTL
=============================================================================
