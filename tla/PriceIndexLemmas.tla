-------------------------- MODULE PriceIndexLemmas --------------------------
(***************************************************************************)
(* The operators of PriceIndex for every price range and every word size:  *)
(* SetBit and ClearBit keep the index sound, and on a sound index the      *)
(* scans find the neighbouring occupied tick.  The argument splits a tick  *)
(* into word and bit, and a word into summary word and bit, and compares   *)
(* them in that order.                                                     *)
(***************************************************************************)
EXTENDS PriceIndex, FiniteSetsExt, WellFoundedInduction, TLAPS

-----------------------------------------------------------------------------
(***************************************************************************)
(* Min and Max of the community modules on sets of numbers.                *)
(***************************************************************************)
\* A set of naturals that is not empty has a least element, and Min is it.
LEMMA MinOfNat ==
  ASSUME NEW S \in SUBSET Nat, S # {}
  PROVE  Min(S) \in S /\ \A y \in S : Min(S) <= y
<1>1. \E x \in S : \A y \in S : ~(<<y, x>> \in OpToRel(<, Nat))
  BY NatLessThanWellFounded, WFMin
<1>2. OpToRel(<, Nat) = {ss \in Nat \X Nat : ss[1] < ss[2]}
  BY DEF OpToRel
<1>3. \E x \in S : \A y \in S : x <= y
  <2>1. PICK x \in S : \A y \in S : ~(<<y, x>> \in OpToRel(<, Nat))
    BY <1>1
  <2>2. \A y \in S : ~(<<y, x>> \in {ss \in Nat \X Nat : ss[1] < ss[2]})
    BY <1>2, <2>1
  <2>3. \A y \in S : x <= y
    <3>. SUFFICES ASSUME NEW y \in S PROVE x <= y
      OBVIOUS
    <3>1. ~(<<y, x>> \in {ss \in Nat \X Nat : ss[1] < ss[2]})
      BY <2>2
    <3>. QED
      BY <3>1
  <2>. QED
    BY <2>3
<1>. QED
  BY <1>3 DEF Min

\* A bounded set that is not empty has a greatest element, and Max is it.
LEMMA MaxOfBounded ==
  ASSUME NEW b \in Nat, NEW S \in SUBSET (0 .. b), S # {}
  PROVE  Max(S) \in S /\ \A y \in S : Max(S) >= y
<1> DEFINE T == {k \in Nat : b - k \in S}
<1>1. PICK s \in S : TRUE
  OBVIOUS
<1>2. b - s \in T
  OBVIOUS
<1>3. T \in SUBSET Nat /\ T # {}
  BY <1>2
<1>4. Min(T) \in T /\ \A y \in T : Min(T) <= y
  BY <1>3, MinOfNat
<1>5. b - Min(T) \in S /\ \A y \in S : b - Min(T) >= y
  <2>1. \A y \in S : b - y \in T
    OBVIOUS
  <2>2. Min(T) \in Nat /\ b - Min(T) \in S
    BY <1>4
  <2>. QED
    BY <1>4, <2>1, <2>2
<1>6. \E x \in S : \A y \in S : x >= y
  BY <1>5
<1>. QED
  BY <1>6 DEF Max

\* A lower bound in the set is its minimum.
LEMMA MinIs ==
  ASSUME NEW S \in SUBSET Nat, NEW m \in S, \A y \in S : m <= y
  PROVE  Min(S) = m
<1>1. \A x \in S : (\A y \in S : x <= y) => x = m
  OBVIOUS
<1>2. Min(S) \in S /\ \A y \in S : Min(S) <= y
  BY MinOfNat
<1>. QED
  BY <1>1, <1>2

\* An upper bound in the set is its maximum.
LEMMA MaxIs ==
  ASSUME NEW S \in SUBSET Nat, NEW m \in S, \A y \in S : m >= y
  PROVE  Max(S) = m
<1>1. S \in SUBSET (0 .. m) /\ m \in Nat
  OBVIOUS
<1>2. Max(S) \in S /\ \A y \in S : Max(S) >= y
  BY <1>1, MaxOfBounded
<1>3. \A x \in S : (\A y \in S : x >= y) => x = m
  OBVIOUS
<1>. QED
  BY <1>2, <1>3

(***************************************************************************)
(* Words and bits.                                                         *)
(***************************************************************************)
\* Multiplication by the word size keeps the order.
LEMMA Monotone ==
  ASSUME NEW a \in Int, NEW b \in Int, a <= b
  PROVE  a * WordBits <= b * WordBits
BY PriceAssumption

\* An index is its word and its bit.
LEMMA Split ==
  ASSUME NEW i \in Nat
  PROVE  /\ WordOf(i) \in Nat
         /\ BitOf(i) \in Bits
         /\ i = WordOf(i) * WordBits + BitOf(i)
BY PriceAssumption DEF WordOf, BitOf, Bits

\* A word and a bit are the word and the bit of one index.
LEMMA Join ==
  ASSUME NEW w \in Nat, NEW b \in Bits
  PROVE  /\ w * WordBits + b \in Nat
         /\ WordOf(w * WordBits + b) = w
         /\ BitOf(w * WordBits + b) = b
<1>1. WordBits \in Nat /\ WordBits > 0
  BY PriceAssumption
<1>2. b \in Nat /\ b < WordBits
  BY <1>1 DEF Bits
<1>. QED
  BY <1>1, <1>2 DEF WordOf, BitOf

\* An index in a lower word is lower.
LEMMA LowerWord ==
  ASSUME NEW i \in Nat, NEW j \in Nat, WordOf(i) < WordOf(j)
  PROVE  i < j
<1>1. /\ WordOf(i) \in Nat /\ BitOf(i) \in Bits
      /\ i = WordOf(i) * WordBits + BitOf(i)
  BY Split
<1>2. /\ WordOf(j) \in Nat /\ BitOf(j) \in Bits
      /\ j = WordOf(j) * WordBits + BitOf(j)
  BY Split
<1>3. (WordOf(i) + 1) * WordBits <= WordOf(j) * WordBits
  BY <1>1, <1>2, Monotone
<1>4. WordBits \in Nat /\ BitOf(i) < WordBits /\ BitOf(i) \in Nat /\ BitOf(j) \in Nat
  BY <1>1, <1>2, PriceAssumption DEF Bits
<1>5. (WordOf(i) + 1) * WordBits = WordOf(i) * WordBits + WordBits
  BY <1>1, <1>4
<1> DEFINE p == WordOf(i) * WordBits
           q == WordOf(j) * WordBits
<1>6. p \in Nat /\ q \in Nat
  BY <1>1, <1>2, <1>4
<1>. HIDE DEF p, q
<1>7. p + WordBits <= q /\ i = p + BitOf(i) /\ j = q + BitOf(j)
  BY <1>1, <1>2, <1>3, <1>5 DEF p, q
<1>. QED
  BY <1>4, <1>6, <1>7

\* Indices compare by word first, by bit within a word.
LEMMA LexOrder ==
  ASSUME NEW i \in Nat, NEW j \in Nat
  PROVE  i < j <=> \/ WordOf(i) < WordOf(j)
                   \/ WordOf(i) = WordOf(j) /\ BitOf(i) < BitOf(j)
<1>1. /\ WordOf(i) \in Nat /\ BitOf(i) \in Bits
      /\ i = WordOf(i) * WordBits + BitOf(i)
  BY Split
<1>2. /\ WordOf(j) \in Nat /\ BitOf(j) \in Bits
      /\ j = WordOf(j) * WordBits + BitOf(j)
  BY Split
<1>3. BitOf(i) \in Nat /\ BitOf(j) \in Nat
  BY <1>1, <1>2, PriceAssumption DEF Bits
<1>4. CASE WordOf(i) < WordOf(j)
  BY <1>1, <1>2, <1>4, LowerWord
<1>5. CASE WordOf(j) < WordOf(i)
  <2>1. j < i
    BY <1>5, LowerWord
  <2>. QED
    BY <1>1, <1>2, <1>5, <2>1
<1>6. CASE WordOf(i) = WordOf(j)
  <2> DEFINE p == WordOf(i) * WordBits
  <2>1. p \in Nat
    BY <1>1, PriceAssumption
  <2>. HIDE DEF p
  <2>2. i = p + BitOf(i) /\ j = p + BitOf(j)
    BY <1>1, <1>2, <1>6 DEF p
  <2>. QED
    BY <1>1, <1>3, <1>6, <2>1, <2>2
<1>. QED
  BY <1>1, <1>2, <1>4, <1>5, <1>6

\* Rounding up leaves no index without its word.
LEMMA Covered ==
  ASSUME NEW n \in Nat \ {0}, NEW i \in 0 .. n - 1
  PROVE  /\ (n + WordBits - 1) \div WordBits \in Nat \ {0}
         /\ WordOf(i) \in 0 .. ((n + WordBits - 1) \div WordBits) - 1
<1> DEFINE m == n + WordBits - 1
           c == WordOf(m)
           q == c * WordBits
<1>1. WordBits \in Nat /\ WordBits > 0 /\ m \in Nat /\ i \in Nat
  BY PriceAssumption
<1>2. c \in Nat /\ BitOf(m) \in Bits /\ m = q + BitOf(m)
  BY <1>1, Split
<1>3. q \in Nat
  BY <1>1, <1>2
<1>4. i < q
  <2>1. BitOf(m) \in Nat /\ BitOf(m) < WordBits
    BY <1>1, <1>2 DEF Bits
  <2>. HIDE DEF q
  <2>. QED
    BY <1>1, <1>2, <1>3, <2>1
<1>5. 0 \in Bits /\ q + 0 = q
  BY <1>1, <1>3 DEF Bits
<1>6. WordOf(q) = c /\ BitOf(q) = 0
  BY <1>2, <1>5, Join
<1>7. WordOf(i) \in Nat /\ BitOf(i) \in Nat
  BY <1>1, Split DEF Bits
<1>8. WordOf(i) < c
  BY <1>1, <1>2, <1>3, <1>4, <1>6, <1>7, LexOrder
<1>9. c = (n + WordBits - 1) \div WordBits
  BY DEF WordOf
<1>. HIDE DEF c
<1>. QED
  BY <1>2, <1>7, <1>8, <1>9

-----------------------------------------------------------------------------
(***************************************************************************)
(* The inductive invariant.  The words cover more bits than there are      *)
(* ticks, and the summary more bits than there are words: the scans are    *)
(* right because the bits past the end stay clear.                         *)
(***************************************************************************)
WordIdx == 0 .. BitsetWords - 1
SummaryIdx == 0 .. SummaryWords - 1

NothingPastEnd(x) ==
  /\ \A w \in WordIdx : \A b \in x.word[w] : w * WordBits + b \in Ticks
  /\ \A t \in SummaryIdx : \A b \in x.summary[t] : t * WordBits + b \in WordIdx

Sound(x) ==
  /\ x \in IndexType
  /\ SummaryMatches(x)
  /\ NothingPastEnd(x)

\* The sizes the constructor computes are positive, and every tick and every
\* bitset word has its place.
LEMMA Sizes ==
  /\ PriceRange \in Nat \ {0} /\ BitsetWords \in Nat \ {0} /\ SummaryWords \in Nat \ {0}
  /\ Ticks \subseteq Nat /\ WordIdx \subseteq Nat /\ SummaryIdx \subseteq Nat /\ Bits \subseteq Nat
  /\ \A i \in Ticks : WordOf(i) \in WordIdx /\ BitOf(i) \in Bits
  /\ \A w \in WordIdx : WordOf(w) \in SummaryIdx /\ BitOf(w) \in Bits
<1>1. PriceRange \in Nat \ {0}
  BY PriceAssumption DEF PriceRange
<1>2. 0 \in 0 .. PriceRange - 1
  BY <1>1
<1>3. BitsetWords \in Nat \ {0}
  BY <1>1, <1>2, Covered DEF BitsetWords
<1>4. 0 \in 0 .. BitsetWords - 1
  BY <1>3
<1>5. SummaryWords \in Nat \ {0}
  BY <1>3, <1>4, Covered DEF SummaryWords
<1>6. Ticks \subseteq Nat /\ WordIdx \subseteq Nat /\ SummaryIdx \subseteq Nat /\ Bits \subseteq Nat
  BY <1>1, <1>3, <1>5, PriceAssumption DEF Ticks, WordIdx, SummaryIdx, Bits
<1>7. \A i \in Ticks : WordOf(i) \in WordIdx /\ BitOf(i) \in Bits
  BY <1>1, <1>6, Covered, Split DEF Ticks, WordIdx, BitsetWords
<1>8. \A w \in WordIdx : WordOf(w) \in SummaryIdx /\ BitOf(w) \in Bits
  BY <1>3, <1>6, Covered, Split DEF WordIdx, SummaryIdx, SummaryWords
<1>. QED
  BY <1>1, <1>3, <1>5, <1>6, <1>7, <1>8

\* The index the constructor builds is sound.
LEMMA EmptyIndexSound == Sound(EmptyIndex)
<1>1. EmptyIndex \in IndexType
  BY DEF EmptyIndex, IndexType
<1>2. SummaryMatches(EmptyIndex)
  BY Sizes DEF EmptyIndex, SummaryMatches, WordIdx, SummaryIdx
<1>3. NothingPastEnd(EmptyIndex)
  BY DEF EmptyIndex, NothingPastEnd, WordIdx, SummaryIdx
<1>. QED
  BY <1>1, <1>2, <1>3 DEF Sound

\* Two indices with the same word and the same bit are equal.
LEMMA SameParts ==
  ASSUME NEW i \in Nat, NEW j \in Nat, WordOf(i) = WordOf(j), BitOf(i) = BitOf(j)
  PROVE  i = j
BY Split

\* Setting the bit of a level that fills keeps the index sound.
LEMMA SetBitSound ==
  ASSUME NEW x, Sound(x), NEW i \in Ticks
  PROVE  Sound(SetBit(x, i))
<1> DEFINE y == SetBit(x, i)
           w == WordOf(i)
<1>1. /\ x.word \in [WordIdx -> SUBSET Bits] /\ x.summary \in [SummaryIdx -> SUBSET Bits]
      /\ w \in WordIdx /\ BitOf(i) \in Bits /\ WordOf(w) \in SummaryIdx /\ BitOf(w) \in Bits
  BY Sizes DEF Sound, IndexType, WordIdx, SummaryIdx
<1>2. y.word = [x.word EXCEPT ![w] = @ \cup {BitOf(i)}]
  BY DEF SetBit
<1>3. y.summary = [x.summary EXCEPT ![WordOf(w)] = @ \cup {BitOf(w)}]
  BY DEF SetBit
<1>4. y.word \in [WordIdx -> SUBSET Bits] /\ y.summary \in [SummaryIdx -> SUBSET Bits]
  BY <1>1, <1>2, <1>3
<1>5. y \in IndexType
  BY <1>4 DEF SetBit, IndexType, WordIdx, SummaryIdx
<1>6. ASSUME NEW v \in WordIdx
      PROVE  BitOf(v) \in y.summary[WordOf(v)] <=> y.word[v] # {}
  <2>1. BitOf(v) \in x.summary[WordOf(v)] <=> x.word[v] # {}
    BY DEF Sound, SummaryMatches, WordIdx
  <2>2. WordOf(v) \in SummaryIdx
    BY Sizes
  <2>3. CASE v = w
    BY <1>1, <1>2, <1>3, <2>2, <2>3
  <2>4. CASE v # w
    <3>1. WordOf(v) # WordOf(w) \/ BitOf(v) # BitOf(w)
      BY <1>1, <2>4, SameParts, Sizes
    <3>. QED
      BY <1>1, <1>2, <1>3, <2>1, <2>2, <2>4, <3>1
  <2>. QED
    BY <2>3, <2>4
<1>7. SummaryMatches(y)
  BY <1>6 DEF SummaryMatches, WordIdx
<1>8. ASSUME NEW v \in WordIdx, NEW b \in y.word[v]
      PROVE  v * WordBits + b \in Ticks
  <2>1. CASE b \in x.word[v]
    BY <2>1 DEF Sound, NothingPastEnd
  <2>2. CASE b \notin x.word[v]
    <3>1. v = w /\ b = BitOf(i)
      BY <1>1, <1>2, <2>2
    <3>. QED
      BY <3>1, Split, Sizes
  <2>. QED
    BY <2>1, <2>2
<1>9. ASSUME NEW t \in SummaryIdx, NEW b \in y.summary[t]
      PROVE  t * WordBits + b \in WordIdx
  <2>1. CASE b \in x.summary[t]
    BY <2>1 DEF Sound, NothingPastEnd
  <2>2. CASE b \notin x.summary[t]
    <3>1. t = WordOf(w) /\ b = BitOf(w)
      BY <1>1, <1>3, <2>2
    <3>. QED
      BY <1>1, <3>1, Split, Sizes
  <2>. QED
    BY <2>1, <2>2
<1>10. NothingPastEnd(y)
  BY <1>8, <1>9 DEF NothingPastEnd
<1>. QED
  BY <1>5, <1>7, <1>10 DEF Sound

\* Clearing the bit of a level that empties keeps the index sound: the summary
\* bit goes exactly when its word is zero.
LEMMA ClearBitSound ==
  ASSUME NEW x, Sound(x), NEW i \in Ticks
  PROVE  Sound(ClearBit(x, i))
<1> DEFINE y == ClearBit(x, i)
           w == WordOf(i)
           word == [x.word EXCEPT ![w] = @ \ {BitOf(i)}]
           summary == [x.summary EXCEPT ![WordOf(w)] = @ \ {BitOf(w)}]
<1>1. /\ x.word \in [WordIdx -> SUBSET Bits] /\ x.summary \in [SummaryIdx -> SUBSET Bits]
      /\ w \in WordIdx /\ WordOf(w) \in SummaryIdx
  BY Sizes DEF Sound, IndexType, WordIdx, SummaryIdx
<1>2. y.word = word /\ y.summary = IF word[w] = {} THEN summary ELSE x.summary
  BY DEF ClearBit
<1>3. y = [word |-> y.word, summary |-> y.summary]
  BY DEF ClearBit
<1>. HIDE DEF y
<1>4. y.word \in [WordIdx -> SUBSET Bits] /\ y.summary \in [SummaryIdx -> SUBSET Bits]
  BY <1>1, <1>2
<1>5. y \in IndexType
  BY <1>3, <1>4 DEF IndexType, WordIdx, SummaryIdx
<1>6. ASSUME NEW v \in WordIdx
      PROVE  BitOf(v) \in y.summary[WordOf(v)] <=> y.word[v] # {}
  <2>1. BitOf(v) \in x.summary[WordOf(v)] <=> x.word[v] # {}
    BY DEF Sound, SummaryMatches, WordIdx
  <2>2. WordOf(v) \in SummaryIdx
    BY Sizes
  <2>3. CASE v = w
    <3>1. CASE word[w] = {}
      BY <1>1, <1>2, <2>2, <2>3, <3>1
    <3>2. CASE word[w] # {}
      BY <1>1, <1>2, <2>1, <2>3, <3>2
    <3>. QED
      BY <3>1, <3>2
  <2>4. CASE v # w
    <3>1. WordOf(v) # WordOf(w) \/ BitOf(v) # BitOf(w)
      BY <1>1, <2>4, SameParts, Sizes
    <3>2. y.word[v] = x.word[v]
      BY <1>1, <1>2, <2>4
    <3>3. BitOf(v) \in y.summary[WordOf(v)] <=> BitOf(v) \in x.summary[WordOf(v)]
      BY <1>1, <1>2, <2>2, <3>1
    <3>. QED
      BY <2>1, <3>2, <3>3
  <2>. QED
    BY <2>3, <2>4
<1>7. SummaryMatches(y)
  BY <1>6 DEF SummaryMatches, WordIdx
<1>8. /\ \A v \in WordIdx : y.word[v] \subseteq x.word[v]
      /\ \A t \in SummaryIdx : y.summary[t] \subseteq x.summary[t]
  BY <1>1, <1>2
<1>9. NothingPastEnd(y)
  BY <1>8 DEF Sound, NothingPastEnd
<1>10. Sound(y)
  BY <1>5, <1>7, <1>9 DEF Sound
<1>. QED
  BY <1>10 DEF y

-----------------------------------------------------------------------------
(***************************************************************************)
(* The scans.  Both go through the occupied words, which are what the      *)
(* summary stands for.                                                     *)
(***************************************************************************)
OccupiedWords(x) == {w \in WordIdx : x.word[w] # {}}

\* The set ticks, word by word.
LEMMA TicksByWord ==
  ASSUME NEW x, Sound(x)
  PROVE  /\ x.word \in [WordIdx -> SUBSET Bits]
         /\ \A j \in SetTicks(x) :
               j \in Ticks /\ WordOf(j) \in OccupiedWords(x) /\ BitOf(j) \in x.word[WordOf(j)]
         /\ \A w \in WordIdx : \A b \in x.word[w] :
               /\ w * WordBits + b \in SetTicks(x)
               /\ WordOf(w * WordBits + b) = w
               /\ BitOf(w * WordBits + b) = b
<1>1. x.word \in [WordIdx -> SUBSET Bits]
  BY DEF Sound, IndexType, WordIdx
<1>2. \A j \in SetTicks(x) :
        j \in Ticks /\ WordOf(j) \in OccupiedWords(x) /\ BitOf(j) \in x.word[WordOf(j)]
  BY Sizes DEF SetTicks, OccupiedWords
<1>3. ASSUME NEW w \in WordIdx, NEW b \in x.word[w]
      PROVE  /\ w * WordBits + b \in SetTicks(x)
             /\ WordOf(w * WordBits + b) = w
             /\ BitOf(w * WordBits + b) = b
  <2>1. w \in Nat /\ b \in Bits
    BY <1>1, Sizes
  <2>2. WordOf(w * WordBits + b) = w /\ BitOf(w * WordBits + b) = b
    BY <2>1, Join
  <2>3. w * WordBits + b \in Ticks
    BY DEF Sound, NothingPastEnd
  <2>. QED
    BY <2>2, <2>3 DEF SetTicks
<1>. QED
  BY <1>1, <1>2, <1>3

\* The occupied words, summary word by summary word.
LEMMA WordsBySummary ==
  ASSUME NEW x, Sound(x)
  PROVE  /\ x.summary \in [SummaryIdx -> SUBSET Bits]
         /\ \A w \in OccupiedWords(x) :
               w \in WordIdx /\ WordOf(w) \in SummaryIdx /\ BitOf(w) \in x.summary[WordOf(w)]
         /\ \A t \in SummaryIdx : \A b \in x.summary[t] :
               /\ t * WordBits + b \in OccupiedWords(x)
               /\ WordOf(t * WordBits + b) = t
               /\ BitOf(t * WordBits + b) = b
<1>1. x.summary \in [SummaryIdx -> SUBSET Bits]
  BY DEF Sound, IndexType, SummaryIdx
<1>2. \A w \in WordIdx : BitOf(w) \in x.summary[WordOf(w)] <=> x.word[w] # {}
  BY DEF Sound, SummaryMatches, WordIdx
<1>3. \A w \in OccupiedWords(x) :
        w \in WordIdx /\ WordOf(w) \in SummaryIdx /\ BitOf(w) \in x.summary[WordOf(w)]
  BY <1>2, Sizes DEF OccupiedWords
<1>4. ASSUME NEW t \in SummaryIdx, NEW b \in x.summary[t]
      PROVE  /\ t * WordBits + b \in OccupiedWords(x)
             /\ WordOf(t * WordBits + b) = t
             /\ BitOf(t * WordBits + b) = b
  <2>1. t \in Nat /\ b \in Bits
    BY <1>1, Sizes
  <2>2. WordOf(t * WordBits + b) = t /\ BitOf(t * WordBits + b) = b
    BY <2>1, Join
  <2>3. t * WordBits + b \in WordIdx
    BY DEF Sound, NothingPastEnd
  <2>. QED
    BY <1>2, <2>2, <2>3 DEF OccupiedWords
<1>. QED
  BY <1>1, <1>3, <1>4

\* Once the word of tick i is exhausted, the first tick is the lowest of the next
\* occupied word.
LEMMA UpFromWord ==
  ASSUME NEW x, Sound(x), NEW i \in Ticks,
         {b \in x.word[WordOf(i)] : b >= BitOf(i)} = {},
         NEW v \in OccupiedWords(x), v > WordOf(i),
         \A u \in OccupiedWords(x) : u > WordOf(i) => v <= u
  PROVE  LowestIn(x, v) = FirstFrom(SetTicks(x), i)
<1> DEFINE m == LowestIn(x, v)
           S == {j \in SetTicks(x) : j >= i}
<1>1. v \in WordIdx /\ v \in Nat /\ x.word[v] \in SUBSET Nat /\ x.word[v] # {}
  BY TicksByWord, Sizes DEF OccupiedWords
<1>2. Min(x.word[v]) \in x.word[v] /\ \A b \in x.word[v] : Min(x.word[v]) <= b
  BY <1>1, MinOfNat
<1>3. m \in SetTicks(x) /\ WordOf(m) = v /\ BitOf(m) = Min(x.word[v])
  BY <1>1, <1>2, TicksByWord DEF LowestIn
<1>. HIDE DEF m
<1>4. i \in Nat /\ m \in Nat /\ WordOf(i) \in Nat
  BY <1>3, TicksByWord, Sizes, Split
<1>5. m \in S
  <2>1. i < m
    BY <1>3, <1>4, LowerWord
  <2>. QED
    BY <1>3, <1>4, <2>1
<1>6. ASSUME NEW j \in S
      PROVE  m <= j
  <2>1. /\ j \in Nat /\ WordOf(j) \in OccupiedWords(x) /\ WordOf(j) \in Nat
        /\ BitOf(j) \in x.word[WordOf(j)] /\ BitOf(j) \in Nat /\ BitOf(i) \in Nat
    BY TicksByWord, Sizes DEF OccupiedWords
  <2>2. ~(j < i)
    BY <1>4, <2>1
  <2>3. WordOf(j) > WordOf(i)
    <3>1. ~(WordOf(j) < WordOf(i)) /\ ~(WordOf(j) = WordOf(i) /\ BitOf(j) < BitOf(i))
      BY <1>4, <2>1, <2>2, LexOrder
    <3>2. WordOf(j) # WordOf(i)
      <4>1. ASSUME WordOf(j) = WordOf(i) PROVE FALSE
        <5>1. BitOf(j) >= BitOf(i)
          BY <2>1, <3>1, <4>1
        <5>. QED
          BY <2>1, <4>1, <5>1
      <4>. QED
        BY <4>1
    <3>. QED
      BY <1>4, <2>1, <3>1, <3>2
  <2>4. v <= WordOf(j)
    BY <2>1, <2>3
  <2>5. ~(j < m)
    <3>1. ~(WordOf(j) < WordOf(m))
      BY <1>1, <1>3, <2>1, <2>4
    <3>2. ASSUME WordOf(j) = WordOf(m) PROVE ~(BitOf(j) < BitOf(m))
      BY <1>1, <1>2, <1>3, <2>1, <3>2
    <3>. QED
      BY <1>4, <2>1, <3>1, <3>2, LexOrder
  <2>. QED
    BY <1>4, <2>1, <2>5
<1>7. S \in SUBSET Nat
  BY TicksByWord, Sizes
<1>8. Min(S) = m
  BY <1>5, <1>6, <1>7, MinIs
<1>9. \E j \in SetTicks(x) : j >= i
  BY <1>5
<1>. QED
  BY <1>8, <1>9 DEF FirstFrom, m

\* The ask side's scan finds the lowest set tick at or above i.
LEMMA ScanUpFinds ==
  ASSUME NEW x, Sound(x), NEW i \in Ticks
  PROVE  ScanUp(x, i) = FirstFrom(SetTicks(x), i)
<1> DEFINE w == WordOf(i)
           s == WordOf(w)
           here == {b \in x.word[w] : b >= BitOf(i)}
           later == {b \in x.summary[s] : b > BitOf(w)}
           rest == {t \in s + 1 .. SummaryWords - 1 : x.summary[t] # {}}
<1>1. /\ i \in Nat /\ w \in WordIdx /\ w \in Nat /\ BitOf(i) \in Nat
      /\ s \in SummaryIdx /\ s \in Nat /\ BitOf(w) \in Nat
  BY Sizes
<1>2. ScanUp(x, i) =
        IF here # {} THEN w * WordBits + Min(here)
        ELSE IF later # {} THEN LowestIn(x, s * WordBits + Min(later))
        ELSE IF rest # {}
             THEN LowestIn(x, Min(rest) * WordBits + Min(x.summary[Min(rest)]))
             ELSE NONE
  BY DEF ScanUp
<1>. HIDE DEF s
<1>3. /\ x.summary \in [SummaryIdx -> SUBSET Bits]
      /\ \A u \in OccupiedWords(x) :
            u \in WordIdx /\ WordOf(u) \in SummaryIdx /\ BitOf(u) \in x.summary[WordOf(u)]
      /\ \A t \in SummaryIdx : \A b \in x.summary[t] :
            /\ t * WordBits + b \in OccupiedWords(x)
            /\ WordOf(t * WordBits + b) = t
            /\ BitOf(t * WordBits + b) = b
  BY WordsBySummary
<1>4. \A u \in OccupiedWords(x) :
        u \in Nat /\ WordOf(u) \in Nat /\ BitOf(u) \in Nat
  BY <1>3, Sizes
<1>5. CASE here # {}
  <2> DEFINE m == w * WordBits + Min(here)
             S == {j \in SetTicks(x) : j >= i}
  <2>1. here \in SUBSET Nat
    <3>1. x.word[w] \in SUBSET Bits
      BY <1>1, TicksByWord
    <3>. QED
      BY <3>1, Sizes
  <2>2. Min(here) \in here /\ \A b \in here : Min(here) <= b
    BY <1>5, <2>1, MinOfNat
  <2>3. m \in SetTicks(x) /\ WordOf(m) = w /\ BitOf(m) = Min(here)
    BY <1>1, <2>2, TicksByWord
  <2>. HIDE DEF m
  <2>4. m \in Nat /\ BitOf(m) >= BitOf(i) /\ BitOf(m) \in Nat
    BY <2>1, <2>2, <2>3, TicksByWord, Sizes
  <2>5. m \in S
    <3>1. ~(m < i)
      BY <1>1, <2>3, <2>4, LexOrder
    <3>. QED
      BY <1>1, <2>3, <2>4, <3>1
  <2>6. ASSUME NEW j \in S
        PROVE  m <= j
    <3>1. /\ j \in Nat /\ WordOf(j) \in Nat /\ BitOf(j) \in Nat
          /\ BitOf(j) \in x.word[WordOf(j)]
      BY TicksByWord, Sizes DEF OccupiedWords
    <3>2. ~(j < i)
      BY <1>1, <3>1
    <3>3. ~(WordOf(j) < w) /\ ~(WordOf(j) = w /\ BitOf(j) < BitOf(i))
      BY <1>1, <3>1, <3>2, LexOrder
    <3>4. ASSUME WordOf(j) = w PROVE ~(BitOf(j) < BitOf(m))
      <4>1. BitOf(j) \in here
        BY <1>1, <3>1, <3>3, <3>4
      <4>2. BitOf(m) <= BitOf(j)
        BY <2>2, <2>3, <4>1
      <4>. QED
        BY <2>4, <3>1, <4>2
    <3>5. ~(j < m)
      BY <2>3, <2>4, <3>1, <3>3, <3>4, LexOrder
    <3>. QED
      BY <2>4, <3>1, <3>5
  <2>7. S \in SUBSET Nat
    BY TicksByWord, Sizes
  <2>8. Min(S) = m
    BY <2>5, <2>6, <2>7, MinIs
  <2>9. FirstFrom(SetTicks(x), i) = m
    BY <2>5, <2>8 DEF FirstFrom
  <2>. QED
    BY <1>2, <1>5, <2>9 DEF m
<1>6. CASE here = {} /\ later # {}
  <2> DEFINE v == s * WordBits + Min(later)
  <2>1. later \in SUBSET Nat
    BY <1>1, <1>3, Sizes
  <2>2. Min(later) \in later /\ \A b \in later : Min(later) <= b
    BY <1>6, <2>1, MinOfNat
  <2>3. v \in OccupiedWords(x) /\ WordOf(v) = s /\ BitOf(v) = Min(later)
    BY <1>1, <1>3, <2>2
  <2>. HIDE DEF v
  <2>4. v \in Nat /\ BitOf(v) \in Nat /\ BitOf(v) > BitOf(w)
    BY <1>4, <2>2, <2>3
  <2>5. w < v
    BY <1>1, <2>3, <2>4, LexOrder DEF s
  <2>6. ASSUME NEW u \in OccupiedWords(x), u > w
        PROVE  v <= u
    <3>1. u \in Nat /\ WordOf(u) \in Nat /\ BitOf(u) \in Nat /\ w < u
      BY <1>1, <1>4, <2>6
    <3>2. s < WordOf(u) \/ (s = WordOf(u) /\ BitOf(w) < BitOf(u))
      BY <1>1, <3>1, LexOrder DEF s
    <3>3. ASSUME WordOf(u) = s PROVE ~(BitOf(u) < BitOf(v))
      <4>1. BitOf(u) \in later
        BY <1>1, <1>3, <3>1, <3>2, <3>3
      <4>2. BitOf(v) <= BitOf(u)
        BY <2>2, <2>3, <4>1
      <4>. QED
        BY <2>4, <3>1, <4>2
    <3>4. ~(u < v)
      BY <1>1, <2>3, <2>4, <3>1, <3>2, <3>3, LexOrder
    <3>. QED
      BY <2>4, <3>1, <3>4
  <2>7. LowestIn(x, v) = FirstFrom(SetTicks(x), i)
    BY <1>1, <1>6, <2>3, <2>4, <2>5, <2>6, UpFromWord
  <2>. QED
    BY <1>2, <1>6, <2>7 DEF v
<1>7. CASE here = {} /\ later = {}
  \* Every later occupied word is under a later summary word.
  <2>1. ASSUME NEW u \in OccupiedWords(x), u > w
        PROVE  WordOf(u) \in rest
    <3>1. u \in Nat /\ WordOf(u) \in Nat /\ BitOf(u) \in Nat /\ w < u
      BY <1>1, <1>4, <2>1
    <3>2. s < WordOf(u) \/ (s = WordOf(u) /\ BitOf(w) < BitOf(u))
      BY <1>1, <3>1, LexOrder DEF s
    <3>3. s # WordOf(u)
      BY <1>1, <1>3, <1>7, <3>1, <3>2
    <3>4. WordOf(u) \in SummaryIdx /\ x.summary[WordOf(u)] # {}
      BY <1>3
    <3>. QED
      BY <1>1, <3>1, <3>2, <3>3, <3>4, Sizes DEF SummaryIdx
  <2>2. CASE rest # {}
    <3> DEFINE t == Min(rest)
               v == t * WordBits + Min(x.summary[t])
    <3>1. rest \in SUBSET Nat
      BY <1>1, Sizes
    <3>2. t \in rest /\ \A r \in rest : t <= r
      BY <2>2, <3>1, MinOfNat
    <3>. HIDE DEF t
    <3>3. t \in Nat /\ t > s /\ t \in SummaryIdx /\ x.summary[t] # {}
      BY <1>1, <3>2, Sizes DEF SummaryIdx
    <3>4. x.summary[t] \in SUBSET Nat
      BY <1>3, <3>3, Sizes
    <3>5. Min(x.summary[t]) \in x.summary[t] /\ \A b \in x.summary[t] : Min(x.summary[t]) <= b
      BY <3>3, <3>4, MinOfNat
    <3>6. v \in OccupiedWords(x) /\ WordOf(v) = t /\ BitOf(v) = Min(x.summary[t])
      BY <1>3, <3>3, <3>5
    <3>. HIDE DEF v
    <3>7. v \in Nat /\ BitOf(v) \in Nat
      BY <1>4, <3>6
    <3>8. w < v
      BY <1>1, <3>3, <3>6, <3>7, LexOrder DEF s
    <3>9. ASSUME NEW u \in OccupiedWords(x), u > w
          PROVE  v <= u
      <4>1. WordOf(u) \in rest
        BY <2>1, <3>9
      <4>2. t <= WordOf(u)
        BY <3>2, <4>1
      <4>3. u \in Nat /\ WordOf(u) \in Nat /\ BitOf(u) \in Nat
        BY <1>4
      <4>4. ASSUME WordOf(u) = t PROVE ~(BitOf(u) < BitOf(v))
        <5>1. BitOf(v) <= BitOf(u)
          BY <1>3, <3>5, <3>6, <4>4
        <5>. QED
          BY <3>7, <4>3, <5>1
      <4>5. ~(u < v)
        BY <3>3, <3>6, <3>7, <4>2, <4>3, <4>4, LexOrder
      <4>. QED
        BY <3>7, <4>3, <4>5
    <3>10. LowestIn(x, v) = FirstFrom(SetTicks(x), i)
      BY <1>1, <1>7, <3>6, <3>7, <3>8, <3>9, UpFromWord
    <3>. QED
      BY <1>2, <1>7, <2>2, <3>10 DEF v, t
  <2>3. CASE rest = {}
    <3>1. ASSUME NEW j \in SetTicks(x), j >= i
          PROVE  FALSE
      <4>1. /\ j \in Nat /\ WordOf(j) \in OccupiedWords(x) /\ WordOf(j) \in Nat
            /\ BitOf(j) \in Nat /\ BitOf(j) \in x.word[WordOf(j)]
        BY TicksByWord, Sizes DEF OccupiedWords
      <4>2. ~(j < i)
        BY <1>1, <3>1, <4>1
      <4>3. ~(WordOf(j) < w) /\ ~(WordOf(j) = w /\ BitOf(j) < BitOf(i))
        BY <1>1, <4>1, <4>2, LexOrder
      <4>4. WordOf(j) # w
        BY <1>1, <1>7, <4>1, <4>3
      <4>5. WordOf(j) > w
        BY <1>1, <4>1, <4>3, <4>4
      <4>. QED
        BY <2>1, <2>3, <4>1, <4>5
    <3>2. FirstFrom(SetTicks(x), i) = NONE
      BY <3>1 DEF FirstFrom
    <3>. QED
      BY <1>2, <1>7, <2>3, <3>2
  <2>. QED
    BY <2>2, <2>3
<1>. QED
  BY <1>5, <1>6, <1>7

\* Max of a word.
LEMMA MaxOfBits ==
  ASSUME NEW S \in SUBSET Bits, S # {}
  PROVE  Max(S) \in S /\ \A b \in S : Max(S) >= b
<1>1. WordBits - 1 \in Nat /\ S \in SUBSET (0 .. WordBits - 1)
  BY PriceAssumption DEF Bits
<1>. QED
  BY <1>1, MaxOfBounded

\* Once the word of tick i holds nothing below i, the last tick below i is the
\* highest of the previous occupied word.
LEMMA DownFromWord ==
  ASSUME NEW x, Sound(x), NEW i \in Ticks,
         {b \in x.word[WordOf(i)] : b < BitOf(i)} = {},
         NEW v \in OccupiedWords(x), v < WordOf(i),
         \A u \in OccupiedWords(x) : u < WordOf(i) => v >= u
  PROVE  HighestIn(x, v) = LastBelow(SetTicks(x), i)
<1> DEFINE m == HighestIn(x, v)
           S == {j \in SetTicks(x) : j < i}
<1>1. v \in WordIdx /\ v \in Nat /\ x.word[v] \in SUBSET Bits /\ x.word[v] # {}
  BY TicksByWord, Sizes DEF OccupiedWords
<1>2. Max(x.word[v]) \in x.word[v] /\ \A b \in x.word[v] : Max(x.word[v]) >= b
  BY <1>1, MaxOfBits
<1>3. m \in SetTicks(x) /\ WordOf(m) = v /\ BitOf(m) = Max(x.word[v])
  BY <1>1, <1>2, TicksByWord DEF HighestIn
<1>. HIDE DEF m
<1>4. i \in Nat /\ m \in Nat /\ WordOf(i) \in Nat /\ BitOf(m) \in Nat
  BY <1>3, TicksByWord, Sizes, Split
<1>5. m \in S
  <2>1. m < i
    BY <1>3, <1>4, LowerWord
  <2>. QED
    BY <1>3, <1>4, <2>1
<1>6. ASSUME NEW j \in S
      PROVE  m >= j
  <2>1. /\ j \in Nat /\ WordOf(j) \in OccupiedWords(x) /\ WordOf(j) \in Nat
        /\ BitOf(j) \in x.word[WordOf(j)] /\ BitOf(j) \in Nat /\ BitOf(i) \in Nat
    BY TicksByWord, Sizes DEF OccupiedWords
  <2>2. WordOf(j) < WordOf(i) \/ (WordOf(j) = WordOf(i) /\ BitOf(j) < BitOf(i))
    BY <1>4, <2>1, LexOrder
  <2>3. WordOf(j) < WordOf(i)
    BY <2>1, <2>2
  <2>4. v >= WordOf(j)
    BY <2>1, <2>3
  <2>5. ~(m < j)
    <3>1. ~(WordOf(m) < WordOf(j))
      BY <1>1, <1>3, <2>1, <2>4
    <3>2. ASSUME WordOf(j) = WordOf(m) PROVE ~(BitOf(m) < BitOf(j))
      <4>1. BitOf(m) >= BitOf(j)
        BY <1>1, <1>2, <1>3, <2>1, <3>2
      <4>. QED
        BY <1>4, <2>1, <4>1
    <3>. QED
      BY <1>4, <2>1, <3>1, <3>2, LexOrder
  <2>. QED
    BY <1>4, <2>1, <2>5
<1>7. S \in SUBSET Nat
  BY TicksByWord, Sizes
<1>8. Max(S) = m
  BY <1>5, <1>6, <1>7, MaxIs
<1>9. \E j \in SetTicks(x) : j < i
  BY <1>5
<1>. QED
  BY <1>8, <1>9 DEF LastBelow, m

\* The bid side's scan finds the highest set tick below i.
LEMMA ScanDownFinds ==
  ASSUME NEW x, Sound(x), NEW i \in Ticks
  PROVE  ScanDown(x, i) = LastBelow(SetTicks(x), i)
<1> DEFINE w == WordOf(i)
           s == WordOf(w)
           here == {b \in x.word[w] : b < BitOf(i)}
           earlier == {b \in x.summary[s] : b < BitOf(w)}
           rest == {t \in 0 .. s - 1 : x.summary[t] # {}}
<1>1. /\ i \in Nat /\ w \in WordIdx /\ w \in Nat /\ BitOf(i) \in Nat
      /\ s \in SummaryIdx /\ s \in Nat /\ BitOf(w) \in Nat
  BY Sizes
<1>2. ScanDown(x, i) =
        IF here # {} THEN w * WordBits + Max(here)
        ELSE IF earlier # {} THEN HighestIn(x, s * WordBits + Max(earlier))
        ELSE IF rest # {}
             THEN HighestIn(x, Max(rest) * WordBits + Max(x.summary[Max(rest)]))
             ELSE NONE
  BY DEF ScanDown
<1>. HIDE DEF s
<1>3. /\ x.summary \in [SummaryIdx -> SUBSET Bits]
      /\ \A u \in OccupiedWords(x) :
            u \in WordIdx /\ WordOf(u) \in SummaryIdx /\ BitOf(u) \in x.summary[WordOf(u)]
      /\ \A t \in SummaryIdx : \A b \in x.summary[t] :
            /\ t * WordBits + b \in OccupiedWords(x)
            /\ WordOf(t * WordBits + b) = t
            /\ BitOf(t * WordBits + b) = b
  BY WordsBySummary
<1>4. \A u \in OccupiedWords(x) :
        u \in Nat /\ WordOf(u) \in Nat /\ BitOf(u) \in Nat
  BY <1>3, Sizes
<1>5. CASE here # {}
  <2> DEFINE m == w * WordBits + Max(here)
             S == {j \in SetTicks(x) : j < i}
  <2>1. here \in SUBSET Bits
    BY <1>1, TicksByWord
  <2>2. Max(here) \in here /\ \A b \in here : Max(here) >= b
    BY <1>5, <2>1, MaxOfBits
  <2>3. m \in SetTicks(x) /\ WordOf(m) = w /\ BitOf(m) = Max(here)
    BY <1>1, <2>2, TicksByWord
  <2>. HIDE DEF m
  <2>4. m \in Nat /\ BitOf(m) < BitOf(i) /\ BitOf(m) \in Nat
    BY <2>1, <2>2, <2>3, TicksByWord, Sizes
  <2>5. m \in S
    <3>1. m < i
      BY <1>1, <2>3, <2>4, LexOrder
    <3>. QED
      BY <2>3, <3>1
  <2>6. ASSUME NEW j \in S
        PROVE  m >= j
    <3>1. /\ j \in Nat /\ WordOf(j) \in Nat /\ BitOf(j) \in Nat
          /\ BitOf(j) \in x.word[WordOf(j)]
      BY TicksByWord, Sizes DEF OccupiedWords
    <3>2. WordOf(j) < w \/ (WordOf(j) = w /\ BitOf(j) < BitOf(i))
      BY <1>1, <3>1, LexOrder
    <3>3. ASSUME WordOf(j) = w PROVE ~(BitOf(m) < BitOf(j))
      <4>1. BitOf(j) \in here
        BY <1>1, <3>1, <3>2, <3>3
      <4>2. BitOf(m) >= BitOf(j)
        BY <2>2, <2>3, <4>1
      <4>. QED
        BY <2>4, <3>1, <4>2
    <3>4. ~(m < j)
      BY <1>1, <2>3, <2>4, <3>1, <3>2, <3>3, LexOrder
    <3>. QED
      BY <2>4, <3>1, <3>4
  <2>7. S \in SUBSET Nat
    BY TicksByWord, Sizes
  <2>8. Max(S) = m
    BY <2>5, <2>6, <2>7, MaxIs
  <2>9. LastBelow(SetTicks(x), i) = m
    BY <2>5, <2>8 DEF LastBelow
  <2>. QED
    BY <1>2, <1>5, <2>9 DEF m
<1>6. CASE here = {} /\ earlier # {}
  <2> DEFINE v == s * WordBits + Max(earlier)
  <2>1. earlier \in SUBSET Bits
    BY <1>1, <1>3
  <2>2. Max(earlier) \in earlier /\ \A b \in earlier : Max(earlier) >= b
    BY <1>6, <2>1, MaxOfBits
  <2>3. v \in OccupiedWords(x) /\ WordOf(v) = s /\ BitOf(v) = Max(earlier)
    BY <1>1, <1>3, <2>2
  <2>. HIDE DEF v
  <2>4. v \in Nat /\ BitOf(v) \in Nat /\ BitOf(v) < BitOf(w)
    BY <1>4, <2>2, <2>3
  <2>5. v < w
    BY <1>1, <2>3, <2>4, LexOrder DEF s
  <2>6. ASSUME NEW u \in OccupiedWords(x), u < w
        PROVE  v >= u
    <3>1. u \in Nat /\ WordOf(u) \in Nat /\ BitOf(u) \in Nat
      BY <1>4
    <3>2. WordOf(u) < s \/ (WordOf(u) = s /\ BitOf(u) < BitOf(w))
      BY <1>1, <2>6, <3>1, LexOrder DEF s
    <3>3. ASSUME WordOf(u) = s PROVE ~(BitOf(v) < BitOf(u))
      <4>1. BitOf(u) \in earlier
        BY <1>1, <1>3, <3>1, <3>2, <3>3
      <4>2. BitOf(v) >= BitOf(u)
        BY <2>2, <2>3, <4>1
      <4>. QED
        BY <2>4, <3>1, <4>2
    <3>4. ~(v < u)
      BY <1>1, <2>3, <2>4, <3>1, <3>2, <3>3, LexOrder
    <3>. QED
      BY <2>4, <3>1, <3>4
  <2>7. HighestIn(x, v) = LastBelow(SetTicks(x), i)
    BY <1>1, <1>6, <2>3, <2>4, <2>5, <2>6, DownFromWord
  <2>. QED
    BY <1>2, <1>6, <2>7 DEF v
<1>7. CASE here = {} /\ earlier = {}
  \* Every earlier occupied word is under an earlier summary word.
  <2>1. ASSUME NEW u \in OccupiedWords(x), u < w
        PROVE  WordOf(u) \in rest
    <3>1. u \in Nat /\ WordOf(u) \in Nat /\ BitOf(u) \in Nat
      BY <1>4
    <3>2. WordOf(u) < s \/ (WordOf(u) = s /\ BitOf(u) < BitOf(w))
      BY <1>1, <2>1, <3>1, LexOrder DEF s
    <3>3. s # WordOf(u)
      BY <1>1, <1>3, <1>7, <3>1, <3>2
    <3>4. x.summary[WordOf(u)] # {}
      BY <1>3
    <3>. QED
      BY <1>1, <3>1, <3>2, <3>3, <3>4
  <2>2. CASE rest # {}
    <3> DEFINE t == Max(rest)
               v == t * WordBits + Max(x.summary[t])
    <3>1. rest \in SUBSET (0 .. s)
      BY <1>1
    <3>2. t \in rest /\ \A r \in rest : t >= r
      BY <1>1, <2>2, <3>1, MaxOfBounded
    <3>. HIDE DEF t
    <3>3. t \in Nat /\ t < s /\ t \in SummaryIdx /\ x.summary[t] # {}
      BY <1>1, <3>2, Sizes DEF SummaryIdx
    <3>4. x.summary[t] \in SUBSET Bits
      BY <1>3, <3>3
    <3>5. Max(x.summary[t]) \in x.summary[t] /\ \A b \in x.summary[t] : Max(x.summary[t]) >= b
      BY <3>3, <3>4, MaxOfBits
    <3>6. v \in OccupiedWords(x) /\ WordOf(v) = t /\ BitOf(v) = Max(x.summary[t])
      BY <1>3, <3>3, <3>5
    <3>. HIDE DEF v
    <3>7. v \in Nat /\ BitOf(v) \in Nat
      BY <1>4, <3>6
    <3>8. v < w
      BY <1>1, <3>3, <3>6, <3>7, LexOrder DEF s
    <3>9. ASSUME NEW u \in OccupiedWords(x), u < w
          PROVE  v >= u
      <4>1. WordOf(u) \in rest
        BY <2>1, <3>9
      <4>2. t >= WordOf(u)
        BY <3>2, <4>1
      <4>3. u \in Nat /\ WordOf(u) \in Nat /\ BitOf(u) \in Nat
        BY <1>4
      <4>4. ASSUME WordOf(u) = t PROVE ~(BitOf(v) < BitOf(u))
        <5>1. BitOf(v) >= BitOf(u)
          BY <1>3, <3>5, <3>6, <4>4
        <5>. QED
          BY <3>7, <4>3, <5>1
      <4>5. ~(v < u)
        BY <3>3, <3>6, <3>7, <4>2, <4>3, <4>4, LexOrder
      <4>. QED
        BY <3>7, <4>3, <4>5
    <3>10. HighestIn(x, v) = LastBelow(SetTicks(x), i)
      BY <1>1, <1>7, <3>6, <3>7, <3>8, <3>9, DownFromWord
    <3>. QED
      BY <1>2, <1>7, <2>2, <3>10 DEF v, t
  <2>3. CASE rest = {}
    <3>1. ASSUME NEW j \in SetTicks(x), j < i
          PROVE  FALSE
      <4>1. /\ j \in Nat /\ WordOf(j) \in OccupiedWords(x) /\ WordOf(j) \in Nat
            /\ BitOf(j) \in Nat /\ BitOf(j) \in x.word[WordOf(j)]
        BY TicksByWord, Sizes DEF OccupiedWords
      <4>2. WordOf(j) < w \/ (WordOf(j) = w /\ BitOf(j) < BitOf(i))
        BY <1>1, <3>1, <4>1, LexOrder
      <4>3. WordOf(j) < w
        BY <1>1, <1>7, <4>1, <4>2
      <4>. QED
        BY <2>1, <2>3, <4>1, <4>3
    <3>2. LastBelow(SetTicks(x), i) = NONE
      BY <3>1 DEF LastBelow
    <3>. QED
      BY <1>2, <1>7, <2>3, <3>2
  <2>. QED
    BY <2>2, <2>3
<1>. QED
  BY <1>5, <1>6, <1>7

-----------------------------------------------------------------------------
\* Setting a bit adds its tick to the index, and nothing else.
LEMMA SetBitTicks ==
  ASSUME NEW x, Sound(x), NEW i \in Ticks
  PROVE  SetTicks(SetBit(x, i)) = SetTicks(x) \cup {i}
<1>1. x.word \in [WordIdx -> SUBSET Bits]
  BY TicksByWord
<1>2. WordOf(i) \in WordIdx /\ BitOf(i) \in Bits
  BY Sizes
<1>3. SetBit(x, i).word = [x.word EXCEPT ![WordOf(i)] = @ \cup {BitOf(i)}]
  BY DEF SetBit
<1>4. ASSUME NEW j \in Ticks
      PROVE  BitOf(j) \in SetBit(x, i).word[WordOf(j)] <=> BitOf(j) \in x.word[WordOf(j)] \/ j = i
  <2>1. WordOf(j) \in WordIdx /\ j \in Nat /\ i \in Nat
    BY Sizes
  <2>2. CASE WordOf(j) = WordOf(i)
    <3>1. BitOf(j) = BitOf(i) => j = i
      BY <2>1, <2>2, SameParts
    <3>. QED
      BY <1>1, <1>2, <1>3, <2>1, <2>2, <3>1
  <2>3. CASE WordOf(j) # WordOf(i)
    BY <1>1, <1>2, <1>3, <2>1, <2>3
  <2>. QED
    BY <2>2, <2>3
<1>. QED
  BY <1>4 DEF SetTicks

\* Clearing a bit takes its tick out of the index, and nothing else.
LEMMA ClearBitTicks ==
  ASSUME NEW x, Sound(x), NEW i \in Ticks
  PROVE  SetTicks(ClearBit(x, i)) = SetTicks(x) \ {i}
<1>1. x.word \in [WordIdx -> SUBSET Bits]
  BY TicksByWord
<1>2. WordOf(i) \in WordIdx /\ BitOf(i) \in Bits
  BY Sizes
<1>3. ClearBit(x, i).word = [x.word EXCEPT ![WordOf(i)] = @ \ {BitOf(i)}]
  BY DEF ClearBit
<1>4. ASSUME NEW j \in Ticks
      PROVE  BitOf(j) \in ClearBit(x, i).word[WordOf(j)] <=> BitOf(j) \in x.word[WordOf(j)] /\ j # i
  <2>1. WordOf(j) \in WordIdx /\ j \in Nat /\ i \in Nat
    BY Sizes
  <2>2. CASE WordOf(j) = WordOf(i)
    <3>1. BitOf(j) = BitOf(i) => j = i
      BY <2>1, <2>2, SameParts
    <3>. QED
      BY <1>1, <1>2, <1>3, <2>1, <2>2, <3>1
  <2>3. CASE WordOf(j) # WordOf(i)
    BY <1>1, <1>2, <1>3, <2>1, <2>3
  <2>. QED
    BY <2>2, <2>3
<1>. QED
  BY <1>4 DEF SetTicks
=============================================================================
