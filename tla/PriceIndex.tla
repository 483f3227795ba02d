----------------------------- MODULE PriceIndex -----------------------------
(***************************************************************************)
(* The two-level bitset of src/OrderBook.h that finds the next occupied    *)
(* price level: one bit per tick in the bitset words, one bit per bitset   *)
(* word in the summary words.  A machine word is the set of its bit        *)
(* positions that are 1, so a mask is a set too (PriceIndexBits checks the *)
(* mask arithmetic against this view).                                     *)
(*                                                                         *)
(* An index ix is a record with the bitset words and the summary words of  *)
(* one side of the book.                                                   *)
(***************************************************************************)
EXTENDS Integers, FiniteSetsExt

CONSTANTS
  MinPrice, MaxPrice,   \* min_price_ and max_price_
  WordBits              \* detail::kWordBits, 64 in the code

(***************************************************************************)
(* The constructor aborts when min_price > max_price.                      *)
(***************************************************************************)
ASSUME PriceAssumption ==
  /\ MinPrice \in Nat
  /\ MaxPrice \in Nat
  /\ MinPrice <= MaxPrice
  /\ WordBits \in Nat \ {0}

PriceRange == MaxPrice - MinPrice + 1
Ticks == 0 .. PriceRange - 1                 \* indices of the price levels
Bits == 0 .. WordBits - 1
BitsetWords == (PriceRange + WordBits - 1) \div WordBits
SummaryWords == (BitsetWords + WordBits - 1) \div WordBits

WordOf(i) == i \div WordBits
BitOf(i) == i % WordBits

\* No index: the side is empty.
NONE == -1

IndexType == [word : [0 .. BitsetWords - 1 -> SUBSET Bits],
              summary : [0 .. SummaryWords - 1 -> SUBSET Bits]]

EmptyIndex == [word |-> [w \in 0 .. BitsetWords - 1 |-> {}],
               summary |-> [s \in 0 .. SummaryWords - 1 |-> {}]]

(***************************************************************************)
(* A level became non-empty: its bit and its word's summary bit are set.   *)
(***************************************************************************)
SetBit(ix, i) ==
  [word |-> [ix.word EXCEPT ![WordOf(i)] = @ \cup {BitOf(i)}],
   summary |-> [ix.summary EXCEPT ![WordOf(WordOf(i))] = @ \cup {BitOf(WordOf(i))}]]

\* Mutant of ClearBit: the summary bit of an emptied word stays set.
ClearBitKeepsSummary(ix, i) ==
  [ix EXCEPT !.word[WordOf(i)] = @ \ {BitOf(i)}]

(***************************************************************************)
(* A level became empty: its bit is cleared, and its word's summary bit    *)
(* only when the word is now zero.                                         *)
(***************************************************************************)
ClearBit(ix, i) ==
  LET word == [ix.word EXCEPT ![WordOf(i)] = @ \ {BitOf(i)}]
  IN  [word |-> word,
       summary |-> IF word[WordOf(i)] = {}
                   THEN [ix.summary EXCEPT ![WordOf(WordOf(i))] = @ \ {BitOf(WordOf(i))}]
                   ELSE ix.summary]

-----------------------------------------------------------------------------
(***************************************************************************)
(* The tick of the lowest (std::countr_zero) and of the highest            *)
(* (kTopBitIndex - std::countl_zero) bit of word w.                        *)
(***************************************************************************)
LowestIn(ix, w) == w * WordBits + Min(ix.word[w])
HighestIn(ix, w) == w * WordBits + Max(ix.word[w])

\* Mutant of ScanUp: the summary mask keeps the bit of the word just searched.
ScanUpRevisits(ix, i) ==
  LET w == WordOf(i)
      s == WordOf(w)
      here == {b \in ix.word[w] : b >= BitOf(i)}
      later == {b \in ix.summary[s] : b >= BitOf(w)}
      rest == {t \in s + 1 .. SummaryWords - 1 : ix.summary[t] # {}}
  IN  IF here # {} THEN w * WordBits + Min(here)
      ELSE IF later # {} THEN LowestIn(ix, s * WordBits + Min(later))
      ELSE IF rest # {} THEN LowestIn(ix, Min(rest) * WordBits + Min(ix.summary[Min(rest)]))
      ELSE NONE

(***************************************************************************)
(* The ask side's scan: the rest of the word of tick i, then the later     *)
(* words under the same summary word, then the later summary words.        *)
(***************************************************************************)
ScanUp(ix, i) ==
  LET w == WordOf(i)
      s == WordOf(w)
      here == {b \in ix.word[w] : b >= BitOf(i)}
      later == {b \in ix.summary[s] : b > BitOf(w)}
      rest == {t \in s + 1 .. SummaryWords - 1 : ix.summary[t] # {}}
  IN  IF here # {} THEN w * WordBits + Min(here)
      ELSE IF later # {} THEN LowestIn(ix, s * WordBits + Min(later))
      ELSE IF rest # {} THEN LowestIn(ix, Min(rest) * WordBits + Min(ix.summary[Min(rest)]))
      ELSE NONE

\* Mutant of ScanDown: the loop over the summary words stops before word 0.
ScanDownStopsEarly(ix, i) ==
  LET w == WordOf(i)
      s == WordOf(w)
      here == {b \in ix.word[w] : b < BitOf(i)}
      earlier == {b \in ix.summary[s] : b < BitOf(w)}
      rest == {t \in 1 .. s - 1 : ix.summary[t] # {}}
  IN  IF here # {} THEN w * WordBits + Max(here)
      ELSE IF earlier # {} THEN HighestIn(ix, s * WordBits + Max(earlier))
      ELSE IF rest # {} THEN HighestIn(ix, Max(rest) * WordBits + Max(ix.summary[Max(rest)]))
      ELSE NONE

(***************************************************************************)
(* The bid side's scan, downwards and excluding tick i itself.             *)
(***************************************************************************)
ScanDown(ix, i) ==
  LET w == WordOf(i)
      s == WordOf(w)
      here == {b \in ix.word[w] : b < BitOf(i)}
      earlier == {b \in ix.summary[s] : b < BitOf(w)}
      rest == {t \in 0 .. s - 1 : ix.summary[t] # {}}
  IN  IF here # {} THEN w * WordBits + Max(here)
      ELSE IF earlier # {} THEN HighestIn(ix, s * WordBits + Max(earlier))
      ELSE IF rest # {} THEN HighestIn(ix, Max(rest) * WordBits + Max(ix.summary[Max(rest)]))
      ELSE NONE

-----------------------------------------------------------------------------
(***************************************************************************)
(* What the scans are for, without words: the ticks whose bit is set, the  *)
(* first of them at or above i and the last of them below i.               *)
(***************************************************************************)
SetTicks(ix) == {i \in Ticks : BitOf(i) \in ix.word[WordOf(i)]}

FirstFrom(S, i) ==
  IF \E j \in S : j >= i THEN Min({j \in S : j >= i}) ELSE NONE

LastBelow(S, i) ==
  IF \E j \in S : j < i THEN Max({j \in S : j < i}) ELSE NONE

(***************************************************************************)
(* validate_book's check 5b: a summary bit is set exactly when its bitset  *)
(* word is not zero.                                                       *)
(***************************************************************************)
SummaryMatches(ix) ==
  \A w \in 0 .. BitsetWords - 1 :
    BitOf(w) \in ix.summary[WordOf(w)] <=> ix.word[w] # {}
=============================================================================
