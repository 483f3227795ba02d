--------------------------- MODULE PriceIndexBits ---------------------------
(***************************************************************************)
(* The uint64_t arithmetic behind PriceIndex, at the width of WordBits: a  *)
(* word is a number, shifts drop what leaves the word, ~ is the complement *)
(* at that width.  The arrays of machine words are updated in lock step    *)
(* with the sets of bits PriceIndex takes them for, and the scans the code *)
(* computes from them are compared with ScanUp and ScanDown.               *)
(***************************************************************************)
EXTENDS PriceIndexSpec, Bitwise

CONSTANT UsedTicks   \* bound: the ticks whose levels fill and empty

VARIABLES
  bitset,       \* asks_bitset_ or bids_bitset_
  summary       \* asks_summary_ or bids_summary_

machineVars == <<ix, bitset, summary>>

Modulus == 2 ^ WordBits
Shl(x, n) == (x * 2 ^ n) % Modulus
Complement(x) == Modulus - 1 - x

\* The view of a word as the set of its bits.
BitsOf(x) == {b \in Bits : (x \div 2 ^ b) % 2 = 1}

(***************************************************************************)
(* The masks of the scans: ~((1 << k) - 1), ~((((1 << k) - 1) << 1) | 1)   *)
(* and (1 << k) - 1.                                                       *)
(***************************************************************************)
FromMask(k) == Complement(Shl(1, k) - 1)

\* Mutant of AboveMask: ~((1 << (k + 1)) - 1), where the machine takes the
\* shift count modulo the width.
AboveMaskShifts(k) == Complement(Shl(1, (k + 1) % WordBits) - 1)

AboveMask(k) == Complement(Shl(Shl(1, k) - 1, 1) | 1)
BelowMask(k) == Shl(1, k) - 1

(***************************************************************************)
(* std::countr_zero and std::countl_zero of a word that is not zero.       *)
(***************************************************************************)
CountrZero(x) == Max({n \in 0 .. WordBits : x % 2 ^ n = 0})
CountlZero(x) == Min({n \in Bits : x >= 2 ^ (WordBits - 1 - n)})

\* Mutant of TopBitIndex: the number of bits instead of the last bit's position.
TopBitIndexPastEnd == WordBits

TopBitIndex == WordBits - 1

(***************************************************************************)
(* word |= 1 << k and word &= ~(1 << k).                                   *)
(***************************************************************************)
SetMask(x, k) == x | Shl(1, k)

\* Mutant of ClearMask: the complement is left out.
ClearMaskKeepsOnly(x, k) == x & Shl(1, k)

ClearMask(x, k) == x & Complement(Shl(1, k))

MachineInit ==
  /\ Init
  /\ bitset = [w \in 0 .. BitsetWords - 1 |-> 0]
  /\ summary = [s \in 0 .. SummaryWords - 1 |-> 0]

MachineSet(i) ==
  /\ ix' = SetBit(ix, i)
  /\ bitset' = [bitset EXCEPT ![WordOf(i)] = SetMask(@, BitOf(i))]
  /\ summary' = [summary EXCEPT ![WordOf(WordOf(i))] = SetMask(@, BitOf(WordOf(i)))]

MachineClear(i) ==
  /\ ix' = ClearBit(ix, i)
  /\ bitset' = [bitset EXCEPT ![WordOf(i)] = ClearMask(@, BitOf(i))]
  /\ summary' = IF bitset'[WordOf(i)] = 0
                THEN [summary EXCEPT ![WordOf(WordOf(i))] = ClearMask(@, BitOf(WordOf(i)))]
                ELSE summary

MachineNext ==
  \/ \E i \in UsedTicks \ SetTicks(ix) : MachineSet(i)
  \/ \E i \in UsedTicks \cap SetTicks(ix) : MachineClear(i)

MachineSpec == MachineInit /\ [][MachineNext]_machineVars

-----------------------------------------------------------------------------
(***************************************************************************)
(* The scans as the code computes them.                                    *)
(***************************************************************************)
LowestBit(w) == w * WordBits + CountrZero(bitset[w])
HighestBit(w) == w * WordBits + TopBitIndex - CountlZero(bitset[w])

MachineScanUp(i) ==
  LET w == WordOf(i)
      s == WordOf(w)
      word == bitset[w] & FromMask(BitOf(i))
      summary_word == summary[s] & AboveMask(BitOf(w))
      rest == {t \in s + 1 .. SummaryWords - 1 : summary[t] # 0}
  IN  IF word # 0 THEN w * WordBits + CountrZero(word)
      ELSE IF summary_word # 0 THEN LowestBit(s * WordBits + CountrZero(summary_word))
      ELSE IF rest # {} THEN LowestBit(Min(rest) * WordBits + CountrZero(summary[Min(rest)]))
      ELSE NONE

MachineScanDown(i) ==
  LET w == WordOf(i)
      s == WordOf(w)
      word == bitset[w] & BelowMask(BitOf(i))
      summary_word == summary[s] & BelowMask(BitOf(w))
      rest == {t \in 0 .. s - 1 : summary[t] # 0}
      top(x) == TopBitIndex - CountlZero(x)
  IN  IF word # 0 THEN w * WordBits + top(word)
      ELSE IF summary_word # 0 THEN HighestBit(s * WordBits + top(summary_word))
      ELSE IF rest # {} THEN HighestBit(Max(rest) * WordBits + top(summary[Max(rest)]))
      ELSE NONE

(***************************************************************************)
(* After any sequence of |= and &= ~ on the two levels of words, each      *)
(* machine word holds the bits of its set.                                 *)
(***************************************************************************)
MachineWordsAgree ==
  /\ \A w \in DOMAIN bitset : BitsOf(bitset[w]) = ix.word[w]
  /\ \A s \in DOMAIN summary : BitsOf(summary[s]) = ix.summary[s]

(***************************************************************************)
(* From every tick the code's masks and std::countr_zero find what ScanUp  *)
(* finds, also when the word just searched is the last of its summary word *)
(* (where a mask by a shift of k + 1 would be undefined).                  *)
(***************************************************************************)
MachineScanUpAgrees == \A i \in Ticks : MachineScanUp(i) = ScanUp(ix, i)

(***************************************************************************)
(* From every tick the code's masks and std::countl_zero find what         *)
(* ScanDown finds, through kTopBitIndex at every level.                    *)
(***************************************************************************)
MachineScanDownAgrees == \A i \in Ticks : MachineScanDown(i) = ScanDown(ix, i)
=============================================================================
