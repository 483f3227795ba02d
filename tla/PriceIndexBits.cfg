\* Twenty ticks in words of three bits: seven bitset words, three summary words,
\* the last of each partly used.  Eleven of the ticks fill and empty: both ends and
\* the middle of a word, words that stay empty, and both ends of the array.
CONSTANTS
  MinPrice = 1
  MaxPrice = 20
  WordBits = 3
  UsedTicks = {0, 1, 2, 4, 6, 8, 10, 16, 17, 18, 19}
SPECIFICATION MachineSpec
INVARIANTS
  SummaryExact
  ScanUpExact
  ScanDownExact
  MachineWordsAgree
  MachineScanUpAgrees
  MachineScanDownAgrees
