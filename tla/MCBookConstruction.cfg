\* Indices of three bits, sizes of four: limits below, at and above the id cap and
\* at the largest size_t; price ranges of one word, two summary words and over the
\* cap; a page of eight units with blocks at its start or in its middle.
CONSTANTS
  SizeModulus = 16
  IndexModulus = 8
  MaxPriceRange = 6
  WordBits = 2
  PageSize = 8
  Alignments = {0, 4}
  MaxBooks = 2
  Memory = {20, 200}
  Usual <- MCUsual
  Limits = {0, 6, 7, 15}
  Prices = {0, 5, 6, 7}
  Args <- MCArgs
SPECIFICATION ConstructionSpec
INVARIANTS
  RecapTrue
  DiesOnlyOfMemory
  PreTouchCovers
  IndicesInside
\* main() ends, or the process aborts.
CHECK_DEADLOCK FALSE
