\* The same arguments as MCBookConstruction.cfg, on hosts with little or enough memory.
CONSTANTS
  SizeModulus = 16
  IndexModulus = 8
  MaxPriceRange = 6
  WordBits = 2
  PageSize = 8
  Alignments = {0, 4}
  MaxBooks = 1
  Memory = {20, 200}
  Usual <- MCUsual
  Limits = {0, 6, 7, 15}
  Prices = {0, 5, 6, 7}
  Args <- MCArgs
SPECIFICATION ConstructionSpec
INVARIANT InvalidArgumentsDiagnosed
\* main() ends, or the process aborts.
CHECK_DEADLOCK FALSE
