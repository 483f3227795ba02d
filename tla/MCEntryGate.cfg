\* The constructing thread and a foreign one; rings asked for 0, 3 and 4 entries
\* (one, two and four entries) and five records, so that each of them wraps.
CONSTANTS
  Requested = {0, 3, 4}
  Entries = {a, b}
  Blank = blank
  Writers = {owner, foreign}
  MaxRecords = 5
  Threads = {owner, foreign}
  Owner = owner
  MaxDepth = 2
SPECIFICATION GateSpec
INVARIANTS
  OwnerAlone
  LatchExact
  SkipHonoured
  WindowIsSuffix
  MaskIsModulo
PROPERTY KeepsJournalContract
\* The process ends when it aborts.
CHECK_DEADLOCK FALSE
