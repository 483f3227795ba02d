--------------------------- MODULE MCMemoryPool ---------------------------
(***************************************************************************)
(* MemoryPool for TLC: three slots, so that a chain has a middle, and one  *)
(* word (Capacity itself) that is neither a slot nor INVALID_INDEX.        *)
(***************************************************************************)
EXTENDS MemoryPool
=============================================================================
