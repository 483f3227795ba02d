---------------------------- MODULE MCEntryGate ----------------------------
(***************************************************************************)
(* EntryGate for TLC, with the journal's mask as the bits it is.           *)
(***************************************************************************)
EXTENDS EntryGate, Bitwise

(***************************************************************************)
(* pos_ & mask_ is the position modulo the capacity, and stays inside the  *)
(* ring, for every capacity the constructor is asked for.                  *)
(***************************************************************************)
MaskIsModulo ==
  /\ mask + 1 = capacity
  /\ \A p \in 0 .. MaxRecords : p & mask = Index(p)
=============================================================================
