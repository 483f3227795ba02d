------------------------ MODULE MCOrderBookJournal ------------------------
(***************************************************************************)
(* OrderBookJournal for TLC.                                               *)
(***************************************************************************)
EXTENDS OrderBookJournal
=============================================================================
