----------------------- MODULE MCOrderBookRefinement -----------------------
(***************************************************************************)
(* OrderBookRefinement for TLC.                                            *)
(***************************************************************************)
EXTENDS OrderBookRefinement
=============================================================================
