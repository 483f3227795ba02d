---------------------------- MODULE MCOrderBook ----------------------------
(***************************************************************************)
(* OrderBook for TLC.                                                      *)
(***************************************************************************)
EXTENDS OrderBook
=============================================================================
