------------------------- MODULE MCBookConstruction -------------------------
(***************************************************************************)
(* BookConstruction for TLC.                                               *)
(***************************************************************************)
EXTENDS BookConstruction

CONSTANTS
  Usual,    \* the arguments of an ordinary book
  Limits,   \* the order-id and pool limits a client may ask for instead
  Prices    \* the prices a client may ask for instead

\* The ordinary book with one limit, both limits (the three-argument constructor)
\* or the price range changed.
MCArgs ==
  {[Usual EXCEPT !.max_order_id = n] : n \in Limits}
  \cup {[Usual EXCEPT !.max_active_orders = n] : n \in Limits}
  \cup {[Usual EXCEPT !.max_order_id = n, !.max_active_orders = n] : n \in Limits}
  \cup {[Usual EXCEPT !.min_price = low, !.max_price = high] : low, high \in Prices}

MCUsual == [max_order_id |-> 2, max_active_orders |-> 2, min_price |-> 0, max_price |-> 5]
=============================================================================
