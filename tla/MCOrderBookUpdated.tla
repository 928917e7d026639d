-------------------------- MODULE MCOrderBookUpdated --------------------------
(* OrderBookUpdated on small instances: its cfg files give the constants. *)
EXTENDS OrderBookUpdated, TLC
=============================================================================
