------------------------------ MODULE MCStream ------------------------------
(* Stream on small instances: its cfg files give the constants. *)
EXTENDS Stream, TLC
=============================================================================
