------------------------------ MODULE MCRouter ------------------------------
(* Router with few hosts and calls: a call and those abandoned before it.     *)
EXTENDS Router
=============================================================================
