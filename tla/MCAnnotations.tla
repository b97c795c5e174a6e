--------------------------- MODULE MCAnnotations ---------------------------
(* Annotations on two files that share their last component, and so their    *)
(* backup; the agents are the built-in build and plan (explore and reviewer  *)
(* have plan's permissions), and one that leaves a tool without an entry.    *)
EXTENDS Annotations, TLC

CONSTANTS p1, p2, main

MCNameOf == p1 :> main @@ p2 :> main

MCPermissions ==
  [build |-> [write |-> "allow", str_replace |-> "allow", exec |-> "allow"],
   plan  |-> [write |-> "deny", str_replace |-> "deny", exec |-> "deny"],
   draft |-> [write |-> "ask", exec |-> "deny"]]
=============================================================================
