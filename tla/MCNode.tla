-------------------------------- MODULE MCNode --------------------------------
(* A node, with a behaviour that uses its cache or its ring, not both.      *)
(*                                                                          *)
(* Three keys and three values of different sizes: one entry, two entries   *)
(* and no entry at all can be what fits, and an update can grow or shrink.  *)
(* Three peers with two points each, on a ring of four.                     *)
EXTENDS Node, TLC
CONSTANTS k1, k2, k3, small, big, huge, n1, n2, n3
KeysDef == {k1, k2, k3}
ValuesDef == {small, big, huge}
KeyLenDef == k1 :> 1 @@ k2 :> 1 @@ k3 :> 2
ValueLenDef == small :> 1 @@ big :> 3 @@ huge :> 8
LimitsDef == {0, 7}

OneUsed == NodeNext /\ (order' = <<>> \/ op' = "new")
MCSpec == NodeInit /\ [][OneUsed]_nodeVars
===============================================================================
