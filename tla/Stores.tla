-------------------------------- MODULE Stores --------------------------------
(* Stores of a cache: functions from some of the keys to values, of which    *)
(* any part may be forgotten.                                                *)
EXTENDS Functions

Empty == [k \in {} |-> {}]

Updated(s, k, v) == [x \in DOMAIN s \cup {k} |-> IF x = k THEN v ELSE s[x]]

(* What may be left of s when some of its entries have been forgotten.       *)
Remains(s) == {Restrict(s, kept) : kept \in SUBSET DOMAIN s}

(* What a cache holding s may hold once v has been added under k: even the   *)
(* entry just added need not have stayed.                                    *)
Added(s, k, v) == Remains(Updated(s, k, v))
===============================================================================
