-------------------------------- MODULE Cache --------------------------------
(***************************************************************************)
(* What a cache promises to its user: a lookup that succeeds returns the   *)
(* value added last under that key, and any entry may be forgotten at any  *)
(* time.  Lru implements this specification, and GeeCache is built on the  *)
(* same operators (module Stores), so that nothing it promises depends on  *)
(* which entries are evicted.                                              *)
(***************************************************************************)
EXTENDS Stores

CONSTANTS Keys, Values

VARIABLES
  store,    \* the entries held now
  latest    \* history: the value added last under each key

Init == store = Empty /\ latest = Empty

Add ==
  \E k \in Keys, v \in Values :
    /\ store' \in Added(store, k, v)
    /\ latest' = Updated(latest, k, v)

Forget == store' \in Remains(store) /\ UNCHANGED latest

Next == Add \/ Forget
Spec == Init /\ [][Next]_<<store, latest>>
==============================================================================
