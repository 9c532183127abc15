------------------------------ MODULE MCGeeCache ------------------------------
(* Two nodes, each with its ring.  The program sets the peers in the order   *)
(* of a Go map (main.go:69-72), another one in each process, and the two     *)
(* peers have a point in common.  So the nodes agree on the owner of         *)
(* `agreed' and not on that of `disputed', for which each sends the other    *)
(* the request.  `spaced' is a key with a space, which arrives as `agreed'.  *)
EXTENDS GeeCache, ConsistentHash, TLC
CONSTANTS n1, n2, agreed, disputed, spaced
NodesDef == {n1, n2}
KeysDef == {agreed, disputed, spaced}
OwnerDef == [n \in NodesDef |->
              [k \in KeysDef |-> IF k = disputed /\ n = n1 THEN n2 ELSE n1]]
ReceivedDef == [k \in KeysDef |-> IF k = spaced THEN agreed ELSE k]

PointsDef == n1 :> <<1, 5>> @@ n2 :> <<5, 7>>
HashDef == agreed :> 0 @@ disputed :> 3 @@ spaced :> 0
OrderDef == n1 :> <<n1, n2>> @@ n2 :> <<n2, n1>>
ASSUME OwnersByRing ==
  OwnerDef = [n \in NodesDef |-> [k \in KeysDef |-> Get(Ring(OrderDef[n], PointsDef), HashDef[k])]]
===============================================================================
