--------------------------------- MODULE Node ---------------------------------
(***************************************************************************)
(* The two data structures of a geecache node, its cache and its hash ring.*)
(* They share nothing: the cache is used under the mutex of cache, the ring*)
(* under that of HTTPPool (http.go:31, cache.go:9).                          *)
(***************************************************************************)
EXTENDS Lru

CONSTANTS RingPeers, Replicas, MaxPoint
ASSUME RingAssumption ==
  /\ Replicas \in Nat \ {0}   \* 50 in the code (http.go:22): without points Get finds nobody
  /\ MaxPoint \in Nat

VARIABLES peers, order, points
Ring == INSTANCE HashRing

nodeVars == <<vars, Ring!ringVars>>

NodeInit == Init /\ Ring!Init
NodeNext ==
  \/ Next /\ UNCHANGED <<peers, order, points>>
  \/ Ring!Next /\ UNCHANGED vars
NodeSpec == NodeInit /\ [][NodeNext]_nodeVars

(* A key belongs to the peer with the next point clockwise.                 *)
NextClockwise == Ring!NextClockwise
(* A peer that is added takes keys over, and no key moves between the       *)
(* others.                                                                  *)
OthersKeep == Ring!OthersKeep
(* In whatever order the peers are set, a key whose point is one peer's     *)
(* belongs to the same peer.                                                *)
OrderIrrelevant == Ring!OrderIrrelevant
===============================================================================
