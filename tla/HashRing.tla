-------------------------------- MODULE HashRing --------------------------------
(***************************************************************************)
(* The Map of one HTTPPool as peers are added to it, in any order and with *)
(* any hashes: points of peers, or of one peer, may coincide.              *)
(***************************************************************************)
EXTENDS ConsistentHash

CONSTANTS
  RingPeers, Replicas,
  MaxPoint      \* bound: the greatest hash

Points == [1..Replicas -> 0..MaxPoint]
Hashes == 0..MaxPoint

VARIABLES
  peers,        \* HTTPPool.peers
  order,        \* history: the peers added, in order
  points        \* history: points[p], the points p was added with

ringVars == <<peers, order, points>>

Added == {order[i] : i \in DOMAIN order}

Init == peers = New /\ order = <<>> /\ points = [p \in RingPeers |-> <<>>]

AddPeer(p, hashes) ==
  /\ p \notin Added
  /\ peers' = Add(peers, p, hashes)
  /\ order' = Append(order, p)
  /\ points' = [points EXCEPT ![p] = hashes]

(* HTTPPool.Set begins with a new Map.                                      *)
Anew ==
  /\ order # <<>>
  /\ peers' = New /\ order' = <<>> /\ points' = [p \in RingPeers |-> <<>>]

Next == (\E p \in RingPeers, hashes \in Points : AddPeer(p, hashes)) \/ Anew

Spec == Init /\ [][Next]_ringVars

-----------------------------------------------------------------------------
(* The point a key belongs to: the next one clockwise, and past the end of  *)
(* the ring the first.                                                      *)
Clockwise(S, hash) ==
  LET behind == {x \in S : x >= hash}
      least(T) == CHOOSE x \in T : \A y \in T : x <= y
  IN  IF behind # {} THEN least(behind) ELSE least(S)

PointsOf(p) == {points[p][r] : r \in DOMAIN points[p]}

(* The binary search over the sorted hashes, with its remainder for the     *)
(* wrap-around (consistenthash.go:57-61), finds the peer that was given the *)
(* next point clockwise, last if several were.                              *)
NextClockwise ==
  order # <<>> => \A hash \in Hashes :
    LET point == Clockwise(UNION {PointsOf(p) : p \in Added}, hash)
        has == {i \in DOMAIN order : point \in PointsOf(order[i])}
    IN  \E i \in has : Get(peers, hash) = order[i] /\ \A j \in has : j <= i

(* A peer that is added takes keys over, and no key moves between the       *)
(* others: what consistent hashing is for (consistenthash.go:38-48).        *)
OthersKeep ==
  [][Len(order') > Len(order) =>
       \A hash \in Hashes : Get(peers', hash) \in {Get(peers, hash), order'[Len(order')]}]_ringVars

(* The processes of the program set their peers in the order of a Go map,   *)
(* another one in each (main.go:69-72).  Whatever the order, a key has the  *)
(* same owner, unless its point is one of several peers.                    *)
Orderings == {s \in [DOMAIN order -> Added] : \A p \in Added : \E i \in DOMAIN s : s[i] = p}
OrderIrrelevant ==
  order # <<>> => \A s \in Orderings, hash \in Hashes :
    LET point == Clockwise(UNION {PointsOf(p) : p \in Added}, hash) IN
    (\A p, q \in Added : point \in PointsOf(p) /\ point \in PointsOf(q) => p = q)
      => Get(Ring(s, points), hash) = Get(peers, hash)
===============================================================================
