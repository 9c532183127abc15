---------------------------- MODULE ConsistentHash ----------------------------
(***************************************************************************)
(* The hash ring by which a geecache node picks the peer that owns a key   *)
(* (geecache/consistenthash/consistenthash.go).  A peer has a sequence of  *)
(* points, the hashes of its virtual nodes "0peer", "1peer", ...; a key is *)
(* its hash.                                                               *)
(***************************************************************************)
EXTENDS Naturals, Sequences

New == [keys |-> <<>>, hashmap |-> [x \in {} |-> x]]

Appended(s, x) == Append(s, x)
(* append and then sort.Ints: x comes behind what is not greater.           *)
Inserted(s, x) ==
  LET k == CHOOSE n \in 0..Len(s) : \A i \in DOMAIN s : s[i] <= x <=> i <= n IN
  SubSeq(s, 1, k) \o <<x>> \o SubSeq(s, k + 1, Len(s))

AddPoint(m, x, peer) ==
  [keys |-> Inserted(m.keys, x),
   hashmap |-> [y \in DOMAIN m.hashmap \cup {x} |-> IF y = x THEN peer ELSE m.hashmap[y]]]

Add(m, peer, points) ==
  LET f[i \in 0..Len(points)] == IF i = 0 THEN m ELSE AddPoint(f[i - 1], points[i], peer)
  IN  f[Len(points)]

(* HTTPPool.Set: a new ring, and the peers in the order they are given.     *)
Ring(peers, points) ==
  LET f[i \in 0..Len(peers)] == IF i = 0 THEN New ELSE Add(f[i - 1], peers[i], points[peers[i]])
  IN  f[Len(peers)]

(* sort.Search: the binary search for the first index, from 0, that holds   *)
(* hash or more.  A turn of its loop halves what is between i and j; with   *)
(* i = j it has ended, after Len(keys) turns at the latest.                 *)
HalvedAbove(keys, hash, r) ==
  LET h == (r.i + r.j) \div 2 IN
  IF keys[h + 1] <= hash THEN [r EXCEPT !.i = h + 1] ELSE [r EXCEPT !.j = h]
Halved(keys, hash, r) ==
  LET h == (r.i + r.j) \div 2 IN
  IF keys[h + 1] < hash THEN [r EXCEPT !.i = h + 1] ELSE [r EXCEPT !.j = h]
Search(keys, hash) ==
  LET turns[t \in 0..Len(keys)] ==
        IF t = 0 THEN [i |-> 0, j |-> Len(keys)]
        ELSE LET r == turns[t - 1] IN IF r.i = r.j THEN r ELSE Halved(keys, hash, r)
  IN  turns[Len(keys)].i

Get(m, hash) ==
  IF m.keys = <<>> THEN "" ELSE m.hashmap[m.keys[(Search(m.keys, hash) % Len(m.keys)) + 1]]

===============================================================================
