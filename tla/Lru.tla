--------------------------------- MODULE Lru ---------------------------------
(***************************************************************************)
(* lru.Cache (geecache/geecache/lru/lru.go), the store of one geecache      *)
(* node.  Every use goes through cache.add and cache.get (geecache/cache.go)*)
(* under one mutex, so an operation is one step, the loop that evicts       *)
(* included.  The doubly linked list is a sequence, most recent first; the  *)
(* map from keys to list elements is the set of its keys, the element of a  *)
(* key being found by the key it carries.                                   *)
(***************************************************************************)
EXTENDS Integers, Sequences, SequencesExt

CONSTANTS
  Keys, Values,
  KeyLen,     \* len(key)
  ValueLen,   \* Value.Len()
  Limits      \* the values of maxBytes New is called with, 0 for no limit

ASSUME LenAssumption == KeyLen \in [Keys -> Nat] /\ ValueLen \in [Values -> Nat]
ASSUME LimitsAssumption == Limits \subseteq Nat   \* below 0 the loop of Add never ends

VARIABLES
  lru,      \* the Cache: maxBytes, nbytes, ll, index (the map), and what OnEvicted was given
  recent,   \* history: every entry ever added with its last value, last used first
  op        \* history: the last operation

vars == <<lru, recent, op>>

Entry == [key : Keys, value : Values]
Size(e) == KeyLen[e.key] + ValueLen[e.value]
Bytes(ll) ==
  LET sum[n \in 0..Len(ll)] == IF n = 0 THEN 0 ELSE sum[n - 1] + Size(ll[n])
  IN sum[Len(ll)]

Caches ==
  [maxBytes : Limits, nbytes : Nat, ll : Seq(Entry), index : SUBSET Keys, evicted : Seq(Entry)]

TypeOK ==
  /\ lru \in Caches
  /\ recent \in Seq(Entry)
  /\ op \in {"new", "get", "add", "removeOldest"}

-----------------------------------------------------------------------------
(* Operators of the list and the map.                                       *)

KeysOf(ll) == {ll[i].key : i \in 1..Len(ll)}
OneEach(ll) == \A i, j \in 1..Len(ll) : ll[i].key = ll[j].key => i = j
IndexOf(ll, k) == CHOOSE i \in 1..Len(ll) : ll[i].key = k
EntryOf(ll, k) == ll[IndexOf(ll, k)]
Others(ll, k) == IF k \in KeysOf(ll) THEN RemoveAt(ll, IndexOf(ll, k)) ELSE ll
ToFront(ll, e) == <<e>> \o Others(ll, e.key)

LookedUpOnly(c, k) == c
Used(c, k) == [c EXCEPT !.ll = ToFront(c.ll, EntryOf(c.ll, k))]

(* RemoveOldest: the last element leaves the list and the map, its bytes    *)
(* are given back, OnEvicted is told.                                       *)
EntryLeft(c, e) == c.index
EntryDeleted(c, e) == c.index \ {e.key}
RemoveOldest(c) ==
  IF c.ll = <<>> THEN c
  ELSE LET kv == Last(c.ll)
       IN [c EXCEPT !.ll = Front(c.ll), !.index = EntryDeleted(c, kv),
                    !.nbytes = @ - Size(kv), !.evicted = Append(@, kv)]

(* Add before its loop: an entry for k is updated and moved, or pushed.     *)
Growth(c, e) ==
  IF e.key \in c.index
  THEN ValueLen[e.value] - ValueLen[EntryOf(c.ll, e.key).value]
  ELSE Size(e)
ValueKept(c, e) == IF e.key \in c.index THEN EntryOf(c.ll, e.key) ELSE e
NewValue(c, e) == e
Inserted(c, e) ==
  [c EXCEPT !.ll = ToFront(c.ll, NewValue(c, e)), !.index = c.index \cup {e.key},
            !.nbytes = c.nbytes + Growth(c, e)]

AtLimit(c) == c.maxBytes # 0 /\ c.maxBytes <= c.nbytes
OverLimit(c) == c.maxBytes # 0 /\ c.maxBytes < c.nbytes

(* The loop of Add: RemoveOldest while the limit is exceeded.               *)
EvictedOnce(c) == IF OverLimit(c) THEN RemoveOldest(c) ELSE c
Evictions(c) ==
  LET after[n \in 0..Len(c.ll)] == IF n = 0 THEN c ELSE RemoveOldest(after[n - 1])
  IN after
Enough(c) == {n \in 0..Len(c.ll) : ~OverLimit(Evictions(c)[n])}
Evicted(c) == Evictions(c)[Min(Enough(c))]

-----------------------------------------------------------------------------
New(limit) == [maxBytes |-> limit, nbytes |-> 0, ll |-> <<>>, index |-> {}, evicted |-> <<>>]
Init == (\E limit \in Limits : lru = New(limit)) /\ recent = <<>> /\ op = "new"

Quiet == [lru EXCEPT !.evicted = <<>>]   \* the history of evictions starts anew

(* Get returns the value and moves the element to the front.                *)
Get(k) ==
  /\ IF k \in lru.index
     THEN lru' = Used(Quiet, k) /\ recent' = ToFront(recent, EntryOf(recent, k))
     ELSE lru' = Quiet /\ UNCHANGED recent
  /\ op' = "get"

Add(k, v) ==
  LET e == [key |-> k, value |-> v] IN
  /\ lru' = Evicted(Inserted(Quiet, e))
  /\ recent' = ToFront(recent, e)
  /\ op' = "add"

Drop ==
  /\ lru' = RemoveOldest(Quiet)
  /\ op' = "removeOldest"
  /\ UNCHANGED recent

Next ==
  \/ \E k \in Keys : Get(k)
  \/ \E k \in Keys, v \in Values : Add(k, v)
  \/ Drop

Spec == Init /\ [][Next]_vars

-----------------------------------------------------------------------------
(* The three representations agree after any sequence of operations: the    *)
(* map holds the keys of the list, no key is in the list twice, and nbytes  *)
(* is the size of what is there (lru.go:53-58 and 72-82 keep it by          *)
(* differences).                                                            *)
Accounting ==
  /\ lru.index = KeysOf(lru.ll)
  /\ OneEach(lru.ll)
  /\ lru.nbytes = Bytes(lru.ll)

(* The limit holds after every operation, whatever the sizes: an update     *)
(* that grows an entry, or an entry larger than the whole cache, included   *)
(* (the loop at lru.go:84).                                                 *)
WithinLimit == lru.maxBytes # 0 => lru.nbytes <= lru.maxBytes

(* What is held is exactly the most recently used entries, in that order,   *)
(* with their last values: no entry is evicted before one that was used     *)
(* longer ago.                                                              *)
KeepsMostRecent == IsPrefix(lru.ll, recent)

(* Add evicts no entry that had room: with the last evicted one back the    *)
(* limit would be exceeded.                                                 *)
NoNeedlessEviction ==
  op = "add" /\ lru.evicted # <<>> =>
    /\ lru.maxBytes # 0
    /\ lru.nbytes + Size(Last(lru.evicted)) > lru.maxBytes

(* To its user the LRU cache is a Cache: a hit has the value added last.    *)
Store == [k \in lru.index |-> EntryOf(lru.ll, k).value]
Latest == [k \in KeysOf(recent) |-> EntryOf(recent, k).value]
Abstract == INSTANCE Cache WITH store <- Store, latest <- Latest
ImplementsCache == Abstract!Spec

-----------------------------------------------------------------------------
(* The inductive invariant behind these properties.                         *)
Inv ==
  /\ TypeOK /\ Accounting /\ WithinLimit /\ KeepsMostRecent /\ NoNeedlessEviction
  /\ OneEach(recent)
==============================================================================
