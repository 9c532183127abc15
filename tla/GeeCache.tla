------------------------------- MODULE GeeCache -------------------------------
(***************************************************************************)
(* geecache: Group.Get on several nodes (geecache/geecache.go), with the   *)
(* single flight in front of every load (singleflight/singleflight.go) and *)
(* the HTTP requests between the nodes (http.go).                          *)
(*                                                                         *)
(* A goroutine is <<u, d>>: <<u, 0>> is a user's call of Group.Get, and    *)
(* <<u, d + 1>> the handler that serves, on another node, the request the  *)
(* load of <<u, d>> makes.  Each makes one Get and at most one load, so it *)
(* also names its singleflight.call.                                       *)
(*                                                                         *)
(* The critical sections of cache.mu, of singleflight's mu and of          *)
(* HTTPPool.mu never block and are one step each.  Eviction is Lru's: here *)
(* an addition may push out anything (Stores).  Keys are the non-empty     *)
(* ones: for the empty key Get returns at once (geecache.go:65).           *)
(***************************************************************************)
EXTENDS Naturals, Stores

CONSTANTS
  Nodes, Keys, Users,
  Versions,     \* what the source may hold under a key
  Owner,        \* Owner[n][k]: the peer the consistent hash of n picks for k
  Received,     \* Received[k]: the key ServeHTTP reads from the URL of a request for k
  MaxHops,      \* how many requests deep a load is followed
  None, Error   \* no node, key, call or result; the result of a failed Get

Goroutines == Users \X (0..MaxHops)
Values == [key : Keys, version : Versions]
Results == Values \cup {Error, None}

ASSUME OwnerAssumption == Owner \in [Nodes -> [Keys -> Nodes]]
(* A space in the path of the URL is written as + (http.go:106) and + is    *)
(* read as itself (http.go:59): only a key with a space arrives changed.    *)
ASSUME ReceivedAssumption ==
  Received \in [Keys -> Keys] /\ \A k \in Keys : Received[Received[k]] = Received[k]
ASSUME MaxHopsAssumption == MaxHops \in Nat
ASSUME NoneAssumption ==
  /\ None \notin Goroutines \cup Nodes \cup Keys \cup Values \cup {Error}
  /\ Error \notin Values

VARIABLES
  cache,        \* cache[n]: Group.mainCache on node n
  flights,      \* flights[n][k]: the singleflight.call for k on node n
  registered,   \* registered[n]: Group.peers is set on node n
  pc,           \* where a goroutine is
  at, key,      \* its node and its key
  val,          \* call.val and call.err of its call
  finished,     \* its call's wg.Done() has happened
  joined,       \* the call it found in flight and waits for
  result,       \* what its Group.Get returned
  fellBack      \* history: fellBack[n][k], n loaded k itself, not its owner

cacheVars == <<cache, registered, fellBack>>
callVars == <<val, finished, joined, result>>
vars == <<cache, flights, registered, fellBack, pc, at, key, val, finished, joined, result>>

(* InFn: inside the function load gives to Do.                              *)
InFn == {"pick", "remote", "local", "populate"}
Leading == InFn \cup {"done", "delete"}
Labels == {"idle", "get", "do", "wait", "returned"} \cup Leading

TypeOK ==
  /\ DOMAIN cache = Nodes
  /\ \A n \in Nodes : /\ DOMAIN cache[n] \subseteq Keys
                      /\ \A k \in DOMAIN cache[n] : cache[n][k] \in Values
  /\ flights \in [Nodes -> [Keys -> Goroutines \cup {None}]]
  /\ registered \in [Nodes -> BOOLEAN]
  /\ fellBack \in [Nodes -> [Keys -> BOOLEAN]]
  /\ pc \in [Goroutines -> Labels]
  /\ at \in [Goroutines -> Nodes \cup {None}]
  /\ key \in [Goroutines -> Keys \cup {None}]
  /\ val \in [Goroutines -> Results]
  /\ finished \in [Goroutines -> BOOLEAN]
  /\ joined \in [Goroutines -> Goroutines \cup {None}]
  /\ result \in [Goroutines -> Results]
  /\ \A g \in Goroutines : pc[g] # "idle" => at[g] \in Nodes /\ key[g] \in Keys

-----------------------------------------------------------------------------
Init ==
  /\ cache = [n \in Nodes |-> Empty]
  /\ flights = [n \in Nodes |-> [k \in Keys |-> None]]
  /\ registered = [n \in Nodes |-> FALSE]
  /\ fellBack = [n \in Nodes |-> [k \in Keys |-> FALSE]]
  /\ pc = [g \in Goroutines |-> "idle"]
  /\ at = [g \in Goroutines |-> None]
  /\ key = [g \in Goroutines |-> None]
  /\ val = [g \in Goroutines |-> None]
  /\ finished = [g \in Goroutines |-> FALSE]
  /\ joined = [g \in Goroutines |-> None]
  /\ result = [g \in Goroutines |-> None]

Goto(g, label) == pc' = [pc EXCEPT ![g] = label]
Start(g, n, k) == /\ pc[g] = "idle"
                  /\ at' = [at EXCEPT ![g] = n]
                  /\ key' = [key EXCEPT ![g] = k]
                  /\ Goto(g, "get")

(* Group.Get returns r to goroutine g.                                      *)
Return(g, r) == result' = [result EXCEPT ![g] = r] /\ Goto(g, "returned")

(* The program sets the peers, then serves (main.go:89); users of the same  *)
(* node may be in Get by then (main.go:76).                                 *)
RegisterPeers(n) ==
  /\ ~registered[n]
  /\ registered' = [registered EXCEPT ![n] = TRUE]
  /\ UNCHANGED <<cache, fellBack, flights, pc, at, key, callVars>>

Request(u, n, k) ==
  /\ Start(<<u, 0>>, n, k)
  /\ UNCHANGED <<cacheVars, flights, callVars>>

(* Get: a hit returns, a miss goes on to load.                              *)
Hit(g) ==
  /\ pc[g] = "get" /\ key[g] \in DOMAIN cache[at[g]]
  /\ Return(g, cache[at[g]][key[g]])
  /\ UNCHANGED <<cacheVars, flights, at, key, val, finished, joined>>

Miss(g) ==
  /\ pc[g] = "get" /\ key[g] \notin DOMAIN cache[at[g]]
  /\ Goto(g, "do")
  /\ UNCHANGED <<cacheVars, flights, at, key, callVars>>

-----------------------------------------------------------------------------
(* singleflight.Group.Do.                                                   *)

InFlightOnNode(n, k) ==
  IF \E j \in Keys : flights[n][j] # None
  THEN flights[n][CHOOSE j \in Keys : flights[n][j] # None] ELSE None
NothingInFlight(n, k) == None
InFlight(n, k) == flights[n][k]

Join(g) ==
  /\ pc[g] = "do" /\ InFlight(at[g], key[g]) # None
  /\ joined' = [joined EXCEPT ![g] = InFlight(at[g], key[g])]
  /\ Goto(g, "wait")
  /\ UNCHANGED <<cacheVars, flights, at, key, val, finished, result>>

Lead(g) ==
  /\ pc[g] = "do" /\ InFlight(at[g], key[g]) = None
  /\ flights' = [flights EXCEPT ![at[g]][key[g]] = g]
  /\ Goto(g, "pick")
  /\ UNCHANGED <<cacheVars, at, key, callVars>>

NotAwaited(c) == TRUE
Finished(c) == finished[c]

(* wg.Wait, then the call's result.                                         *)
Wake(g) ==
  /\ pc[g] = "wait" /\ Finished(joined[g])
  /\ Return(g, val[joined[g]])
  /\ UNCHANGED <<cacheVars, flights, at, key, val, finished, joined>>

(* wg.Done; the call is still in the map.                                   *)
Done(g) ==
  /\ pc[g] = "done"
  /\ finished' = [finished EXCEPT ![g] = TRUE]
  /\ Goto(g, "delete")
  /\ UNCHANGED <<cacheVars, flights, at, key, val, joined, result>>

Deleted(n, k) == [flights EXCEPT ![n][k] = None]

Delete(g) ==
  /\ pc[g] = "delete"
  /\ flights' = Deleted(at[g], key[g])
  /\ Return(g, val[g])
  /\ UNCHANGED <<cacheVars, at, key, val, finished, joined>>

-----------------------------------------------------------------------------
(* The function load gives to Do.                                           *)

RemoteToSelf(n, k) == registered[n]
Remote(n, k) == registered[n] /\ Owner[n][k] # n

FallBack(g) ==
  /\ fellBack' = [fellBack EXCEPT ![at[g]][key[g]] = TRUE]
  /\ Goto(g, "local")

PickPeer(g) ==
  /\ pc[g] = "pick"
  /\ \/ /\ Remote(at[g], key[g])
        /\ Goto(g, "remote")
        /\ UNCHANGED fellBack
     \/ /\ ~registered[at[g]]
        /\ FallBack(g)
     \/ /\ registered[at[g]] /\ Owner[at[g]][key[g]] = at[g]
        /\ Goto(g, "local")
        /\ UNCHANGED fellBack
  /\ UNCHANGED <<cache, registered, flights, at, key, callVars>>

Handler(g) == <<g[1], g[2] + 1>>
Peer(g) == Owner[at[g]][key[g]]

(* The request arrives: ServeHTTP on the peer calls Get.                    *)
Serve(g) ==
  /\ pc[g] = "remote" /\ g[2] < MaxHops
  /\ registered[Peer(g)]
  /\ Start(Handler(g), Peer(g), Received[key[g]])
  /\ UNCHANGED <<cacheVars, flights, callVars>>

AlsoCached(n, k, v) == [cache EXCEPT ![n] = Updated(cache[n], k, v)]
OfPeer(n, k, v) == cache

(* ... and answers with the value: it is returned, not cached.              *)
Answered(g) ==
  /\ pc[g] = "remote" /\ g[2] < MaxHops
  /\ pc[Handler(g)] = "returned" /\ result[Handler(g)] # Error
  /\ val' = [val EXCEPT ![g] = result[Handler(g)]]
  /\ cache' = OfPeer(at[g], key[g], result[Handler(g)])
  /\ Goto(g, "done")
  /\ UNCHANGED <<registered, fellBack, flights, at, key, finished, joined, result>>

(* The peer answers with an error status, or nothing listens there.         *)
Refused(g) ==
  /\ pc[g] = "remote"
  /\ \/ /\ g[2] < MaxHops
        /\ pc[Handler(g)] = "returned" /\ result[Handler(g)] = Error
     \/ ~registered[Peer(g)]
  /\ FallBack(g)
  /\ UNCHANGED <<cache, registered, flights, at, key, callVars>>

(* The request or the answer is lost with its connection.  A handler that   *)
(* was started runs on.                                                     *)
Lost(g) ==
  /\ pc[g] = "remote"
  /\ FallBack(g)
  /\ UNCHANGED <<cache, registered, flights, at, key, callVars>>

(* getLocally: the user's Getter has the value or not.                      *)
Loaded(g) ==
  /\ pc[g] = "local"
  /\ \E v \in Versions : val' = [val EXCEPT ![g] = [key |-> key[g], version |-> v]]
  /\ Goto(g, "populate")
  /\ UNCHANGED <<cacheVars, flights, at, key, finished, joined, result>>

NotLoaded(g) ==
  /\ pc[g] = "local"
  /\ val' = [val EXCEPT ![g] = Error]
  /\ Goto(g, "done")
  /\ UNCHANGED <<cacheVars, flights, at, key, finished, joined, result>>

Populate(g) ==
  /\ pc[g] = "populate"
  /\ \E s \in Added(cache[at[g]], key[g], val[g]) : cache' = [cache EXCEPT ![at[g]] = s]
  /\ Goto(g, "done")
  /\ UNCHANGED <<registered, fellBack, flights, at, key, callVars>>

-----------------------------------------------------------------------------
(* The steps a goroutine takes by itself.                                   *)
Step(g) ==
  \/ Hit(g) \/ Miss(g)
  \/ Join(g) \/ Lead(g) \/ Wake(g) \/ Done(g) \/ Delete(g)
  \/ PickPeer(g) \/ Serve(g) \/ Answered(g) \/ Refused(g)
  \/ Loaded(g) \/ NotLoaded(g) \/ Populate(g)

(* Every goroutine has returned or has no request.                          *)
Ended ==
  /\ \A g \in Goroutines : pc[g] \in {"idle", "returned"}
  /\ \A u \in Users : pc[<<u, 0>>] = "returned"
  /\ UNCHANGED vars

Next ==
  \/ \E n \in Nodes : RegisterPeers(n)
  \/ \E u \in Users, n \in Nodes, k \in Keys : Request(u, n, k)
  \/ \E g \in Goroutines : Step(g) \/ Lost(g)
  \/ Ended

Spec == Init /\ [][Next]_vars

(* Goroutines are scheduled, the Getter returns, a node that is up serves,  *)
(* and every node gets to register its peers.  Nobody has to make a request *)
(* and no connection has to break.                                          *)
FairSpec ==
  /\ Spec
  /\ \A g \in Goroutines : WF_vars(Step(g))
  /\ \A n \in Nodes : WF_vars(RegisterPeers(n))

-----------------------------------------------------------------------------
(* However calls of Get interleave, on one node at most one goroutine is in *)
(* a load of a given key (singleflight.go:28-39).                           *)
SingleFlight ==
  \A g, h \in Goroutines :
    pc[g] \in InFn /\ pc[h] \in InFn /\ at[g] = at[h] /\ key[g] = key[h] => g = h

(* Who waited returns what the load it found came to, value or error, also  *)
(* when it joined after wg.Done and before the call left the map, and that  *)
(* load was for its own node and key.                                       *)
WaitersShare ==
  \A g \in Goroutines : pc[g] = "returned" /\ joined[g] # None =>
    /\ result[g] = val[joined[g]] /\ result[g] # None
    /\ at[joined[g]] = at[g] /\ key[joined[g]] = key[g]

(* A call that has returned is not in the map (singleflight.go:44): nobody  *)
(* is given a load that was over, delete and all, when it came.             *)
FlightsAreLive ==
  \A n \in Nodes, k \in Keys : flights[n][k] # None =>
    /\ pc[flights[n][k]] \in Leading
    /\ at[flights[n][k]] = n /\ key[flights[n][k]] = k

Plain(k) == Received[k] = k

(* A cache never holds the value of another key, and Get never returns one, *)
(* whichever way it came: cache, load, peer, or another goroutine's call.   *)
(* For Get this takes a key that requests carry unchanged.                  *)
OwnKey ==
  /\ \A g \in Goroutines :
       result[g] \in Values /\ Plain(key[g]) => result[g].key = key[g]
  /\ \A n \in Nodes : \A k \in DOMAIN cache[n] : cache[n][k].key = k

(* A node caches a key of another node only after it had to load it itself. *)
CachedAtOwner ==
  \A n \in Nodes : \A k \in DOMAIN cache[n] : Owner[n][k] = n \/ fellBack[n][k]

Agreed(k) == \A m, n \in Nodes : Owner[m][k] = Owner[n][k]

(* Where the nodes agree on a key's owner, the owner serves it alone: the   *)
(* handler of a request for it asks no third node, so loads cannot wait in  *)
(* a circle.                                                                *)
OneHop ==
  \A g \in Goroutines :
    g[2] < MaxHops /\ pc[Handler(g)] = "remote" => ~(Plain(key[g]) /\ Agreed(key[g]))

(* Whom g waits for: the leader of the load it joined, the handler of the   *)
(* request it sent; g itself when it need not wait.                         *)
CountsOn(g) ==
  IF pc[g] = "wait" /\ ~finished[joined[g]] THEN joined[g]
  ELSE IF /\ pc[g] = "remote" /\ g[2] < MaxHops
          /\ pc[Handler(g)] \notin {"idle", "returned"}
       THEN Handler(g) ELSE g

(* The states in which a goroutine has a step of its own, in code order.    *)
Ready(g) ==
  \/ pc[g] \in {"get", "do", "pick", "local", "populate", "done", "delete"}
  \/ pc[g] = "wait" /\ finished[joined[g]]
  \/ /\ pc[g] = "remote" /\ g[2] < MaxHops
     /\ pc[Handler(g)] \in {"idle", "returned"}

(* Nor do they wait on and on: who waits for a load on its node that asks   *)
(* the owner, where the handler waits for another load, counts on somebody  *)
(* who can go on, at the third remove or before.  (A request at MaxHops is  *)
(* not followed.)                                                           *)
WaitsEnd ==
  \A g \in Goroutines :
    pc[g] \notin {"idle", "returned"} /\ Plain(key[g]) /\ Agreed(key[g]) =>
      LET last == CountsOn(CountsOn(CountsOn(g)))
      IN  Ready(last) \/ (pc[last] = "remote" /\ last[2] = MaxHops)

(* Every Get of such a key returns.                                         *)
EveryGetReturns ==
  \A u \in Users : \A k \in {x \in Keys : Plain(x) /\ Agreed(x)} :
    pc[<<u, 0>>] = "get" /\ key[<<u, 0>>] = k ~> pc[<<u, 0>>] = "returned"

(* "The path of a request is /<basepath>/<groupname>/<key>" (http.go:50),   *)
(* with what the URL needs escaped (http.go:103): so that the value a node  *)
(* asks for is the value it gets, whatever the key.                         *)
OwnValue ==
  \A g \in Goroutines : result[g] \in Values => result[g].key = key[g]

-----------------------------------------------------------------------------
(* The inductive invariant behind these properties.                         *)

(* The loads under way are the calls in the maps ...                        *)
Listed ==
  \A g \in Goroutines : pc[g] \in Leading => flights[at[g]][key[g]] = g

(* ... with a result from the end of the function on.                       *)
Settled ==
  \A g \in Goroutines :
    /\ pc[g] = "idle" => val[g] = None /\ result[g] = None
    /\ pc[g] = "populate" => val[g] \in Values
    /\ pc[g] \in {"done", "delete"} => val[g] # None
    /\ finished[g] => pc[g] \in {"delete", "returned"} /\ val[g] # None
    /\ pc[g] = "returned" => result[g] # None

(* Who waits, waits for a load of its key on its node.                      *)
Joins ==
  \A g \in Goroutines :
    /\ pc[g] = "wait" => joined[g] # None
    /\ joined[g] # None =>
         /\ pc[g] \in {"wait", "returned"}
         /\ at[joined[g]] = at[g] /\ key[joined[g]] = key[g]
         /\ pc[joined[g]] \in Leading \cup {"returned"}
         /\ pc[g] = "returned" => finished[joined[g]] /\ result[g] = val[joined[g]]

(* A load that is out of the map, or about to be, has let its waiters go.   *)
LetGo ==
  \A g \in Goroutines :
    /\ pc[g] = "delete" => finished[g]
    /\ pc[g] = "wait" /\ pc[joined[g]] = "returned" => finished[joined[g]]

(* A handler serves the key its caller sent on the node its caller picked.  *)
Linked ==
  \A g \in Goroutines : g[2] < MaxHops /\ pc[Handler(g)] # "idle" =>
    pc[g] # "idle" /\ key[Handler(g)] = Received[key[g]] /\ at[Handler(g)] = Peer(g)

KeysKept ==
  /\ OwnKey
  /\ \A g \in Goroutines :
       /\ val[g] \in Values /\ Plain(key[g]) => val[g].key = key[g]
       /\ pc[g] = "populate" => val[g].key = key[g]

(* A load goes local for the node's own keys or past their owner.           *)
OwnersKept ==
  /\ CachedAtOwner
  /\ \A g \in Goroutines :
       /\ pc[g] = "remote" => Peer(g) # at[g]
       /\ pc[g] \in {"local", "populate"} => Peer(g) = at[g] \/ fellBack[at[g]][key[g]]

Inv == /\ TypeOK /\ FlightsAreLive /\ Listed /\ Settled /\ Joins
       /\ Linked /\ KeysKept /\ OwnersKept
===============================================================================
