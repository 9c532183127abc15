---------------------------- MODULE GeeCacheProofs ----------------------------
(***************************************************************************)
(* Safety of GeeCache for any nodes, keys, users, rings and depth of       *)
(* requests: the inductive invariant Inv of GeeCache is preserved by every *)
(* action, and the properties the runs check follow from it.               *)
(***************************************************************************)
EXTENDS GeeCache, TLAPS

(* A handler is a goroutine of its own, with one caller.                    *)
LEMMA HandlerFacts ==
  /\ \A u \in Users : <<u, 0>> \in Goroutines
  /\ \A u \in Users : \A g \in Goroutines : Handler(g) # <<u, 0>>
  /\ \A g \in Goroutines : g[2] < MaxHops => Handler(g) \in Goroutines
  /\ \A g \in Goroutines : Handler(g) # g
  /\ \A g, h \in Goroutines : Handler(g) = Handler(h) => g = h
<1>1. \A g \in Goroutines : g = <<g[1], g[2]>> /\ g[1] \in Users /\ g[2] \in 0 .. MaxHops
  BY DEF Goroutines
<1>2. \A u \in Users : <<u, 0>> \in Goroutines
  BY MaxHopsAssumption DEF Goroutines
<1>3. ASSUME NEW u \in Users, NEW g \in Goroutines PROVE Handler(g) # <<u, 0>>
  <2>1. g[2] + 1 # 0
    BY <1>1, MaxHopsAssumption
  <2>2. QED
    BY <2>1 DEF Handler
<1>4. ASSUME NEW g \in Goroutines, g[2] < MaxHops PROVE Handler(g) \in Goroutines
  <2>1. g[1] \in Users /\ g[2] + 1 \in 0 .. MaxHops
    BY <1>1, <1>4, MaxHopsAssumption
  <2>2. QED
    BY <2>1 DEF Handler, Goroutines
<1>5. ASSUME NEW g \in Goroutines PROVE Handler(g) # g
  <2>1. g[2] + 1 # g[2]
    BY <1>1, MaxHopsAssumption
  <2>2. QED
    BY <2>1, <1>1 DEF Handler
<1>6. ASSUME NEW g \in Goroutines, NEW h \in Goroutines, Handler(g) = Handler(h)
      PROVE  g = h
  <2>1. g[1] = h[1] /\ g[2] + 1 = h[2] + 1
    BY <1>6 DEF Handler
  <2>2. g[2] = h[2]
    BY <2>1, <1>1, MaxHopsAssumption
  <2>3. QED
    BY <2>1, <2>2, <1>1
<1>7. QED
  BY <1>2, <1>3, <1>4, <1>5, <1>6

(* What an addition leaves in a store comes from the addition or was there. *)
LEMMA LeftOver ==
  ASSUME NEW s, NEW k, NEW v, NEW t \in Added(s, k, v)
  PROVE  /\ DOMAIN t \subseteq DOMAIN s \cup {k}
         /\ \A x \in DOMAIN t : t[x] = IF x = k THEN v ELSE s[x]
  BY DEF Added, Remains, Updated, Restrict

(* The initial states satisfy the inductive invariant.                      *)
LEMMA InvInit == Init => Inv
<1> SUFFICES ASSUME Init PROVE Inv
  OBVIOUS
<1> USE NoneAssumption DEF Init
<1>1. TypeOK
  BY DEF TypeOK, Empty, Labels, Results
<1>2. FlightsAreLive /\ Listed /\ Settled /\ Joins
  BY DEF FlightsAreLive, Listed, Leading, InFn, Settled, Joins
<1>3. Linked
  <2>1. ASSUME NEW g \in Goroutines, g[2] < MaxHops PROVE pc[Handler(g)] = "idle"
    BY <2>1, HandlerFacts
  <2>2. QED
    BY <2>1 DEF Linked
<1>4. KeysKept /\ OwnersKept
  BY DEF KeysKept, OwnKey, OwnersKept, CachedAtOwner, Empty
<1>5. QED
  BY <1>1, <1>2, <1>3, <1>4 DEF Inv

(* Every step preserves the inductive invariant, action by action.  The     *)
(* arguments with content: who leads entered its call where there was none, *)
(* and leaves the map before it returns; a call that is joined is in the    *)
(* map, so its goroutine is between Lead and Delete, and its result is      *)
(* fixed before wg.Done lets the others have it.                            *)
LEMMA InvStep == Inv /\ [Next]_vars => Inv'
<1> SUFFICES ASSUME Inv, [Next]_vars PROVE Inv'
  OBVIOUS
<1> USE NoneAssumption, OwnerAssumption DEF InFn, Leading, Labels, Results, Values
<1>1. ASSUME NEW n \in Nodes, RegisterPeers(n) PROVE Inv'
  <2>1. TypeOK'
    BY <1>1 DEF Inv, TypeOK, RegisterPeers, callVars
  <2>2. (FlightsAreLive /\ Listed /\ Settled /\ Joins /\ Linked /\ KeysKept /\
        OwnersKept)'
    BY <1>1 DEF Inv, FlightsAreLive, Listed, Settled, Joins, Linked, Peer,
        KeysKept, OwnKey, OwnersKept, CachedAtOwner, RegisterPeers, callVars
  <2>3. QED
    BY <2>1, <2>2 DEF Inv
<1>2. ASSUME NEW u \in Users, NEW n \in Nodes, NEW k \in Keys, Request(u, n, k) PROVE Inv'
  <2>1. PICK g \in Goroutines :
          /\ Start(g, n, k) /\ UNCHANGED <<cacheVars, flights, callVars>>
          /\ \A h \in Goroutines : Handler(h) # g
    BY <1>2, HandlerFacts DEF Request
  <2> USE <2>1 DEF Start, Goto, cacheVars, callVars
  <2>2. TypeOK'
    BY DEF Inv, TypeOK
  <2>3. FlightsAreLive'
    BY DEF Inv, TypeOK, FlightsAreLive
  <2>4. (Listed /\ Settled)'
    BY DEF Inv, TypeOK, Listed, Settled
  <2>5. Joins'
    BY DEF Inv, TypeOK, Joins
  <2>6. Linked'
    <3>1. \A x \in Goroutines \ {g} : pc'[x] = pc[x] /\ at'[x] = at[x] /\ key'[x] = key[x]
      BY DEF Inv, TypeOK
    <3>2. ASSUME NEW x \in Goroutines, x[2] < MaxHops, pc'[Handler(x)] # "idle"
          PROVE  /\ pc'[x] # "idle" /\ key'[Handler(x)] = Received[key'[x]]
                 /\ at'[Handler(x)] = Owner[at'[x]][key'[x]]
      <4>1. Handler(x) \in Goroutines \ {g}
        BY <3>2, HandlerFacts
      <4>2. /\ pc[x] # "idle" /\ key[Handler(x)] = Received[key[x]]
            /\ at[Handler(x)] = Owner[at[x]][key[x]]
        BY <3>1, <3>2, <4>1 DEF Inv, Linked, Peer
      <4>3. QED
        BY <3>1, <4>1, <4>2
    <3>3. QED
      BY <3>2 DEF Linked, Peer
  <2>7. KeysKept'
    <3>1. pc'[g] = "get" /\ \A x \in Goroutines \ {g} : key'[x] = key[x] /\ pc'[x] = pc[x]
      BY DEF Inv, TypeOK
    <3>2. val[g] = None /\ result[g] = None
      BY DEF Inv, Settled
    <3>3. QED
      BY <3>1, <3>2 DEF Inv, KeysKept, OwnKey
  <2>8. OwnersKept'
    BY DEF Inv, TypeOK, OwnersKept, CachedAtOwner, Peer
  <2>9. QED
    BY <2>2, <2>3, <2>4, <2>5, <2>6, <2>7, <2>8 DEF Inv
<1>3. ASSUME NEW g \in Goroutines, Hit(g) PROVE Inv'
  <2>1. TypeOK'
    BY <1>3 DEF Inv, TypeOK, KeysKept, Hit, Return, Goto, cacheVars
  <2>2. FlightsAreLive'
    <3>1. pc[g] = "get" /\ UNCHANGED <<flights, at, key>>
          /\ \A x \in Goroutines \ {g} : pc'[x] = pc[x]
      BY <1>3 DEF Inv, TypeOK, Hit, Return, Goto
    <3>2. ASSUME NEW n \in Nodes, NEW k \in Keys, flights[n][k] # None
          PROVE  flights[n][k] \in Goroutines \ {g} /\ pc[flights[n][k]] \in Leading
      BY <3>1, <3>2 DEF Inv, TypeOK, FlightsAreLive, Leading, InFn
    <3>3. QED
      BY <3>1, <3>2 DEF Inv, FlightsAreLive
  <2>3. Listed'
    BY <1>3 DEF Inv, TypeOK, Listed, Hit, Return, Goto, cacheVars
  <2>4. Settled'
    BY <1>3 DEF Inv, TypeOK, Settled, Hit, Return, Goto, cacheVars
  <2>5. Joins'
    BY <1>3 DEF Inv, TypeOK, Joins, Hit, Return, Goto, cacheVars
  <2>6. Linked'
    BY <1>3 DEF Inv, TypeOK, Linked, Peer, Hit, Return, Goto, cacheVars
  <2>7. KeysKept'
    BY <1>3 DEF Inv, TypeOK, KeysKept, OwnKey, Hit, Return, Goto, cacheVars
  <2>8. OwnersKept'
    BY <1>3 DEF Inv, TypeOK, OwnersKept, CachedAtOwner, Peer, Hit, Return,
        Goto, cacheVars
  <2>9. QED
    BY <2>1, <2>2, <2>3, <2>4, <2>5, <2>6, <2>7, <2>8 DEF Inv
<1>4. ASSUME NEW g \in Goroutines, Miss(g) PROVE Inv'
  <2>1. TypeOK'
    BY <1>4 DEF Inv, TypeOK, Miss, Goto, cacheVars, callVars
  <2>2. FlightsAreLive'
    BY <1>4 DEF Inv, TypeOK, FlightsAreLive, Miss, Goto, cacheVars, callVars
  <2>3. Listed'
    BY <1>4 DEF Inv, TypeOK, Listed, Miss, Goto, cacheVars, callVars
  <2>4. Settled'
    BY <1>4 DEF Inv, TypeOK, Settled, Miss, Goto, cacheVars, callVars
  <2>5. Joins'
    BY <1>4 DEF Inv, TypeOK, Joins, FlightsAreLive, Miss, Goto, cacheVars,
        callVars
  <2>6. Linked'
    BY <1>4 DEF Inv, TypeOK, Linked, Peer, Miss, Goto, cacheVars, callVars
  <2>7. OwnersKept'
    BY <1>4 DEF Inv, TypeOK, OwnersKept, CachedAtOwner, Peer, Miss, Goto,
        cacheVars, callVars
  <2>8. KeysKept'
    BY <1>4 DEF Inv, TypeOK, KeysKept, OwnKey, Miss, Goto, callVars, cacheVars
  <2>9. QED
    BY <2>1, <2>2, <2>3, <2>4, <2>5, <2>6, <2>7, <2>8 DEF Inv
<1>5. ASSUME NEW g \in Goroutines, Join(g) PROVE Inv'
  <2>1. TypeOK'
    BY <1>5 DEF Inv, TypeOK, Join, InFlight, Goto, cacheVars
  <2>2. FlightsAreLive'
    BY <1>5 DEF Inv, TypeOK, FlightsAreLive, Join, InFlight, Goto, cacheVars
  <2>3. Listed'
    BY <1>5 DEF Inv, TypeOK, Listed, Join, InFlight, Goto, cacheVars
  <2>4. Settled'
    BY <1>5 DEF Inv, TypeOK, Settled, Join, InFlight, Goto, cacheVars
  <2>5. Joins'
    BY <1>5 DEF Inv, TypeOK, Joins, FlightsAreLive, Join, InFlight, Goto,
        cacheVars
  <2>6. Linked'
    BY <1>5 DEF Inv, TypeOK, Linked, Peer, Join, InFlight, Goto, cacheVars
  <2>7. OwnersKept'
    BY <1>5 DEF Inv, TypeOK, OwnersKept, CachedAtOwner, Peer, Join, InFlight,
        Goto, cacheVars
  <2>8. KeysKept'
    BY <1>5 DEF Inv, TypeOK, KeysKept, OwnKey, Join, Goto, InFlight, cacheVars
  <2>9. QED
    BY <2>1, <2>2, <2>3, <2>4, <2>5, <2>6, <2>7, <2>8 DEF Inv
<1>6. ASSUME NEW g \in Goroutines, Lead(g) PROVE Inv'
  <2>1. TypeOK'
    BY <1>6 DEF Inv, TypeOK, Lead, InFlight, Goto, cacheVars, callVars
  <2>2. FlightsAreLive'
    BY <1>6, SMTT(20) DEF Inv, TypeOK, FlightsAreLive, Lead, InFlight, Goto,
        cacheVars, callVars
  <2>3. Listed'
    BY <1>6 DEF Inv, TypeOK, Listed, Lead, InFlight, Goto, cacheVars, callVars
  <2>4. Settled'
    BY <1>6 DEF Inv, TypeOK, Settled, Lead, InFlight, Goto, cacheVars,
        callVars
  <2>5. Joins'
    BY <1>6 DEF Inv, TypeOK, Joins, Lead, InFlight, Goto, cacheVars, callVars
  <2>6. Linked'
    BY <1>6 DEF Inv, TypeOK, Linked, Peer, Lead, InFlight, Goto, cacheVars,
        callVars
  <2>7. OwnersKept'
    BY <1>6 DEF Inv, TypeOK, OwnersKept, CachedAtOwner, Peer, Lead, InFlight,
        Goto, cacheVars, callVars
  <2>8. KeysKept'
    BY <1>6 DEF Inv, TypeOK, KeysKept, OwnKey, Lead, Goto, InFlight, callVars, cacheVars
  <2>9. QED
    BY <2>1, <2>2, <2>3, <2>4, <2>5, <2>6, <2>7, <2>8 DEF Inv
<1>7. ASSUME NEW g \in Goroutines, Wake(g) PROVE Inv'
  <2>1. TypeOK'
    BY <1>7 DEF Inv, TypeOK, Joins, Wake, Finished, Return, Goto, cacheVars
  <2>2. FlightsAreLive'
    BY <1>7 DEF Inv, TypeOK, FlightsAreLive, Wake, Finished, Return, Goto,
        cacheVars
  <2>3. Listed'
    BY <1>7 DEF Inv, TypeOK, Listed, Wake, Finished, Return, Goto, cacheVars
  <2>4. Settled'
    BY <1>7 DEF Inv, TypeOK, Settled, Joins, Wake, Finished, Return, Goto,
        cacheVars
  <2>5. Joins'
    BY <1>7 DEF Inv, TypeOK, Joins, Wake, Finished, Return, Goto, cacheVars
  <2>6. Linked'
    BY <1>7 DEF Inv, TypeOK, Linked, Peer, Wake, Finished, Return, Goto,
        cacheVars
  <2>7. KeysKept'
    BY <1>7 DEF Inv, TypeOK, KeysKept, OwnKey, Joins, Wake, Finished, Return,
        Goto, cacheVars
  <2>8. OwnersKept'
    BY <1>7 DEF Inv, TypeOK, OwnersKept, CachedAtOwner, Peer, Wake, Finished,
        Return, Goto, cacheVars
  <2>9. QED
    BY <2>1, <2>2, <2>3, <2>4, <2>5, <2>6, <2>7, <2>8 DEF Inv
<1>8. ASSUME NEW g \in Goroutines, Done(g) PROVE Inv'
  <2>1. TypeOK'
    BY <1>8 DEF Inv, TypeOK, Done, Goto, cacheVars
  <2>2. FlightsAreLive'
    BY <1>8 DEF Inv, TypeOK, FlightsAreLive, Done, Goto, cacheVars
  <2>3. Listed'
    BY <1>8 DEF Inv, TypeOK, Listed, Done, Goto, cacheVars
  <2>4. Settled'
    BY <1>8 DEF Inv, TypeOK, Settled, Done, Goto, cacheVars
  <2>5. Joins'
    BY <1>8 DEF Inv, TypeOK, Joins, Done, Goto, cacheVars
  <2>6. Linked'
    BY <1>8 DEF Inv, TypeOK, Linked, Peer, Done, Goto, cacheVars
  <2>7. OwnersKept'
    BY <1>8 DEF Inv, TypeOK, OwnersKept, CachedAtOwner, Peer, Done, Goto,
        cacheVars
  <2>8. KeysKept'
    BY <1>8 DEF Inv, TypeOK, KeysKept, OwnKey, Done, Goto, cacheVars
  <2>9. QED
    BY <2>1, <2>2, <2>3, <2>4, <2>5, <2>6, <2>7, <2>8 DEF Inv
<1>9. ASSUME NEW g \in Goroutines, Delete(g) PROVE Inv'
  <2>1. TypeOK'
    BY <1>9 DEF Inv, TypeOK, Delete, Deleted, Return, Goto, cacheVars
  <2>2. FlightsAreLive'
    BY <1>9 DEF Inv, TypeOK, FlightsAreLive, Delete, Deleted, Return, Goto,
        cacheVars
  <2>3. Listed'
    BY <1>9 DEF Inv, TypeOK, Listed, Delete, Deleted, Return, Goto, cacheVars
  <2>4. Settled'
    BY <1>9 DEF Inv, TypeOK, Settled, Delete, Deleted, Return, Goto, cacheVars
  <2>5. Joins'
    BY <1>9 DEF Inv, TypeOK, Joins, Delete, Deleted, Return, Goto, cacheVars
  <2>6. Linked'
    BY <1>9 DEF Inv, TypeOK, Linked, Peer, Delete, Deleted, Return, Goto,
        cacheVars
  <2>7. KeysKept'
    BY <1>9 DEF Inv, TypeOK, KeysKept, OwnKey, Delete, Deleted, Return, Goto,
        cacheVars
  <2>8. OwnersKept'
    BY <1>9 DEF Inv, TypeOK, OwnersKept, CachedAtOwner, Peer, Delete, Deleted,
        Return, Goto, cacheVars
  <2>9. QED
    BY <2>1, <2>2, <2>3, <2>4, <2>5, <2>6, <2>7, <2>8 DEF Inv
<1>10. ASSUME NEW g \in Goroutines, PickPeer(g) PROVE Inv'
  <2>1. at[g] \in Nodes /\ key[g] \in Keys /\ pc[g] = "pick"
    BY <1>10 DEF Inv, TypeOK, PickPeer
  <2>2. PICK label \in {"remote", "local"} :
          /\ pc' = [pc EXCEPT ![g] = label]
          /\ \/ UNCHANGED fellBack
             \/ /\ label = "local"
                /\ fellBack' = [fellBack EXCEPT ![at[g]][key[g]] = TRUE]
    BY <1>10 DEF PickPeer, Goto, FallBack
  <2>3. fellBack' \in [Nodes -> [Keys -> BOOLEAN]]
    <3>1. CASE UNCHANGED fellBack
      BY <3>1 DEF Inv, TypeOK
    <3>2. CASE fellBack' = [fellBack EXCEPT ![at[g]][key[g]] = TRUE]
      BY <3>2, <2>1 DEF Inv, TypeOK
    <3>3. QED
      BY <3>1, <3>2, <2>2
  <2> USE <1>10, <2>1, <2>2 DEF PickPeer, callVars
  <2>4. TypeOK'
    BY <2>3 DEF Inv, TypeOK
  <2>5. FlightsAreLive'
    <3>1. \A x \in Goroutines : pc'[x] = IF x = g THEN label ELSE pc[x]
      BY DEF Inv, TypeOK
    <3>2. QED
      BY <3>1 DEF Inv, TypeOK, FlightsAreLive
  <2>6. (Listed /\ Settled)'
    <3>1. Listed'
      BY DEF Inv, TypeOK, Listed
    <3>2. Settled'
      BY DEF Inv, TypeOK, Settled
    <3>3. QED
      BY <3>1, <3>2
  <2>7. Joins'
    BY DEF Inv, TypeOK, Joins
  <2>8. Linked'
    BY DEF Inv, TypeOK, Linked, Peer
  <2>9. KeysKept'
    BY DEF Inv, TypeOK, KeysKept, OwnKey
  <2>10. OwnersKept'
    <3>1. CASE Remote(at[g], key[g]) /\ Goto(g, "remote") /\ UNCHANGED fellBack
      BY <3>1 DEF Inv, TypeOK, OwnersKept, CachedAtOwner, Peer, Remote, Goto
    <3>2. CASE FallBack(g)
      BY <3>2 DEF Inv, TypeOK, OwnersKept, CachedAtOwner, Peer, FallBack, Goto
    <3>3. CASE Peer(g) = at[g] /\ Goto(g, "local") /\ UNCHANGED fellBack
      BY <3>3 DEF Inv, TypeOK, OwnersKept, CachedAtOwner, Peer, Goto
    <3>4. QED
      BY <3>1, <3>2, <3>3 DEF Peer
  <2>11. QED
    BY <2>4, <2>5, <2>6, <2>7, <2>8, <2>9, <2>10 DEF Inv
<1>11. ASSUME NEW g \in Goroutines, Serve(g) PROVE Inv'
  <2>1. PICK h \in Goroutines :
          /\ h = Handler(g) /\ h # g
          /\ \A x \in Goroutines : Handler(x) = h => x = g
    BY <1>11, HandlerFacts DEF Serve
  <2>2. /\ pc[h] = "idle" /\ pc[g] = "remote"
        /\ pc' = [pc EXCEPT ![h] = "get"]
        /\ at' = [at EXCEPT ![h] = Peer(g)] /\ key' = [key EXCEPT ![h] = Received[key[g]]]
        /\ UNCHANGED <<cacheVars, flights, callVars>>
    BY <1>11, <2>1 DEF Serve, Start, Goto
  <2>3. key[g] \in Keys /\ Received[key[g]] \in Keys /\ Peer(g) \in Nodes
    BY <2>2, ReceivedAssumption DEF Inv, TypeOK, Peer
  <2>4. val[h] = None /\ result[h] = None
    BY <2>2 DEF Inv, Settled
  <2>5. /\ pc'[h] = "get" /\ at'[h] = Peer(g) /\ key'[h] = Received[key[g]]
        /\ \A x \in Goroutines \ {h} :
             pc'[x] = pc[x] /\ at'[x] = at[x] /\ key'[x] = key[x]
    BY <2>2 DEF Inv, TypeOK
  <2>6. UNCHANGED <<cache, fellBack, flights, val, finished, joined, result>>
    BY <2>2 DEF cacheVars, callVars
  <2>7. TypeOK'
    BY <2>2, <2>3 DEF Inv, TypeOK, cacheVars, callVars
  <2>8. FlightsAreLive'
    <3>1. ASSUME NEW n \in Nodes, NEW k \in Keys, flights[n][k] # None
          PROVE  /\ pc'[flights[n][k]] \in Leading
                 /\ at'[flights[n][k]] = n /\ key'[flights[n][k]] = k
      <4>1. flights[n][k] \in Goroutines
        BY <3>1 DEF Inv, TypeOK
      <4>2. /\ pc[flights[n][k]] \in Leading
            /\ at[flights[n][k]] = n /\ key[flights[n][k]] = k
        BY <3>1 DEF Inv, FlightsAreLive
      <4>3. QED
        BY <2>2, <2>5, <4>1, <4>2
    <3>2. QED
      BY <2>6, <3>1 DEF FlightsAreLive
  <2>9. (Listed /\ Settled)'
    BY <2>4, <2>5, <2>6 DEF Inv, Listed, Settled
  <2>10. Joins'
    <3>1. ASSUME NEW x \in Goroutines, joined[x] # None
          PROVE  x # h /\ joined[x] \in Goroutines \ {h}
      <4>1. joined[x] \in Goroutines
        BY <3>1 DEF Inv, TypeOK
      <4>2. pc[x] # "idle" /\ pc[joined[x]] # "idle"
        BY <3>1 DEF Inv, Joins
      <4>3. QED
        BY <2>2, <4>1, <4>2
    <3>2. QED
      BY <2>5, <2>6, <3>1 DEF Inv, Joins
  <2>11. Linked'
    <3>1. ASSUME NEW x \in Goroutines, x[2] < MaxHops, pc'[Handler(x)] # "idle", x # g
          PROVE  /\ pc'[x] # "idle" /\ key'[Handler(x)] = Received[key'[x]]
                 /\ at'[Handler(x)] = Owner[at'[x]][key'[x]]
      <4>1. Handler(x) \in Goroutines \ {h}
        BY <2>1, <3>1, HandlerFacts
      <4>2. /\ pc[x] # "idle" /\ key[Handler(x)] = Received[key[x]]
            /\ at[Handler(x)] = Owner[at[x]][key[x]]
        BY <2>5, <3>1, <4>1 DEF Inv, Linked, Peer
      <4>3. QED
        BY <2>2, <2>5, <4>1, <4>2
    <3>2. /\ pc'[g] # "idle" /\ key'[h] = Received[key'[g]]
          /\ at'[h] = Owner[at'[g]][key'[g]]
      BY <2>1, <2>2, <2>5 DEF Peer
    <3>3. QED
      BY <3>1, <3>2, <2>1 DEF Linked, Peer
  <2>12. KeysKept'
    BY <2>4, <2>5, <2>6 DEF Inv, KeysKept, OwnKey
  <2>13. OwnersKept'
    <3>1. CachedAtOwner'
      BY <2>6 DEF Inv, OwnersKept, CachedAtOwner
    <3>2. ASSUME NEW x \in Goroutines
          PROVE  /\ pc'[x] = "remote" => Peer(x)' # at'[x]
                 /\ pc'[x] \in {"local", "populate"} =>
                      Peer(x)' = at'[x] \/ fellBack'[at'[x]][key'[x]]
      <4>1. CASE x = h
        BY <4>1, <2>5
      <4>2. CASE x # h
        BY <4>2, <2>5, <2>6 DEF Inv, OwnersKept, Peer
      <4>3. QED
        BY <4>1, <4>2
    <3>3. QED
      BY <3>1, <3>2 DEF OwnersKept
  <2>14. QED
    BY <2>7, <2>8, <2>9, <2>10, <2>11, <2>12, <2>13 DEF Inv
<1>12. ASSUME NEW g \in Goroutines, Answered(g) PROVE Inv'
  <2>1. PICK r \in Values : r = result[Handler(g)] /\ (Plain(key[g]) => r.key = key[g])
    <3>1. Handler(g) \in Goroutines /\ pc[Handler(g)] = "returned" /\ g[2] < MaxHops
      BY <1>12, HandlerFacts DEF Answered
    <3>2. result[Handler(g)] \in Values
      BY <1>12, <3>1 DEF Inv, TypeOK, Settled, Answered
    <3>3. key[Handler(g)] = Received[key[g]]
      BY <3>1 DEF Inv, Linked
    <3>4. QED
      BY <3>1, <3>2, <3>3 DEF Inv, KeysKept, OwnKey, Plain
  <2>2. /\ pc[g] = "remote" /\ pc' = [pc EXCEPT ![g] = "done"]
        /\ val' = [val EXCEPT ![g] = r]
        /\ UNCHANGED <<cacheVars, flights, at, key, finished, joined, result>>
    BY <1>12, <2>1 DEF Answered, OfPeer, Goto, cacheVars
  <2> USE <2>1, <2>2 DEF cacheVars
  <2>3. TypeOK'
    BY DEF Inv, TypeOK
  <2>4. (FlightsAreLive /\ Listed)'
    BY DEF Inv, TypeOK, FlightsAreLive, Listed
  <2>5. Settled'
    BY DEF Inv, TypeOK, Settled
  <2>6. Joins'
    BY DEF Inv, TypeOK, Joins, Settled
  <2>7. Linked'
    BY DEF Inv, TypeOK, Linked, Peer
  <2>8. KeysKept'
    BY DEF Inv, TypeOK, KeysKept, OwnKey
  <2>9. OwnersKept'
    BY DEF Inv, TypeOK, OwnersKept, CachedAtOwner, Peer
  <2>10. QED
    BY <2>3, <2>4, <2>5, <2>6, <2>7, <2>8, <2>9 DEF Inv
<1>13. ASSUME NEW g \in Goroutines, Refused(g) PROVE Inv'
  <2>1. TypeOK'
    BY <1>13 DEF Inv, TypeOK, Refused, FallBack, Goto, callVars
  <2>2. FlightsAreLive'
    BY <1>13 DEF Inv, TypeOK, FlightsAreLive, Refused, FallBack, Goto,
        callVars
  <2>3. Listed'
    BY <1>13 DEF Inv, TypeOK, Listed, Refused, FallBack, Goto, callVars
  <2>4. Settled'
    BY <1>13 DEF Inv, TypeOK, Settled, Refused, FallBack, Goto, callVars
  <2>5. Joins'
    BY <1>13 DEF Inv, TypeOK, Joins, Refused, FallBack, Goto, callVars
  <2>6. Linked'
    BY <1>13 DEF Inv, TypeOK, Linked, Peer, Refused, FallBack, Goto, callVars
  <2>7. OwnersKept'
    BY <1>13 DEF Inv, TypeOK, OwnersKept, CachedAtOwner, Peer, Refused,
        FallBack, Goto, callVars
  <2>8. KeysKept'
    BY <1>13 DEF Inv, TypeOK, KeysKept, OwnKey, Refused, Goto, FallBack, callVars
  <2>9. QED
    BY <2>1, <2>2, <2>3, <2>4, <2>5, <2>6, <2>7, <2>8 DEF Inv
<1>14. ASSUME NEW g \in Goroutines, Lost(g) PROVE Inv'
  <2>1. TypeOK'
    BY <1>14 DEF Inv, TypeOK, Lost, FallBack, Goto, callVars
  <2>2. FlightsAreLive'
    BY <1>14 DEF Inv, TypeOK, FlightsAreLive, Lost, FallBack, Goto, callVars
  <2>3. Listed'
    BY <1>14 DEF Inv, TypeOK, Listed, Lost, FallBack, Goto, callVars
  <2>4. Settled'
    BY <1>14 DEF Inv, TypeOK, Settled, Lost, FallBack, Goto, callVars
  <2>5. Joins'
    BY <1>14 DEF Inv, TypeOK, Joins, Lost, FallBack, Goto, callVars
  <2>6. Linked'
    BY <1>14 DEF Inv, TypeOK, Linked, Peer, Lost, FallBack, Goto, callVars
  <2>7. OwnersKept'
    BY <1>14 DEF Inv, TypeOK, OwnersKept, CachedAtOwner, Peer, Lost, FallBack,
        Goto, callVars
  <2>8. KeysKept'
    BY <1>14 DEF Inv, TypeOK, KeysKept, OwnKey, Lost, Goto, FallBack, callVars
  <2>9. QED
    BY <2>1, <2>2, <2>3, <2>4, <2>5, <2>6, <2>7, <2>8 DEF Inv
<1>15. ASSUME NEW g \in Goroutines, Loaded(g) PROVE Inv'
  <2>1. TypeOK'
    BY <1>15 DEF Inv, TypeOK, Loaded, Goto, cacheVars
  <2>2. FlightsAreLive'
    BY <1>15 DEF Inv, TypeOK, FlightsAreLive, Loaded, Goto, cacheVars
  <2>3. Listed'
    BY <1>15 DEF Inv, TypeOK, Listed, Loaded, Goto, cacheVars
  <2>4. Settled'
    BY <1>15 DEF Inv, TypeOK, Settled, Loaded, Goto, cacheVars
  <2>5. Joins'
    BY <1>15 DEF Inv, TypeOK, Joins, Settled, Loaded, Goto, cacheVars
  <2>6. Linked'
    BY <1>15 DEF Inv, TypeOK, Linked, Peer, Loaded, Goto, cacheVars
  <2>7. KeysKept'
    BY <1>15 DEF Inv, TypeOK, KeysKept, OwnKey, Loaded, Goto, cacheVars
  <2>8. OwnersKept'
    BY <1>15 DEF Inv, TypeOK, OwnersKept, CachedAtOwner, Peer, Loaded, Goto,
        cacheVars
  <2>9. QED
    BY <2>1, <2>2, <2>3, <2>4, <2>5, <2>6, <2>7, <2>8 DEF Inv
<1>16. ASSUME NEW g \in Goroutines, NotLoaded(g) PROVE Inv'
  <2>1. TypeOK'
    BY <1>16 DEF Inv, TypeOK, NotLoaded, Goto, cacheVars
  <2>2. FlightsAreLive'
    BY <1>16 DEF Inv, TypeOK, FlightsAreLive, NotLoaded, Goto, cacheVars
  <2>3. Listed'
    BY <1>16 DEF Inv, TypeOK, Listed, NotLoaded, Goto, cacheVars
  <2>4. Settled'
    BY <1>16 DEF Inv, TypeOK, Settled, NotLoaded, Goto, cacheVars
  <2>5. Joins'
    BY <1>16 DEF Inv, TypeOK, Joins, Settled, NotLoaded, Goto, cacheVars
  <2>6. Linked'
    BY <1>16 DEF Inv, TypeOK, Linked, Peer, NotLoaded, Goto, cacheVars
  <2>7. KeysKept'
    BY <1>16 DEF Inv, TypeOK, KeysKept, OwnKey, NotLoaded, Goto, cacheVars
  <2>8. OwnersKept'
    BY <1>16 DEF Inv, TypeOK, OwnersKept, CachedAtOwner, Peer, NotLoaded,
        Goto, cacheVars
  <2>9. QED
    BY <2>1, <2>2, <2>3, <2>4, <2>5, <2>6, <2>7, <2>8 DEF Inv
<1>17. ASSUME NEW g \in Goroutines, Populate(g) PROVE Inv'
  <2> DEFINE n == at[g]
  <2>1. PICK s \in Added(cache[n], key[g], val[g]) : cache' = [cache EXCEPT ![n] = s]
    BY <1>17 DEF Populate
  <2>2. /\ DOMAIN s \subseteq DOMAIN cache[n] \cup {key[g]}
        /\ \A x \in DOMAIN s : s[x] = IF x = key[g] THEN val[g] ELSE cache[n][x]
    BY LeftOver
  <2>3. /\ n \in Nodes /\ key[g] \in Keys /\ val[g] \in Values /\ DOMAIN cache = Nodes
        /\ DOMAIN cache[n] \subseteq Keys
        /\ \A x \in DOMAIN cache[n] : cache[n][x] \in Values
    BY <1>17 DEF Inv, TypeOK, Settled, Populate
  <2>4. /\ DOMAIN cache' = Nodes /\ cache'[n] = s
        /\ \A m \in Nodes : m # n => cache'[m] = cache[m]
    BY <2>1, <2>3
  <2>5. TypeOK'
    <3> HIDE DEF n
    <3>1. DOMAIN s \subseteq Keys /\ \A x \in DOMAIN s : s[x] \in Values
      BY <2>2, <2>3
    <3>2. \A m \in Nodes : /\ DOMAIN cache'[m] \subseteq Keys
                           /\ \A x \in DOMAIN cache'[m] : cache'[m][x] \in Values
      BY <3>1, <2>4 DEF Inv, TypeOK
    <3>3. QED
      BY <1>17, <2>4, <3>2 DEF Inv, TypeOK, Populate, Goto, callVars
  <2>6. KeysKept'
    <3> HIDE DEF n
    <3>1. val[g].key = key[g]
      BY <1>17, <2>3 DEF Inv, KeysKept, Populate
    <3>2. \A x \in DOMAIN s : s[x].key = x
      BY <3>1, <2>2, <2>3 DEF Inv, KeysKept, OwnKey
    <3>3. \A m \in Nodes : \A x \in DOMAIN cache'[m] : cache'[m][x].key = x
      BY <3>2, <2>4 DEF Inv, KeysKept, OwnKey
    <3>4. QED
      BY <1>17, <3>3 DEF Inv, TypeOK, KeysKept, OwnKey, Populate, Goto, callVars
  <2>7. OwnersKept'
    BY <1>17, <2>1, <2>2
    DEF Inv, TypeOK, OwnersKept, CachedAtOwner, Peer, Populate, Goto, callVars
  <2>8. (FlightsAreLive /\ Listed)'
    BY <1>17 DEF Inv, TypeOK, FlightsAreLive, Listed, Populate, Goto, callVars
  <2>9. Settled'
    BY <1>17 DEF Inv, TypeOK, Settled, Populate, Goto, callVars
  <2>10. Joins'
    BY <1>17 DEF Inv, TypeOK, Joins, Populate, Goto, callVars
  <2>11. Linked'
    BY <1>17 DEF Inv, TypeOK, Linked, Peer, Populate, Goto, callVars
  <2>12. QED
    BY <2>5, <2>6, <2>7, <2>8, <2>9, <2>10, <2>11 DEF Inv
<1>18. CASE UNCHANGED vars
  BY <1>18 DEF Inv, vars, TypeOK, FlightsAreLive, Listed, Settled, Joins,
      Linked, KeysKept, OwnKey, OwnersKept, CachedAtOwner, Peer
<1>19. QED
  BY <1>1, <1>2, <1>3, <1>4, <1>5, <1>6, <1>7, <1>8, <1>9, <1>10, <1>11,
      <1>12, <1>13, <1>14, <1>15, <1>16, <1>17, <1>18 DEF Next, Step, Ended

(* Inv holds in every reachable state.                                      *)
THEOREM Invariance == Spec => []Inv
<1>1. Init => Inv
  BY InvInit
<1>2. Inv /\ [Next]_vars => Inv'
  BY InvStep
<1>3. QED
  BY <1>1, <1>2, PTL DEF Spec

(* Every variable keeps its type; who has a request has a node and a key.   *)
THEOREM TypeCorrect == Spec => []TypeOK
<1>1. Inv => TypeOK
  BY DEF Inv
<1>2. QED
  BY <1>1, Invariance, PTL

(* On a node at most one goroutine is in a load of a given key.             *)
THEOREM OneLoad == Spec => []SingleFlight
<1>1. Inv => SingleFlight
  BY DEF Inv, Listed, Leading, SingleFlight
<1>2. QED
  BY <1>1, Invariance, PTL

(* Whoever waited gets the finished result of a load of its key on its node.*)
THEOREM ResultShared == Spec => []WaitersShare
<1>1. Inv => WaitersShare
  BY DEF Inv, TypeOK, Joins, Settled, WaitersShare
<1>2. QED
  BY <1>1, Invariance, PTL

(* A call that has returned is not in the map.                              *)
THEOREM MapForgets == Spec => []FlightsAreLive
<1>1. Inv => FlightsAreLive
  BY DEF Inv
<1>2. QED
  BY <1>1, Invariance, PTL

(* No value is returned or cached under another key than its own.           *)
THEOREM KeysNotMixed == Spec => []OwnKey
<1>1. Inv => OwnKey
  BY DEF Inv, KeysKept
<1>2. QED
  BY <1>1, Invariance, PTL

(* A node caches another node's key only after loading it past that node.   *)
THEOREM OwnersCache == Spec => []CachedAtOwner
<1>1. Inv => CachedAtOwner
  BY DEF Inv, OwnersKept
<1>2. QED
  BY <1>1, Invariance, PTL

(* Where the nodes agree on an owner, a handler asks no third node: its     *)
(* caller picked the node it runs on, and so would it.                      *)
THEOREM NoThirdNode == Spec => []OneHop
<1>1. Inv => OneHop
  <2> SUFFICES ASSUME Inv, NEW g \in Goroutines, g[2] < MaxHops,
                      pc[Handler(g)] = "remote", Plain(key[g]), Agreed(key[g])
               PROVE  FALSE
    BY DEF OneHop
  <2>1. Handler(g) \in Goroutines
    BY HandlerFacts
  <2>2. /\ at[Handler(g)] = Owner[at[g]][key[g]] /\ key[Handler(g)] = key[g]
        /\ at[g] \in Nodes /\ at[Handler(g)] \in Nodes
    BY <2>1 DEF Inv, TypeOK, Linked, Peer, Plain
  <2>3. Peer(Handler(g)) = at[Handler(g)]
    BY <2>2 DEF Peer, Agreed
  <2>4. QED
    BY <2>1, <2>3 DEF Inv, OwnersKept
<1>2. QED
  BY <1>1, Invariance, PTL

-----------------------------------------------------------------------------
(* Nobody waits for what has ended: a load lets its waiters go before it    *)
(* leaves the map, and who joins finds it there.                            *)
LEMMA LetGoInvariance == Spec => []LetGo
<1>1. Init => LetGo
  BY DEF Init, LetGo
<1>2. Inv /\ LetGo /\ [Next]_vars => LetGo'
  <2> SUFFICES ASSUME Inv, LetGo, [Next]_vars PROVE LetGo'
    OBVIOUS
  <2> USE DEF Leading, InFn
  <2>1. \A g \in Goroutines :
          pc[g] = "wait" => /\ joined[g] \in Goroutines
                            /\ pc[joined[g]] \in Leading \cup {"returned"}
    BY DEF Inv, TypeOK, Joins
  <2>2. ASSUME NEW g \in Goroutines, NEW label, pc' = [pc EXCEPT ![g] = label],
               UNCHANGED <<finished, joined>>, label \notin {"wait", "delete"},
               label = "returned" => pc[g] \in {"get", "wait"} \/ finished[g]
        PROVE  LetGo'
    BY <2>1, <2>2 DEF Inv, TypeOK, LetGo
  <2>3. ASSUME NEW n \in Nodes, RegisterPeers(n) PROVE LetGo'
    BY <2>3 DEF RegisterPeers, callVars, LetGo
  <2>4. ASSUME NEW u \in Users, NEW n \in Nodes, NEW k \in Keys, Request(u, n, k) PROVE LetGo'
    <3>1. PICK g \in Goroutines : pc' = [pc EXCEPT ![g] = "get"] /\ UNCHANGED <<finished, joined>>
      BY <2>4, HandlerFacts DEF Request, Start, Goto, callVars
    <3>2. QED
      BY <3>1, <2>2
  <2>5. ASSUME NEW g \in Goroutines, Step(g) \/ Lost(g) PROVE LetGo'
    <3>1. CASE Hit(g) \/ Wake(g)
      BY <3>1, <2>2 DEF Hit, Wake, Return, Goto
    <3>2. CASE Miss(g) \/ Lead(g) \/ PickPeer(g) \/ Loaded(g) \/ NotLoaded(g) \/ Populate(g)
      BY <3>2, <2>2 DEF Miss, Lead, PickPeer, Loaded, NotLoaded, Populate, FallBack, Goto,
         callVars, cacheVars
    <3>3. CASE Answered(g) \/ Refused(g) \/ Lost(g)
      BY <3>3, <2>2 DEF Answered, Refused, Lost, FallBack, Goto, callVars, cacheVars
    <3>4. CASE Serve(g)
      <4>1. PICK h \in Goroutines : pc' = [pc EXCEPT ![h] = "get"] /\ UNCHANGED <<finished, joined>>
        BY <3>4, HandlerFacts DEF Serve, Start, Goto, callVars, cacheVars
      <4>2. QED
        BY <4>1, <2>2
    <3>5. CASE Delete(g)
      BY <3>5, <2>2 DEF Delete, Return, Goto, LetGo
    <3>6. CASE Done(g)
      BY <3>6, <2>1 DEF Done, Goto, LetGo, Inv, TypeOK, callVars, cacheVars
    <3>7. CASE Join(g)
      <4>1. InFlight(at[g], key[g]) \in Goroutines /\ pc[InFlight(at[g], key[g])] \in Leading
        BY <3>7 DEF Join, InFlight, Inv, TypeOK, FlightsAreLive
      <4>2. QED
        BY <3>7, <4>1, <2>1 DEF Join, Goto, LetGo, Inv, TypeOK, cacheVars
    <3>8. QED
      BY <2>5, <3>1, <3>2, <3>3, <3>4, <3>5, <3>6, <3>7 DEF Step
  <2>6. CASE Ended \/ UNCHANGED vars
    BY <2>6 DEF Ended, vars, LetGo
  <2>7. QED
    BY <2>3, <2>4, <2>5, <2>6 DEF Next
<1>3. QED
  BY <1>1, <1>2, Invariance, PTL DEF Spec

(* Who is under way has a step, waits for the leader of a load that has not *)
(* finished, or for a handler that is under way.                            *)
LEMMA CountsOnWhom ==
  ASSUME Inv, LetGo, NEW g \in Goroutines, pc[g] \notin {"idle", "returned"}
  PROVE  \/ CountsOn(g) = g /\ Ready(g)
         \/ CountsOn(g) = g /\ pc[g] = "remote" /\ g[2] = MaxHops
         \/ /\ pc[g] = "wait" /\ CountsOn(g) = joined[g] /\ joined[g] \in Goroutines
            /\ pc[joined[g]] \in Leading
            /\ at[joined[g]] = at[g] /\ key[joined[g]] = key[g]
         \/ /\ pc[g] = "remote" /\ CountsOn(g) = Handler(g) /\ Handler(g) \in Goroutines
            /\ pc[Handler(g)] \notin {"idle", "returned"}
            /\ at[Handler(g)] = Peer(g) /\ key[Handler(g)] = Received[key[g]]
<1>1. CASE pc[g] = "wait"
  <2>1. joined[g] # None
    BY <1>1 DEF Inv, Joins
  <2>2. /\ joined[g] \in Goroutines /\ at[joined[g]] = at[g] /\ key[joined[g]] = key[g]
        /\ pc[joined[g]] \in Leading \cup {"returned"}
    BY <2>1 DEF Inv, TypeOK, Joins
  <2>3. QED
    BY <1>1, <2>2 DEF LetGo, CountsOn, Ready
<1>2. CASE pc[g] = "remote"
  <2>1. g[2] < MaxHops \/ g[2] = MaxHops
    BY MaxHopsAssumption DEF Goroutines
  <2>2. g[2] < MaxHops => Handler(g) \in Goroutines
    BY HandlerFacts
  <2>3. g[2] = MaxHops => ~(g[2] < MaxHops)
    BY MaxHopsAssumption
  <2>4. g[2] < MaxHops /\ pc[Handler(g)] # "idle" =>
          key[Handler(g)] = Received[key[g]] /\ at[Handler(g)] = Peer(g)
    BY DEF Inv, Linked
  <2>5. QED
    BY <1>2, <2>1, <2>2, <2>3, <2>4 DEF CountsOn, Ready
<1>3. CASE pc[g] \notin {"wait", "remote"}
  <2>1. pc[g] \in {"get", "do", "pick", "local", "populate", "done", "delete"}
    BY <1>3 DEF Inv, TypeOK, Labels, Leading, InFn
  <2>2. QED
    BY <1>3, <2>1 DEF CountsOn, Ready
<1>4. QED
  BY <1>1, <1>2, <1>3

(* The owner of a key that is agreed on loads it itself.                    *)
LEMMA OwnerNotRemote ==
  ASSUME Inv, NEW g \in Goroutines, Owner[at[g]][key[g]] = at[g]
  PROVE  pc[g] # "remote"
BY DEF Inv, OwnersKept, Peer

(* Waits do not go on: whoever is under way for a key that is agreed on     *)
(* counts on somebody who can go on, for any number of nodes and goroutines.*)
THEOREM NoEndlessWaits == Spec => []WaitsEnd
<1>1. Inv /\ LetGo => WaitsEnd
  <2> SUFFICES ASSUME Inv, LetGo, NEW g \in Goroutines, pc[g] \notin {"idle", "returned"},
                      Plain(key[g]), Agreed(key[g])
               PROVE  LET last == CountsOn(CountsOn(CountsOn(g)))
                      IN  Ready(last) \/ (pc[last] = "remote" /\ last[2] = MaxHops)
    BY DEF WaitsEnd
  <2> DEFINE End(h) == Ready(h) \/ (pc[h] = "remote" /\ h[2] = MaxHops)
  <2> DEFINE AtOwner(h) == /\ h \in Goroutines /\ pc[h] \notin {"idle", "returned"}
                           /\ key[h] = key[g] /\ Owner[at[h]][key[h]] = at[h]
  <2> DEFINE Leads(h) == h \in Goroutines /\ pc[h] \in Leading /\ key[h] = key[g]
  <2>1. ASSUME NEW h, AtOwner(h), pc[h] \in Leading PROVE CountsOn(h) = h /\ End(h)
    <3>1. pc[h] # "remote" /\ pc[h] # "wait"
      BY <2>1, OwnerNotRemote DEF Leading, InFn
    <3>2. QED
      BY <2>1, <3>1, CountsOnWhom
  <2>2. ASSUME NEW h, AtOwner(h) PROVE CountsOn(CountsOn(h)) = CountsOn(h) /\ End(CountsOn(h))
    <3>1. pc[h] # "remote"
      BY <2>2, OwnerNotRemote
    <3>2. CASE pc[h] = "wait" /\ CountsOn(h) = joined[h] /\ AtOwner(joined[h]) /\ pc[joined[h]] \in Leading
      BY <3>2, <2>1
    <3>3. CASE CountsOn(h) = h /\ Ready(h)
      BY <3>3
    <3>4. QED
      BY <2>2, <3>1, <3>2, <3>3, CountsOnWhom DEF Leading, InFn
  <2>3. ASSUME NEW h, Leads(h)
        PROVE  CountsOn(CountsOn(CountsOn(h))) = CountsOn(CountsOn(h)) /\ End(CountsOn(CountsOn(h)))
    <3>1. CASE CountsOn(h) = h /\ End(h)
      BY <3>1
    <3>2. CASE pc[h] = "remote" /\ CountsOn(h) = Handler(h) /\ AtOwner(Handler(h))
      BY <3>2, <2>2
    <3>3. ASSUME pc[h] = "remote", Handler(h) \in Goroutines,
                 at[Handler(h)] = Peer(h), key[Handler(h)] = Received[key[h]]
          PROVE  key[Handler(h)] = key[g] /\ Owner[at[Handler(h)]][key[Handler(h)]] = at[Handler(h)]
      <4>1. at[h] \in Nodes /\ key[h] = key[g] /\ key[g] \in Keys
        BY <2>3, <3>3 DEF Inv, TypeOK
      <4>2. Owner[at[h]][key[g]] \in Nodes
        BY <4>1, OwnerAssumption
      <4>3. QED
        BY <3>3, <4>1, <4>2 DEF Plain, Agreed, Peer
    <3>4. pc[h] # "wait" /\ pc[h] \notin {"idle", "returned"}
      BY <2>3 DEF Leading, InFn
    <3>5. QED
      BY <2>3, <3>1, <3>2, <3>3, <3>4, CountsOnWhom
  <2>4. CASE Leads(g)
    BY <2>4, <2>3
  <2>5. CASE pc[g] = "wait" /\ CountsOn(g) = joined[g] /\ Leads(joined[g])
    BY <2>5, <2>3
  <2>6. CASE CountsOn(g) = g /\ Ready(g)
    BY <2>6
  <2>7. QED
    BY <2>4, <2>5, <2>6, CountsOnWhom DEF Leading, InFn
<1>2. QED
  BY <1>1, Invariance, LetGoInvariance, PTL
=============================================================================
