------------------------------ MODULE Discovery ------------------------------
(***************************************************************************)
(* GeeRegistryDiscovery (geerpc/xclient/discovery_gee.go) over             *)
(* MultiServersDiscovery (discovery.go), used by several goroutines of one *)
(* XClient, with the Registry it asks.                                     *)
(*                                                                         *)
(* Get and GetAll are two critical sections of the same mutex: Refresh,    *)
(* which holds it during its HTTP request, and the choice from the list.   *)
(* A list is a sequence without repetitions.                               *)
(***************************************************************************)
EXTENDS Registry, Sequences, SequencesExt, FiniteSets

CONSTANTS
  Users,
  UpdateTimeout,   \* GeeRegistryDiscovery.timeout
  MaxDelay,        \* how long an answer of the registry is under way at most
  FirstIndex,      \* what d.index starts from: random in the code
  Sorted,          \* Sorted[S]: the addresses in S as the registry sorts them
  ByHand           \* the lists Update is called with, as sets

ASSUME UpdateTimeoutAssumption == UpdateTimeout \in Nat \ {0}
ASSUME MaxDelayAssumption == MaxDelay \in Nat
ASSUME FirstIndexAssumption == FirstIndex \subseteq Nat
ASSUME SortedAssumption ==
  /\ Sorted \in [SUBSET Addrs -> Seq(Addrs)]
  /\ \A S \in SUBSET Addrs : ToSet(Sorted[S]) = S /\ IsInjective(Sorted[S])
ASSUME ByHandAssumption == ByHand \subseteq SUBSET Addrs
ASSUME NoneUserAssumption == None \notin Users

VARIABLES
  servers, index, lastUpdate,   \* of the discovery
  mu,                           \* who holds its mutex while asking
  answer, answeredAt,           \* the registry's answer, under way, and when it was given
  pc, mode,                     \* where a user is, and what it called
  checked,                      \* history: when Refresh found the list fresh
  turns                         \* history: the latest round robin picks from the present list

listVars == <<servers, index, lastUpdate, turns>>
answerVars == <<answer, answeredAt>>
userVars == <<pc, mode, checked>>
discVars == <<listVars, mu, answerVars, userVars>>
vars == <<regVars, discVars>>

Modes == {"random", "roundRobin", "all"}

(* Types, and that the mutex is held exactly while the registry is asked.   *)
TypeOK ==
  /\ RegistryTypeOK
  /\ servers \in Seq(Addrs)
  /\ index \in Nat
  /\ lastUpdate \in Int
  /\ mu \in Users \cup {None}
  /\ answer \in SUBSET Addrs
  /\ answeredAt \in Time
  /\ pc \in [Users -> {"idle", "refresh", "asking", "answered", "choose"}]
  /\ mode \in [Users -> Modes \cup {None}]
  /\ checked \in [Users -> Time]
  /\ turns \in Seq(Addrs)
  /\ \A u \in Users : mu = u <=> pc[u] \in {"asking", "answered"}

Init ==
  /\ RegistryInit
  /\ servers = <<>> /\ index \in FirstIndex /\ lastUpdate = 0 - UpdateTimeout
  /\ mu = None
  /\ answer = {} /\ answeredAt = 0
  /\ pc = [u \in Users |-> "idle"]
  /\ mode = [u \in Users |-> None]
  /\ checked = [u \in Users |-> 0]
  /\ turns = <<>>

Goto(u, label) == pc' = [pc EXCEPT ![u] = label]

(* Get(m), or GetAll, is called ...                                         *)
Call(u, m) ==
  /\ pc[u] = "idle"
  /\ mode' = [mode EXCEPT ![u] = m]
  /\ Goto(u, "refresh")
  /\ UNCHANGED <<regVars, listVars, mu, answerVars, checked>>

(* ... and returns.                                                         *)
Return(u) ==
  /\ mode' = [mode EXCEPT ![u] = None]
  /\ checked' = [checked EXCEPT ![u] = 0]
  /\ Goto(u, "idle")

-----------------------------------------------------------------------------
(* Refresh.                                                                 *)

FreshOnceFilled == servers # <<>>
Fresh == lastUpdate + UpdateTimeout > now

Refreshed(u) == checked' = [checked EXCEPT ![u] = now] /\ Goto(u, "choose")

RefreshSkipped(u) ==
  /\ pc[u] = "refresh" /\ mu = None /\ Fresh
  /\ Refreshed(u)
  /\ UNCHANGED <<regVars, listVars, mu, answerVars, mode>>

RefreshAsks(u) ==
  /\ pc[u] = "refresh" /\ mu = None /\ ~Fresh
  /\ mu' = u
  /\ Goto(u, "asking")
  /\ UNCHANGED <<regVars, listVars, answerVars, mode, checked>>

(* The registry answers the GET ...                                         *)
RegistryAnswers(u) ==
  /\ pc[u] = "asking"
  /\ Expire
  /\ answer' = AliveServers /\ answeredAt' = now
  /\ Goto(u, "answered")
  /\ UNCHANGED <<listVars, mu, mode, checked>>

(* ... and the answer arrives.                                              *)
ListBecomes(list) ==
  /\ servers' = list
  /\ lastUpdate' = now
  /\ turns' = IF list = servers THEN turns ELSE <<>>
  /\ UNCHANGED index

AnswerIsOver == mu' = None /\ answer' = {} /\ answeredAt' = 0

RefreshDone(u) ==
  /\ pc[u] = "answered"
  /\ ListBecomes(Sorted[answer])
  /\ AnswerIsOver
  /\ Refreshed(u)
  /\ UNCHANGED <<regVars, mode>>

(* The request or the answer is lost: the error is returned.  An answer     *)
(* with an error status would be stored as an empty list, but the registry  *)
(* gives none to a GET (registry.go:79-81).                                 *)
RefreshFails(u) ==
  /\ pc[u] \in {"asking", "answered"}
  /\ AnswerIsOver
  /\ Return(u)
  /\ UNCHANGED <<regVars, listVars>>

-----------------------------------------------------------------------------
(* MultiServersDiscovery.Get and GetAll.                                    *)

Ready(u) == pc[u] = "choose" /\ mu = None

NoServers(u) ==
  /\ Ready(u)
  /\ mode[u] # "all" /\ servers = <<>>
  /\ Return(u)
  /\ UNCHANGED <<regVars, listVars, mu, answerVars>>

RandomSelect(u, s) ==
  /\ Ready(u)
  /\ mode[u] = "random" /\ s \in ToSet(servers)
  /\ Return(u)
  /\ UNCHANGED <<regVars, listVars, mu, answerVars>>

SameIndex(n) == index % n
NextIndex(n) == (index + 1) % n

Latest(seq, n) == SubSeq(seq, IF Len(seq) > n THEN Len(seq) - n + 1 ELSE 1, Len(seq))

RoundRobinSelect(u, s) ==
  /\ Ready(u)
  /\ mode[u] = "roundRobin" /\ servers # <<>>
  /\ s = servers[(index % Len(servers)) + 1]
  /\ index' = NextIndex(Len(servers))
  /\ turns' = Latest(Append(turns, s), Len(servers))
  /\ Return(u)
  /\ UNCHANGED <<regVars, servers, lastUpdate, mu, answerVars>>

GetAll(u, S) ==
  /\ Ready(u)
  /\ mode[u] = "all" /\ S = ToSet(servers)
  /\ Return(u)
  /\ UNCHANGED <<regVars, listVars, mu, answerVars>>

(* Get returns s, or s is among what GetAll returns.                        *)
Gives(u, s) ==
  RandomSelect(u, s) \/ RoundRobinSelect(u, s) \/ \E S \in SUBSET Addrs : s \in S /\ GetAll(u, S)

(* Update: somebody sets the list by hand, and so says these are there.     *)
Update(S) ==
  /\ mu = None
  /\ ListBecomes(Sorted[S])
  /\ heard' = [a \in Addrs |-> IF a \in S THEN now ELSE heard[a]]
  /\ UNCHANGED <<now, start, loop, due, mu, answerVars, userVars>>

-----------------------------------------------------------------------------
(* Time passes while users are anywhere, but an answer arrives or is lost   *)
(* in time.                                                                 *)
InTime == \A u \in Users : pc[u] = "answered" => now < answeredAt + MaxDelay

Refresh(u) ==
  RefreshSkipped(u) \/ RefreshAsks(u) \/ RegistryAnswers(u) \/ RefreshDone(u) \/ RefreshFails(u)

Next ==
  \/ (\E a \in Addrs : Heartbeat(a) \/ Beat(a) \/ Crash(a)) /\ UNCHANGED discVars
  \/ Tick /\ InTime /\ UNCHANGED discVars
  \/ \E u \in Users :
       \/ \E m \in Modes : Call(u, m)
       \/ Refresh(u) \/ NoServers(u)
       \/ \E s \in Addrs : RandomSelect(u, s) \/ RoundRobinSelect(u, s)
       \/ \E S \in SUBSET Addrs : GetAll(u, S)
  \/ \E S \in ByHand : Update(S)

Spec == Init /\ [][Next]_vars

-----------------------------------------------------------------------------
(* A server that is gone is forgotten: one that Get or GetAll returns was   *)
(* last said to be there less than the registry's timeout before the        *)
(* registry was asked, which was less than the delay of an answer and the   *)
(* discovery's timeout before the list was found fresh, however refreshes,  *)
(* updates and choices of several goroutines interleave                     *)
(* (discovery_gee.go:46, registry.go:61).                                   *)
DeadForgotten ==
  [][Timeout = 0 \/ \A u \in Users : \A s \in Addrs :
       Gives(u, s) => checked[u] <= heard[s] + (Timeout - 1) + MaxDelay + (UpdateTimeout - 1)]_vars

(* Round robin: while the list stays the same, also through refreshes that  *)
(* bring it again, as many picks in a row as there are servers are all      *)
(* different, whoever makes them (discovery.go:75-76).                      *)
RoundRobinFair == IsInjective(turns)

-----------------------------------------------------------------------------
(* The inductive invariant behind these properties.                         *)

(* A server that beats was heard one period before its ticker fires.        *)
BeatsInTime ==
  \A a \in Addrs : loop[a] = "running" =>
    start[a] # None /\ due[a] = start[a] + Period /\ now <= due[a]

(* The registry knows of nobody who was not heard, and nobody was heard     *)
(* in the future.                                                           *)
HeardBefore ==
  \A a \in Addrs : heard[a] <= now /\ (start[a] # None => start[a] <= heard[a])

HeardInTime(a, t) == Timeout = 0 \/ t <= heard[a] + (Timeout - 1)

(* An answer is young, and who is in it was not expired when it was given ...*)
AnswerInTime ==
  \A u \in Users : pc[u] = "answered" =>
    /\ answeredAt <= now /\ now <= answeredAt + MaxDelay
    /\ \A a \in answer : HeardInTime(a, answeredAt)

(* ... so that the list was right a delay before it became the list ...     *)
ListInTime ==
  /\ lastUpdate <= now
  /\ \A a \in ToSet(servers) : HeardInTime(a, lastUpdate - MaxDelay)

(* ... and was fresh when it was found so, or is newer.                     *)
CheckedInTime ==
  \A u \in Users : pc[u] = "choose" =>
    checked[u] <= now /\ checked[u] <= lastUpdate + (UpdateTimeout - 1)

(* Counted from the end, turns goes back through the list from the last     *)
(* index handed out.                                                        *)
Back(i) ==
  LET at == (index % Len(servers)) - (Len(turns) + 1 - i)
  IN 1 + IF at < 0 THEN at + Len(servers) ELSE at

TurnsFollowList ==
  /\ IsInjective(servers)
  /\ Len(turns) <= Len(servers)
  /\ \A i \in DOMAIN turns : turns[i] = servers[Back(i)]

Inv ==
  /\ TypeOK /\ BeatsInTime /\ HeardBefore /\ AnswerInTime /\ ListInTime /\ CheckedInTime
  /\ TurnsFollowList
==============================================================================
