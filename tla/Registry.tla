------------------------------- MODULE Registry -------------------------------
(***************************************************************************)
(* GeeRegistry and the heartbeats that keep servers listed in it           *)
(* (geerpc/registry/registry.go).                                          *)
(*                                                                         *)
(* Time is a counter.  A heartbeat is sent in the instant it is due and    *)
(* the registry gets it, if at all, in that instant: what is shown of the  *)
(* expiry holds for a period that leaves room for real delays.             *)
(***************************************************************************)
EXTENDS Integers

CONSTANTS
  Addrs,      \* the addresses of servers
  Timeout,    \* GeeRegistry.timeout, 0 for never
  Period,     \* the period of Heartbeat
  MaxTime,    \* bound: the clock of the model stops there
  None

ASSUME TimeoutAssumption == Timeout \in Nat
ASSUME MaxTimeAssumption == MaxTime \in Nat

(* The default, Timeout less a minute (registry.go:108): a period shorter   *)
(* than what the registry waits.                                            *)
ASSUME PeriodAssumption == Period \in Nat \ {0} /\ (Timeout = 0 \/ Period < Timeout)

Time == 0..MaxTime
ASSUME NoneAssumption == None \notin Int /\ None \notin Addrs

VARIABLES
  now,
  start,    \* start[a]: ServerItem.start of a, None where a has no item
  loop,     \* loop[a]: the goroutine of Heartbeat, not started, running or over
  due,      \* due[a]: when its ticker fires next, 0 where no loop runs
  heard     \* history: heard[a], when a was last said to be there

regVars == <<now, start, loop, due, heard>>

RegistryTypeOK ==
  /\ now \in Time
  /\ start \in [Addrs -> Time \cup {None}]
  /\ loop \in [Addrs -> {"off", "running", "over"}]
  /\ due \in [Addrs -> Nat]
  /\ heard \in [Addrs -> Int]

RegistryInit ==
  /\ now = 0
  /\ start = [a \in Addrs |-> None]
  /\ loop = [a \in Addrs |-> "off"]
  /\ due = [a \in Addrs |-> 0]
  /\ heard = [a \in Addrs |-> 0 - Timeout]

-----------------------------------------------------------------------------
(* The registry.                                                            *)

PutServer(a) ==
  /\ start' = [start EXCEPT ![a] = now]
  /\ heard' = [heard EXCEPT ![a] = now]

NeverExpires(a) == start[a] # None
Alive(a) == start[a] # None /\ (Timeout = 0 \/ start[a] + Timeout > now)

AliveServers == {a \in Addrs : Alive(a)}

(* GET: who is not alive is deleted.                                        *)
Expire ==
  /\ start' = [a \in Addrs |-> IF Alive(a) THEN start[a] ELSE None]
  /\ UNCHANGED <<now, loop, due, heard>>

-----------------------------------------------------------------------------
(* Heartbeat: one beat at once, then, in a goroutine, one per tick for as   *)
(* long as they succeed.                                                    *)

NextBeatLate == now + Timeout
NextBeat == now + Period

BeatSent(a) ==
  /\ PutServer(a)
  /\ loop' = [loop EXCEPT ![a] = "running"]
  /\ due' = [due EXCEPT ![a] = NextBeat]
  /\ UNCHANGED now

(* Not delivered, or delivered and the answer lost.                         *)
BeatFailed(a) ==
  /\ PutServer(a) \/ UNCHANGED <<start, heard>>
  /\ loop' = [loop EXCEPT ![a] = "over"]
  /\ due' = [due EXCEPT ![a] = 0]
  /\ UNCHANGED now

Heartbeat(a) == loop[a] = "off" /\ (BeatSent(a) \/ BeatFailed(a))
Beat(a) == loop[a] = "running" /\ due[a] = now /\ (BeatSent(a) \/ BeatFailed(a))

(* The server's process ends; it may be started again.                      *)
Crash(a) ==
  /\ loop[a] # "off"
  /\ loop' = [loop EXCEPT ![a] = "off"]
  /\ due' = [due EXCEPT ![a] = 0]
  /\ UNCHANGED <<now, start, heard>>

Tick ==
  /\ now < MaxTime
  /\ \A a \in Addrs : loop[a] = "running" => due[a] > now
  /\ now' = now + 1
  /\ UNCHANGED <<start, loop, due, heard>>

RegistryNext ==
  \/ \E a \in Addrs : Heartbeat(a) \/ Beat(a) \/ Crash(a)
  \/ Tick

-----------------------------------------------------------------------------
(* A server whose heartbeats succeed is listed at every moment, also in the *)
(* last instant before a beat and when somebody has just asked: the registry*)
(* never deletes it (registry.go:61-66).                                    *)
HeartbeatKeepsListed == \A a \in Addrs : loop[a] = "running" => Alive(a)

(* "Send a heartbeat periodically; if sending fails, keep retrying until it *)
(* succeeds" (registry.go:112): the loop is never over while the server is  *)
(* there.                                                                   *)
RetriesUntilSent == \A a \in Addrs : loop[a] # "over"
===============================================================================
