------------------------------- MODULE XClient -------------------------------
(***************************************************************************)
(* XClient (geerpc/xclient/xclient.go): Call and Broadcast over a cache of *)
(* geerpc Clients, one per server, shared by all its users.                *)
(*                                                                         *)
(* An operation o is one Call or one Broadcast, goroutine <<o, s>> its     *)
(* call to server s.  A Call is treated as a Broadcast to one server that  *)
(* wants no reply: the context Broadcast would cancel nobody uses any more, *)
(* and the reply of a Call goes to its Client as it is, uncloned           *)
(* (xclient.go:85); who writes to it is RpcClient's matter.  Which servers *)
(* Discovery names is any choice.                                          *)
(*                                                                         *)
(* A Client is seen from outside, as RpcCalls promises it: open, broken    *)
(* (lost, and not by Close) or closed; in Client.Call the request is       *)
(* written, which may take for ever, then the answer, the end of the       *)
(* connection or the end of the context is waited for.                     *)
(***************************************************************************)
EXTENDS Naturals, FiniteSets

CONSTANTS
  Ops, Servers,
  Clients,         \* the Clients XDial may make, a bound on the number of dials
  None, Unwanted   \* nothing; the reply of an operation called with reply = nil

Goroutines == Ops \X Servers

ASSUME NoneAssumption ==
  /\ None \notin Servers \cup Clients \cup Goroutines \cup {"failed", "cancelled", "ok"}
  /\ Unwanted \notin Servers \cup {None}

VARIABLES
  clients,   \* clients[s]: XClient.clients
  status,    \* status[c] of every Client
  mu,        \* the goroutine that holds XClient.mu while it dials
  state,     \* state[o]: Broadcast not called, running, returned
  servers,   \* servers[o]: the servers Discovery gave
  ctx,       \* ctx[o]: "live", or done by its "user" or by Broadcast's "own" cancel
  e, reply,  \* e[o] and reply[o] of Broadcast
  pc,        \* where a goroutine is
  client,    \* the Client its call uses
  err        \* what its call came to: "ok", "failed" or "cancelled"

poolVars == <<clients, status, mu>>
opVars == <<state, servers, ctx, e, reply>>
vars == <<poolVars, opVars, pc, client, err>>

Errors == {"failed", "cancelled"}

TypeOK ==
  /\ clients \in [Servers -> Clients \cup {None}]
  /\ status \in [Clients -> {"unused", "open", "broken", "closed"}]
  /\ mu \in Goroutines \cup {None}
  /\ state \in [Ops -> {"idle", "running", "returned"}]
  /\ servers \in [Ops -> SUBSET Servers]
  /\ ctx \in [Ops -> {"live", "user", "own"}]
  /\ e \in [Ops -> Errors \cup {None}]
  /\ reply \in [Ops -> Servers \cup {None, Unwanted}]
  /\ pc \in [Goroutines -> {"idle", "dial", "dialing", "send", "wait", "merge", "done"}]
  /\ client \in [Goroutines -> Clients \cup {None}]
  /\ err \in [Goroutines -> Errors \cup {"ok", None}]

-----------------------------------------------------------------------------
Init ==
  /\ clients = [s \in Servers |-> None]
  /\ status = [c \in Clients |-> "unused"]
  /\ mu = None
  /\ state = [o \in Ops |-> "idle"]
  /\ servers = [o \in Ops |-> {}]
  /\ ctx = [o \in Ops |-> "live"]
  /\ e = [o \in Ops |-> None]
  /\ reply = [o \in Ops |-> None]
  /\ pc = [g \in Goroutines |-> "idle"]
  /\ client = [g \in Goroutines |-> None]
  /\ err = [g \in Goroutines |-> None]

Goto(g, label) == pc' = [pc EXCEPT ![g] = label]
Came(g, r) == err' = [err EXCEPT ![g] = r] /\ Goto(g, "merge")

(* Broadcast starts a goroutine for each server; Call has the one server.   *)
Broadcast(o, S, r) ==
  /\ state[o] = "idle"
  /\ state' = [state EXCEPT ![o] = "running"]
  /\ servers' = [servers EXCEPT ![o] = S]
  /\ reply' = [reply EXCEPT ![o] = r]
  /\ pc' = [g \in Goroutines |-> IF g[1] = o /\ g[2] \in S THEN "dial" ELSE pc[g]]
  /\ UNCHANGED <<poolVars, ctx, e, client, err>>

Call(o, s) == Broadcast(o, {s}, Unwanted)

(* The user's context is cancelled or its time is over.                     *)
UserCancels(o) ==
  /\ state[o] = "running" /\ ctx[o] = "live"
  /\ ctx' = [ctx EXCEPT ![o] = "user"]
  /\ UNCHANGED <<poolVars, state, servers, e, reply, pc, client, err>>

-----------------------------------------------------------------------------
(* dial: a cached Client that is available is used at once; one that is not *)
(* is closed and forgotten, and mu is held while a new one is dialled.      *)

Dropped(c) == status
Closed(c) == IF c = None THEN status ELSE [status EXCEPT ![c] = "closed"]

IsAvailable(c) == c # None /\ status[c] = "open"

Cached(g) ==
  /\ pc[g] = "dial" /\ mu = None
  /\ IsAvailable(clients[g[2]])
  /\ client' = [client EXCEPT ![g] = clients[g[2]]]
  /\ Goto(g, "send")
  /\ UNCHANGED <<poolVars, opVars, err>>

StartDial(g) ==
  /\ pc[g] = "dial" /\ mu = None
  /\ ~IsAvailable(clients[g[2]])
  /\ status' = Closed(clients[g[2]])
  /\ clients' = [clients EXCEPT ![g[2]] = None]
  /\ mu' = g
  /\ Goto(g, "dialing")
  /\ UNCHANGED <<opVars, client, err>>

Dialled(g) ==
  /\ pc[g] = "dialing"
  /\ \E c \in Clients :
       /\ status[c] = "unused"
       /\ status' = [status EXCEPT ![c] = "open"]
       /\ clients' = [clients EXCEPT ![g[2]] = c]
       /\ client' = [client EXCEPT ![g] = c]
  /\ mu' = None
  /\ Goto(g, "send")
  /\ UNCHANGED <<opVars, err>>

NotDialled(g) ==
  /\ pc[g] = "dialing"
  /\ mu' = None
  /\ Came(g, "failed")
  /\ UNCHANGED <<clients, status, opVars, client>>

(* Close closes what is cached; a dial after it fills the cache again.      *)
Close ==
  /\ mu = None
  /\ \E s \in Servers : clients[s] # None
  /\ status' = [c \in Clients |-> IF \E s \in Servers : clients[s] = c THEN "closed" ELSE status[c]]
  /\ clients' = [s \in Servers |-> None]
  /\ UNCHANGED <<mu, opVars, pc, client, err>>

(* A connection ends; its Client's receive has set shutdown.                *)
Break(c) ==
  /\ status[c] = "open"
  /\ status' = [status EXCEPT ![c] = "broken"]
  /\ UNCHANGED <<clients, mu, opVars, pc, client, err>>

-----------------------------------------------------------------------------
(* Client.Call.                                                             *)

(* Written or Refused of RpcCalls; which of the two shows in the outcome.   *)
Sent(g) ==
  /\ pc[g] = "send"
  /\ Goto(g, "wait")
  /\ UNCHANGED <<poolVars, opVars, client, err>>

(* Return of RpcCalls, of a call refused or lost with its connection ...    *)
Ended(g) ==
  /\ pc[g] \in {"send", "wait"} /\ status[client[g]] # "open"
  /\ Came(g, "failed")
  /\ UNCHANGED <<poolVars, opVars, client>>

(* ... or of any other, with any outcome.                                   *)
Answered(g) ==
  /\ pc[g] = "wait"
  /\ \E r \in {"ok", "failed"} : Came(g, r)
  /\ UNCHANGED <<poolVars, opVars, client>>

(* Cancel: the context is looked at only once the request has been written. *)
Uncancellable(g) == FALSE
ContextDone(g) == pc[g] = "wait" /\ ctx[g[1]] # "live"

Cancelled(g) ==
  /\ ContextDone(g)
  /\ Came(g, "cancelled")
  /\ UNCHANGED <<poolVars, opVars, client>>

-----------------------------------------------------------------------------
(* The end of a goroutine of Broadcast, under Broadcast's own mu.           *)

AnyError(g) == err[g] # "ok"
FirstError(g) == err[g] # "ok" /\ e[g[1]] = None

LastReply(g) == IF err[g] = "ok" THEN [reply EXCEPT ![g[1]] = g[2]] ELSE reply
AnyReply(g) == IF reply[g[1]] = None THEN [reply EXCEPT ![g[1]] = g[2]] ELSE reply
FirstReply(g) ==
  IF err[g] = "ok" /\ reply[g[1]] = None THEN [reply EXCEPT ![g[1]] = g[2]] ELSE reply

Merge(g) ==
  /\ pc[g] = "merge"
  /\ IF FirstError(g)
     THEN /\ e' = [e EXCEPT ![g[1]] = err[g]]
          /\ ctx' = [ctx EXCEPT ![g[1]] = IF @ = "live" THEN "own" ELSE @]
     ELSE UNCHANGED <<e, ctx>>
  /\ reply' = FirstReply(g)
  /\ Goto(g, "done")
  /\ UNCHANGED <<poolVars, state, servers, client, err>>

AllAreDone(o) == \A s \in servers[o] : pc[<<o, s>>] = "done"

Return(o) ==
  /\ state[o] = "running" /\ AllAreDone(o)
  /\ state' = [state EXCEPT ![o] = "returned"]
  /\ UNCHANGED <<poolVars, servers, ctx, e, reply, pc, client, err>>

-----------------------------------------------------------------------------
(* What a goroutine does whatever the servers do.                           *)
Step(g) ==
  Cached(g) \/ StartDial(g) \/ Dialled(g) \/ NotDialled(g) \/ Ended(g) \/ Cancelled(g) \/ Merge(g)

Next ==
  \/ \E o \in Ops :
       \/ \E S \in SUBSET Servers, r \in {None, Unwanted} : Broadcast(o, S, r)
       \/ \E s \in Servers : Call(o, s)
       \/ UserCancels(o) \/ Return(o)
  \/ \E g \in Goroutines : Step(g) \/ Sent(g) \/ Answered(g)
  \/ Close
  \/ \E c \in Clients : Break(c)

Spec == Init /\ [][Next]_vars

(* Goroutines are scheduled, and XDial ends, at the latest after            *)
(* ConnectTimeout.  No server has to read or to answer.                     *)
Fairness ==
  /\ \A g \in Goroutines : WF_vars(Step(g))
  /\ \A o \in Ops : WF_vars(Return(o))

FairSpec == Spec /\ Fairness

-----------------------------------------------------------------------------
(* No Client is lost: one that is open or broken is the cached one of some  *)
(* server, so that Close or a later dial closes it (xclient.go:36-39 and    *)
(* 49-54); and a Client is cached for one server only.                      *)
NoClientLost ==
  /\ \A c \in Clients : status[c] \in {"open", "broken"} => \E s \in Servers : clients[s] = c
  /\ \A s, t \in Servers : clients[s] = clients[t] /\ clients[s] # None => s = t

(* Calls of one operation end in any order, but what Broadcast reports is   *)
(* the cause: an error that only echoes its own cancel (xclient.go:119)     *)
(* never takes the place of the error that led to it.                       *)
CauseReported == \A o \in Ops : e[o] = "cancelled" => ctx[o] = "user"

(* When Broadcast returns, its error is nil exactly if every call succeeded,*)
(* and the caller has the reply of a server that succeeded if one did       *)
(* (xclient.go:115-131).                                                    *)
ResultOfAll ==
  \A o \in Ops : state[o] = "returned" =>
    /\ e[o] = None <=> \A s \in servers[o] : err[<<o, s>>] = "ok"
    /\ reply[o] \in Servers => reply[o] \in servers[o] /\ err[<<o, reply[o]>>] = "ok"
    /\ reply[o] = None => \A s \in servers[o] : err[<<o, s>>] # "ok"

(* "Broadcast the request to all server instances; return as soon as the    *)
(* call of one of them has succeeded": the comment of Broadcast             *)
(* (xclient.go:88, translated).  The code waits for all of them (130).      *)
ReturnsOnFirstSuccess ==
  \A o \in Ops :
    (\E s \in Servers : pc[<<o, s>>] = "done" /\ err[<<o, s>>] = "ok") ~> state[o] = "returned"

(* The error and the reply are set at most once each, and never after       *)
(* Broadcast has returned, when its caller reads them without a lock.       *)
ResultSetOnce ==
  [][\A o \in Ops : state[o] # "idle" =>
       /\ e[o] # None \/ state[o] = "returned" => e'[o] = e[o]
       /\ reply[o] # None \/ state[o] = "returned" => reply'[o] = reply[o]]_vars

(* Who has a step of its own, whatever the servers do.                      *)
Goes(g) ==
  \/ pc[g] \in {"dialing", "merge"}
  \/ pc[g] = "dial" /\ mu = None
  \/ pc[g] \in {"send", "wait"} /\ status[client[g]] # "open"
  \/ ContextDone(g)

(* A goroutine of an operation waits for no other of the same or another    *)
(* operation but the one that dials, and that one goes on; else for the     *)
(* server, and for its answer only while the context is live.  So one       *)
(* server that hangs holds up nobody who asks another, dials apart.         *)
WaitsEnd ==
  \A g \in Goroutines : pc[g] \notin {"idle", "done"} =>
    \/ Goes(g)
    \/ pc[g] = "dial" /\ mu # None /\ Goes(mu)
    \/ pc[g] = "send" /\ status[client[g]] = "open"
    \/ pc[g] = "wait" /\ status[client[g]] = "open" /\ ctx[g[1]] = "live"

(* "context.WithCancel makes sure it fails fast when an error happens"      *)
(* (xclient.go:101): once the context of an operation is done, by the user  *)
(* or by the first error, the operation returns, though no server may ever  *)
(* answer; unless a call of it stays in the writing of its request.         *)
FailFast ==
  \A o \in Ops :
    (\A s \in Servers : []<>(pc[<<o, s>>] # "send"))
      => (ctx[o] # "live" ~> state[o] = "returned")

-----------------------------------------------------------------------------
(* The inductive invariant behind these properties.                         *)

(* What is cached has been dialled and not been closed.                     *)
CachedInUse ==
  \A s \in Servers : clients[s] # None => status[clients[s]] \in {"open", "broken"}

(* Who dials holds mu, and has no Client cached for its server.             *)
Dialling ==
  \A g \in Goroutines : pc[g] = "dialing" => mu = g /\ clients[g[2]] = None

(* mu is held by who dials, and by nobody who has gone on without it.       *)
HeldToDial == mu # None => pc[mu] = "dialing"

(* The goroutines of an operation are those of its servers.                 *)
Ran ==
  \A o \in Ops :
    /\ state[o] = "idle" => servers[o] = {} /\ e[o] = None
    /\ \A s \in Servers :
         /\ pc[<<o, s>>] # "idle" <=> s \in servers[o]
         /\ state[o] = "returned" /\ s \in servers[o] => pc[<<o, s>>] = "done"

Outcomes ==
  \A g \in Goroutines :
    /\ pc[g] \in {"send", "wait"} => client[g] # None
    /\ err[g] # None <=> pc[g] \in {"merge", "done"}
    /\ err[g] = "cancelled" => ctx[g[1]] # "live"

(* What has been merged so far, and nothing else, is in e and reply.        *)
Merged ==
  \A o \in Ops :
    /\ ctx[o] = "own" => e[o] # None
    /\ e[o] # None => \E s \in servers[o] : pc[<<o, s>>] = "done" /\ err[<<o, s>>] # "ok"
    /\ reply[o] \in Servers =>
         reply[o] \in servers[o] /\ pc[<<o, reply[o]>>] = "done" /\ err[<<o, reply[o]>>] = "ok"
    /\ \A s \in servers[o] : pc[<<o, s>>] = "done" =>
         IF err[<<o, s>>] = "ok" THEN reply[o] # None ELSE e[o] # None

Inv == /\ TypeOK /\ NoClientLost /\ CachedInUse /\ Dialling
       /\ Ran /\ Outcomes /\ CauseReported /\ Merged
==============================================================================
