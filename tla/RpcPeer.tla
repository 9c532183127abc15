------------------------------- MODULE RpcPeer -------------------------------
(***************************************************************************)
(* What the two ends of a geerpc connection promise each other, as seen on *)
(* the wire: a client sends a request once; whoever serves the connection  *)
(* answers a request only after having read it, and at most once; answers  *)
(* come in any order; anything may be lost with the connection.            *)
(*                                                                         *)
(* Both ends are shown to keep it: RpcClient in RpcWire, RpcServer by      *)
(* itself.  What RpcClient assumes of its peer (its actions PeerReads,     *)
(* PeerAnswers and PeerGone) is what RpcServer implements.                 *)
(***************************************************************************)
CONSTANTS Requests, Kinds

VARIABLES
  wire,     \* requests sent and not read
  served,   \* requests read and not answered
  answers   \* every answer given so far

vars == <<wire, served, answers>>

Answered == {m.req : m \in answers}

Init ==
  /\ wire = {}
  /\ served = {}
  /\ answers = {}

Send(r) ==
  /\ r \in Requests
  /\ r \notin wire \cup served \cup Answered
  /\ wire' = wire \cup {r}
  /\ UNCHANGED <<served, answers>>

Read(r) ==
  /\ r \in wire
  /\ wire' = wire \ {r}
  /\ served' = served \cup {r}
  /\ UNCHANGED answers

Answer(r, kind) ==
  /\ r \in served
  /\ served' = served \ {r}
  /\ answers' = answers \cup {[req |-> r, kind |-> kind]}
  /\ UNCHANGED wire

(* What was not read, or read and not answered, goes with the connection.   *)
Lose ==
  /\ wire' \subseteq wire
  /\ served' \subseteq served
  /\ UNCHANGED answers

Next ==
  \/ \E r \in wire' : Send(r)
  \/ \E r \in wire : Read(r)
  \/ \E r \in served, kind \in Kinds : Answer(r, kind)
  \/ Lose

Spec == Init /\ [][Next]_vars
=============================================================================
