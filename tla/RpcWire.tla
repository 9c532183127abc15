-------------------------------- MODULE RpcWire --------------------------------
(***************************************************************************)
(* One Client and what goes over its connection: RpcClient with a record   *)
(* of the answers, by which it is shown to be an end of RpcPeer.  Nothing  *)
(* it does depends on the record.                                          *)
(***************************************************************************)
EXTENDS RpcClient

VARIABLE answers   \* history: every answer given so far

InOrder(M) == {[req |-> m.seq, kind |-> m.kind] : m \in M}

WireInit == Init /\ answers = {}
WireNext == Next /\ answers' = answers \cup InOrder(inbox')
WireSpec == WireInit /\ [][WireNext]_<<vars, answers>>
FairWireSpec ==
  /\ WireSpec
  /\ \A c \in Calls : WF_vars(Caller(c))
  /\ WF_vars(Receive)

SeqsOf(R) == {r.seq : r \in R}

Conn == INSTANCE RpcPeer WITH
  Requests <- Seqs,
  wire <- SeqsOf(wire),
  served <- SeqsOf(served)

(* Sequence numbers are all that ties an answer to its request (client.go:  *)
(* 86-90, 258 and 130): whatever the senders that share the number and the  *)
(* header do, no number goes out twice, and what comes back answers one     *)
(* that went out.                                                           *)
ImplementsPeer == Conn!Spec

(* Who is about to write has a number that never went out.                  *)
NumberUnused ==
  /\ \A c \in Calls : pc[c] = "write" =>
       callSeq[c] \notin SeqsOf(wire) \cup SeqsOf(served) \cup Conn!Answered
  /\ \A m \in answers : m.req \in Seqs /\ m.req < seq
  /\ InOrder(inbox) \subseteq answers
===============================================================================
