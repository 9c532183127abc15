------------------------------- MODULE RpcCalls -------------------------------
(***************************************************************************)
(* What a geerpc Client promises those who share it, whatever happens on   *)
(* its connection: a call has one outcome, a success comes with the reply  *)
(* to that very call, a caller waits no longer than its context allows     *)
(* once the request is written, and the loss of the connection ends every  *)
(* call at once.  RpcClient implements this; XClient is built on it.       *)
(***************************************************************************)
CONSTANTS Calls, NoCall

VARIABLES
  closed,    \* Close has been called
  lost,      \* the Client is shut down: its connection is lost
  call,      \* call[c]: "idle", "send", "wait" or "returned"
  outcome,   \* outcome[c]: "none", "ok" or "failed"
  reply,     \* reply[c]: whose call the value in c's reply answers
  expired,   \* expired[c]: c's context is done
  ret        \* ret[c]: "none", "cancelled", or the outcome returned

vars == <<closed, lost, call, outcome, reply, expired, ret>>

Init ==
  /\ closed = FALSE /\ lost = FALSE
  /\ call = [c \in Calls |-> "idle"]
  /\ outcome = [c \in Calls |-> "none"]
  /\ reply = [c \in Calls |-> NoCall]
  /\ expired = [c \in Calls |-> FALSE]
  /\ ret = [c \in Calls |-> "none"]

Goto(c, from, to) == call[c] = from /\ call' = [call EXCEPT ![c] = to]

Start(c) ==
  /\ Goto(c, "idle", "send")
  /\ UNCHANGED <<closed, lost, outcome, reply, expired, ret>>

(* The request is written, or nobody can tell that it is not.               *)
Written(c) ==
  /\ Goto(c, "send", "wait")
  /\ ~lost
  /\ UNCHANGED <<closed, lost, outcome, reply, expired, ret>>

Refused(c) ==
  /\ Goto(c, "send", "wait")
  /\ outcome[c] = "none" /\ outcome' = [outcome EXCEPT ![c] = "failed"]
  /\ UNCHANGED <<closed, lost, reply, expired, ret>>

(* An answer may come before its request has been written to the end, and   *)
(* when the caller has gone.                                                *)
Succeed(c) ==
  /\ call[c] # "idle" /\ ~lost
  /\ outcome[c] = "none" /\ outcome' = [outcome EXCEPT ![c] = "ok"]
  /\ reply' = [reply EXCEPT ![c] = c]
  /\ UNCHANGED <<closed, lost, call, expired, ret>>

Fail(c) ==
  /\ call[c] # "idle" /\ ~lost
  /\ outcome[c] = "none" /\ outcome' = [outcome EXCEPT ![c] = "failed"]
  /\ UNCHANGED <<closed, lost, call, reply, expired, ret>>

Close ==
  /\ closed' = TRUE
  /\ UNCHANGED <<lost, call, outcome, reply, expired, ret>>

(* All who wait are told together; those who have not come to wait will be  *)
(* refused.                                                                 *)
Lose ==
  /\ ~lost /\ lost' = TRUE
  /\ outcome' = [c \in Calls |-> IF call[c] = "wait" /\ outcome[c] = "none"
                                 THEN "failed" ELSE outcome[c]]
  /\ UNCHANGED <<closed, call, reply, expired, ret>>

Expire(c) ==
  /\ call[c] \in {"send", "wait"}
  /\ expired' = [expired EXCEPT ![c] = TRUE]
  /\ UNCHANGED <<closed, lost, call, outcome, reply, ret>>

Return(c) ==
  /\ Goto(c, "wait", "returned")
  /\ outcome[c] # "none" /\ ret' = [ret EXCEPT ![c] = outcome[c]]
  /\ UNCHANGED <<closed, lost, outcome, reply, expired>>

Cancel(c) ==
  /\ Goto(c, "wait", "returned")
  /\ expired[c] /\ ret' = [ret EXCEPT ![c] = "cancelled"]
  /\ UNCHANGED <<closed, lost, outcome, reply, expired>>

Next ==
  \/ \E c \in Calls : \/ Start(c) \/ Written(c) \/ Refused(c)
                      \/ Succeed(c) \/ Fail(c)
                      \/ Expire(c) \/ Return(c) \/ Cancel(c)
  \/ Close
  \/ Lose

Spec == Init /\ [][Next]_vars
=============================================================================
