------------------------------ MODULE RpcClient ------------------------------
(***************************************************************************)
(* One geerpc Client (geerpc/client.go) and the goroutines that use it:    *)
(* any number of goroutines inside Client.Call, the goroutine that runs    *)
(* receive, and the user of Close.  A Call is sent under the mutex         *)
(* `sending', recorded in the map `pending' under the mutex `mu', and      *)
(* completed by exactly one of three parties: the sender whose Write       *)
(* failed, receive when the answer arrives, or terminateCalls when the     *)
(* connection is lost.  A fourth party, the caller whose context expires,  *)
(* only withdraws the call.                                                *)
(*                                                                         *)
(* Granularity: a critical section of `mu' never blocks, so each is one    *)
(* step.  `sending' is held across a Write that may block, so its owner is *)
(* a variable.  The peer is an environment that answers each request it    *)
(* read at most once, in any order, and may vanish; RpcServer models what  *)
(* the repository's own peer does.                                         *)
(***************************************************************************)
EXTENDS Naturals, FiniteSets, Functions

CONSTANTS
  Calls,    \* the invocations of Client.Call, one goroutine each
  NoCall,   \* the nil *Call
  WireCap   \* how many requests the transport holds before a Write blocks

ASSUME NoCallAssumption == NoCall \notin Calls
ASSUME WireCapAssumption == WireCap \in Nat \ {0}

VARIABLES
  seq,        \* Client.seq, the number of the next request
  pending,    \* Client.pending, from sequence number to Call
  closing,    \* Client.closing, set by Close
  shutdown,   \* Client.shutdown, set by terminateCalls
  sending,    \* owner of Client.sending, or NoCall
  header,     \* the Seq in Client.header, shared by all senders
  sticky,     \* bufio.Writer's sticky error inside the codec
  conn,       \* "open", "peer" (the peer is gone), "local" (closed here)
  wire,       \* requests the transport holds
  served,     \* requests the peer has read and not answered
  inbox,      \* answers in flight to the client
  pc,         \* where each calling goroutine is
  callSeq,    \* Call.Seq, 0 until registered
  callErr,    \* Call.Error
  done,       \* how many times Call.done() sent on Call.Done
  reply,      \* whose arguments the value in Call.Reply answers, or NoCall
  expired,    \* whether the context given to Client.Call is done
  ret,        \* what Client.Call returned
  rpc,        \* where receive is
  answer,     \* the header receive read last
  claimed     \* the call receive took out of pending, or NoCall

callVars == <<pc, callSeq, callErr, done, reply, expired, ret>>
netVars == <<sticky, conn, wire, served, inbox>>
recvVars == <<rpc, answer, claimed>>
vars == <<seq, pending, closing, shutdown, sending, header, callVars, netVars, recvVars>>

-----------------------------------------------------------------------------
(* The wire: a request is its sequence number and the call whose Args were  *)
(* encoded; an answer echoes both.                                          *)

Seqs == Nat \ {0}
Request == [seq : Seqs, args : Calls]
Kinds == {"ok", "err", "badBody"}
Answer == [seq : Seqs, args : Calls, kind : Kinds]
NoAnswer == [seq |-> 0, args |-> NoCall, kind |-> "err"]
Errors == {"nil", "shutdown", "write", "remote", "body", "conn"}

InSend == {"register", "write", "tail", "failed"}   \* the labels inside `sending'
Labels == {"idle", "lock", "wait", "cancel", "returned"} \cup InSend

TypeOK ==
  /\ seq \in Seqs
  /\ DOMAIN pending \subseteq Seqs
  /\ \A s \in DOMAIN pending : pending[s] \in Calls
  /\ pending = [s \in DOMAIN pending |-> pending[s]]
  /\ closing \in BOOLEAN /\ shutdown \in BOOLEAN /\ sticky \in BOOLEAN
  /\ sending \in Calls \cup {NoCall}
  /\ header \in Nat
  /\ conn \in {"open", "peer", "local"}
  /\ wire \subseteq Request /\ served \subseteq Request
  /\ inbox \subseteq Answer
  /\ pc \in [Calls -> Labels]
  /\ callSeq \in [Calls -> Nat]
  /\ callErr \in [Calls -> Errors]
  /\ done \in [Calls -> Nat]
  /\ reply \in [Calls -> Calls \cup {NoCall}]
  /\ expired \in [Calls -> BOOLEAN]
  /\ ret \in [Calls -> Errors \cup {"none", "timeout"}]
  /\ rpc \in {"header", "remove", "body", "terminate", "stopped"}
  /\ answer \in Answer \cup {NoAnswer}
  /\ claimed \in Calls \cup {NoCall}

-----------------------------------------------------------------------------
FirstSeq == 1

(* NewClient: nothing pending, the first sequence number is 1, receive is   *)
(* started at once.                                                         *)
Init ==
  /\ seq = FirstSeq
  /\ pending = [s \in {} |-> NoCall]
  /\ closing = FALSE
  /\ shutdown = FALSE
  /\ sending = NoCall
  /\ header = 0
  /\ sticky = FALSE
  /\ conn = "open"
  /\ wire = {}
  /\ served = {}
  /\ inbox = {}
  /\ pc = [c \in Calls |-> "idle"]
  /\ callSeq = [c \in Calls |-> 0]
  /\ callErr = [c \in Calls |-> "nil"]
  /\ done = [c \in Calls |-> 0]
  /\ reply = [c \in Calls |-> NoCall]
  /\ expired = [c \in Calls |-> FALSE]
  /\ ret = [c \in Calls |-> "none"]
  /\ rpc = "header"
  /\ answer = NoAnswer
  /\ claimed = NoCall

-----------------------------------------------------------------------------
(* Helpers on the map and on a Call.                                        *)

WithEntry(m, s, c) == [x \in DOMAIN m \cup {s} |-> IF x = s THEN c ELSE m[x]]

(* removeCall leaves the map without s ...                                  *)
RemoveCall(s) == Restrict(pending, DOMAIN pending \ {s})

(* ... and returns what the map held, nil when s was not in it.             *)
CallAt(s) == IF s \in DOMAIN pending THEN pending[s] ELSE NoCall

(* call.Error = err; call.done(), for every call in S.  Done has a buffer   *)
(* of 10 and never blocks.                                                  *)
Finish(S, err) ==
  /\ callErr' = [c \in Calls |-> IF c \in S THEN err ELSE callErr[c]]
  /\ done' = [c \in Calls |-> IF c \in S THEN done[c] + 1 ELSE done[c]]

Goto(c, label) == pc' = [pc EXCEPT ![c] = label]

(* A closed or abandoned connection may or may not fail an operation that   *)
(* is under way; an open one does not.                                      *)
Broken == conn # "open"

-----------------------------------------------------------------------------
(* Client.Call: Go builds the Call and enters send.                         *)
Go(c) ==
  /\ pc[c] = "idle"
  /\ Goto(c, "lock")
  /\ UNCHANGED <<seq, pending, closing, shutdown, sending, header, callSeq,
                 callErr, done, reply, expired, ret, netVars, recvVars>>

SendingIgnored == TRUE
SendingFree == sending = NoCall

(* send: client.sending.Lock().                                             *)
LockSending(c) ==
  /\ pc[c] = "lock"
  /\ SendingFree
  /\ sending' = c
  /\ Goto(c, "register")
  /\ UNCHANGED <<seq, pending, closing, shutdown, header, callSeq, callErr,
                 done, reply, expired, ret, netVars, recvVars>>

MayRegisterOnceShut == ~closing
MayRegister == ~closing /\ ~shutdown

(* send: registerCall succeeds and the shared header is filled in.          *)
RegisterCall(c) ==
  /\ pc[c] = "register"
  /\ MayRegister
  /\ callSeq' = [callSeq EXCEPT ![c] = seq]
  /\ pending' = WithEntry(pending, seq, c)
  /\ seq' = seq + 1
  /\ header' = seq
  /\ Goto(c, "write")
  /\ UNCHANGED <<closing, shutdown, sending, callErr, done, reply, expired,
                 ret, netVars, recvVars>>

(* send: registerCall refuses with ErrShutdown; the deferred Unlock frees   *)
(* `sending'.                                                               *)
RegisterRefused(c) ==
  /\ pc[c] = "register"
  /\ ~MayRegister
  /\ Finish({c}, "shutdown")
  /\ sending' = NoCall
  /\ Goto(c, "wait")
  /\ UNCHANGED <<seq, pending, closing, shutdown, header, callSeq, reply,
                 expired, ret, netVars, recvVars>>

(* GobCodec.Write, successful: the encoded message fits bufio's buffer and  *)
(* Flush hands it to the transport.  While the transport is full and open   *)
(* no step is enabled: the Write blocks and `sending' stays held.           *)
WriteFlushed(c) ==
  /\ pc[c] = "write"
  /\ ~Broken /\ ~sticky
  /\ Cardinality(wire) < WireCap
  /\ wire' = wire \cup {[seq |-> header, args |-> c]}
  /\ sending' = NoCall
  /\ Goto(c, "wait")
  /\ UNCHANGED <<seq, pending, closing, shutdown, header, callSeq, callErr,
                 done, reply, expired, ret, sticky, conn, served, inbox, recvVars>>

(* The header goes out before the body: of a message larger than the        *)
(* buffer, or of one whose Args gob cannot encode, as the deferred Flush    *)
(* comes before the Close (codec/gob.go:43-48).                             *)
WriteHead(c) ==
  /\ pc[c] = "write"
  /\ ~Broken /\ ~sticky
  /\ Cardinality(wire) < WireCap
  /\ wire' = wire \cup {[seq |-> header, args |-> c]}
  /\ Goto(c, "tail")
  /\ UNCHANGED <<seq, pending, closing, shutdown, sending, header, callSeq,
                 callErr, done, reply, expired, ret, sticky, conn, served,
                 inbox, recvVars>>

(* A write after the connection is lost: the operating system may still     *)
(* accept it when only the peer is gone; if it reports an error, bufio keeps *)
(* it.                                                                      *)
WriteToNobody ==
  /\ Broken
  /\ \/ sticky' = TRUE
     \/ conn = "peer" /\ UNCHANGED sticky

(* The end of that message goes out once the peer has made room for it.     *)
WriteTail(c) ==
  /\ pc[c] = "tail"
  /\ \/ WriteToNobody
     \/ /\ ~Broken
        /\ [seq |-> header, args |-> c] \notin wire
        /\ UNCHANGED sticky
  /\ sending' = NoCall
  /\ Goto(c, "wait")
  /\ UNCHANGED <<seq, pending, closing, shutdown, header, callSeq, callErr,
                 done, reply, expired, ret, conn, wire, served, inbox, recvVars>>

(* GobCodec.Write on a lost connection: encoding into the buffer succeeds   *)
(* and the error of Flush is dropped (`_ = c.buf.Flush()'), so Write        *)
(* returns nil although nothing was sent.                                   *)
WriteLost(c) ==
  /\ pc[c] = "write"
  /\ ~sticky
  /\ WriteToNobody
  /\ sending' = NoCall
  /\ Goto(c, "wait")
  /\ UNCHANGED <<seq, pending, closing, shutdown, header, callSeq, callErr,
                 done, reply, expired, ret, conn, wire, served, inbox, recvVars>>

(* GobCodec.Write fails: Args that gob cannot encode, a sticky error, or a  *)
(* connection lost under a message larger than the buffer; the header may   *)
(* have left before.  The deferred function closes the connection, then     *)
(* send goes on to removeCall.                                              *)
WriteFails(c) ==
  /\ pc[c] \in {"write", "tail"}
  /\ conn' = "local"
  /\ Goto(c, "failed")
  /\ UNCHANGED <<seq, pending, closing, shutdown, sending, header, callSeq,
                 callErr, done, reply, expired, ret, sticky, wire, served,
                 inbox, recvVars>>

(* send after a failed Write: removeCall(seq); the call is completed only   *)
(* if it was still in the map.                                              *)
SendFailed(c) ==
  /\ pc[c] = "failed"
  /\ Finish({CallAt(callSeq[c])} \cap Calls, "write")
  /\ pending' = RemoveCall(callSeq[c])
  /\ sending' = NoCall
  /\ Goto(c, "wait")
  /\ UNCHANGED <<seq, closing, shutdown, header, callSeq, reply, expired, ret,
                 netVars, recvVars>>

(* Call: the select takes `call := <-call.Done'.                            *)
ReturnDone(c) ==
  /\ pc[c] = "wait"
  /\ done[c] > 0
  /\ ret' = [ret EXCEPT ![c] = callErr[c]]
  /\ Goto(c, "returned")
  /\ UNCHANGED <<seq, pending, closing, shutdown, sending, header, callSeq,
                 callErr, done, reply, expired, netVars, recvVars>>

(* Call: the select takes `<-ctx.Done()', even when Done is ready too.      *)
TakeExpired(c) ==
  /\ pc[c] = "wait"
  /\ expired[c]
  /\ Goto(c, "cancel")
  /\ UNCHANGED <<seq, pending, closing, shutdown, sending, header, callSeq,
                 callErr, done, reply, expired, ret, netVars, recvVars>>

Withdrawn(c) == RemoveCall(callSeq[c])

(* Call: removeCall(call.Seq) and return the context's error.               *)
ReturnExpired(c) ==
  /\ pc[c] = "cancel"
  /\ pending' = Withdrawn(c)
  /\ ret' = [ret EXCEPT ![c] = "timeout"]
  /\ Goto(c, "returned")
  /\ UNCHANGED <<seq, closing, shutdown, sending, header, callSeq, callErr,
                 done, reply, expired, netVars, recvVars>>

(* The caller's context is cancelled or its deadline passes.                *)
Expire(c) ==
  /\ pc[c] \notin {"idle", "returned"}
  /\ ~expired[c]
  /\ expired' = [expired EXCEPT ![c] = TRUE]
  /\ UNCHANGED <<seq, pending, closing, shutdown, sending, header, pc, callSeq,
                 callErr, done, reply, ret, netVars, recvVars>>

(* Client.Close: the first call closes the codec; a second one only returns *)
(* ErrShutdown.                                                             *)
Close ==
  /\ ~closing
  /\ closing' = TRUE
  /\ conn' = "local"
  /\ UNCHANGED <<seq, pending, shutdown, sending, header, callVars, sticky,
                 wire, served, inbox, recvVars>>

-----------------------------------------------------------------------------
(* The goroutine that runs receive.                                         *)

(* ReadHeader returns the next answer; what a peer that is gone delivered,  *)
(* and what the decoder buffered before Close, can still be read.           *)
ReadHeader ==
  /\ rpc = "header"
  /\ \E m \in inbox : answer' = m /\ inbox' = inbox \ {m}
  /\ rpc' = "remove"
  /\ UNCHANGED <<seq, pending, closing, shutdown, sending, header, callVars,
                 sticky, conn, wire, served, claimed>>

(* ReadHeader fails: end of file, reset, or closed here.                    *)
ReadHeaderFails ==
  /\ rpc = "header"
  /\ Broken
  /\ rpc' = "terminate"
  /\ UNCHANGED <<seq, pending, closing, shutdown, sending, header, callVars,
                 netVars, answer, claimed>>

LookedUp == pending
TakenOut == RemoveCall(answer.seq)

(* call := client.removeCall(h.Seq).                                        *)
ClaimCall ==
  /\ rpc = "remove"
  /\ claimed' = CallAt(answer.seq)
  /\ pending' = TakenOut
  /\ rpc' = "body"
  /\ UNCHANGED <<seq, closing, shutdown, sending, header, callVars, netVars,
                 answer>>

(* The loop goes on unless the body could not be read.                      *)
NextHeader ==
  \/ rpc' = "header"
  \/ Broken /\ rpc' = "terminate"

(* case call == nil: the call was withdrawn or never known; skip the body.  *)
DropAnswer ==
  /\ rpc = "body"
  /\ claimed = NoCall
  /\ NextHeader
  /\ UNCHANGED <<seq, pending, closing, shutdown, sending, header, callVars,
                 netVars, answer, claimed>>

(* case h.Error # "": the server reported an error.                         *)
DeliverError ==
  /\ rpc = "body"
  /\ claimed # NoCall
  /\ answer.kind = "err"
  /\ Finish({claimed}, "remote")
  /\ NextHeader
  /\ claimed' = NoCall
  /\ UNCHANGED <<seq, pending, closing, shutdown, sending, header, pc, callSeq,
                 reply, expired, ret, netVars, answer>>

(* default: the body is decoded into call.Reply, then done().               *)
DeliverReply ==
  /\ rpc = "body"
  /\ claimed # NoCall
  /\ answer.kind = "ok"
  /\ reply' = [reply EXCEPT ![claimed] = answer.args]
  /\ Finish({claimed}, "nil")
  /\ rpc' = "header"
  /\ claimed' = NoCall
  /\ UNCHANGED <<seq, pending, closing, shutdown, sending, header, pc, callSeq,
                 expired, ret, netVars, answer>>

(* default: the body does not fit call.Reply or the connection is lost.     *)
DeliverBadBody ==
  /\ rpc = "body"
  /\ claimed # NoCall
  /\ \/ answer.kind = "badBody"
     \/ answer.kind = "ok" /\ Broken
  /\ Finish({claimed}, "body")
  /\ rpc' = "terminate"
  /\ claimed' = NoCall
  /\ UNCHANGED <<seq, pending, closing, shutdown, sending, header, pc, callSeq,
                 reply, expired, ret, netVars, answer>>

NoSendersExcluded == TRUE
SendersExcluded == sending = NoCall

NobodyNotified == {}
Notified == Range(pending)

(* terminateCalls: waits for `sending', then marks the client shut down and *)
(* completes everything pending.  The entries stay in the map.              *)
TerminateCalls ==
  /\ rpc = "terminate"
  /\ SendersExcluded
  /\ shutdown' = TRUE
  /\ Finish(Notified, "conn")
  /\ rpc' = "stopped"
  /\ UNCHANGED <<seq, pending, closing, sending, header, pc, callSeq, reply,
                 expired, ret, netVars, answer, claimed>>

-----------------------------------------------------------------------------
(* The peer.  A request of which only the beginning has left can at most be *)
(* refused.                                                                 *)

PeerReads(r) ==
  /\ ~Broken
  /\ r \in wire
  /\ wire' = wire \ {r}
  /\ served' = served \cup {r}
  /\ UNCHANGED <<seq, pending, closing, shutdown, sending, header, callVars,
                 sticky, conn, inbox, recvVars>>

PeerAnswers(r, kind) ==
  /\ ~Broken
  /\ r \in served
  /\ pc[r.args] = "tail" => kind = "err"
  /\ served' = served \ {r}
  /\ inbox' = inbox \cup {[seq |-> r.seq, args |-> r.args, kind |-> kind]}
  /\ UNCHANGED <<seq, pending, closing, shutdown, sending, header, callVars,
                 sticky, conn, wire, recvVars>>

PeerGone ==
  /\ ~Broken
  /\ conn' = "peer"
  /\ UNCHANGED <<seq, pending, closing, shutdown, sending, header, callVars,
                 sticky, wire, served, inbox, recvVars>>

(* Every goroutine has ended.                                               *)
Ended ==
  /\ \A c \in Calls : pc[c] = "returned"
  /\ rpc = "stopped"
  /\ UNCHANGED vars

-----------------------------------------------------------------------------
Caller(c) ==
  \/ LockSending(c) \/ RegisterCall(c) \/ RegisterRefused(c)
  \/ WriteFlushed(c) \/ WriteHead(c) \/ WriteTail(c) \/ WriteLost(c)
  \/ WriteFails(c) \/ SendFailed(c)
  \/ ReturnDone(c) \/ TakeExpired(c) \/ ReturnExpired(c)

Receive ==
  \/ ReadHeader \/ ReadHeaderFails \/ ClaimCall
  \/ DropAnswer \/ DeliverError \/ DeliverReply \/ DeliverBadBody
  \/ TerminateCalls

Peer ==
  \/ \E r \in wire : PeerReads(r)
  \/ \E r \in served, kind \in Kinds : PeerAnswers(r, kind)
  \/ PeerGone

Next ==
  \/ \E c \in Calls : Go(c) \/ Caller(c) \/ Expire(c)
  \/ Close
  \/ Receive
  \/ Peer
  \/ Ended

Spec == Init /\ [][Next]_vars

(* Go runs every runnable goroutine, and its mutexes do not starve a        *)
(* waiter.  Nothing is assumed of the peer, of the user of Close, or of     *)
(* contexts: they may never act.                                            *)
FairSpec ==
  /\ Spec
  /\ \A c \in Calls : WF_vars(Caller(c))
  /\ WF_vars(Receive)

-----------------------------------------------------------------------------
(* A call is completed at most once, whichever of the sender, receive and   *)
(* terminateCalls get to it, and whenever: the user's Done channel never    *)
(* carries the same call twice.                                             *)
DoneOnce == \A c \in Calls : done[c] <= 1

(* Replies are never crossed between callers that share the client: what is *)
(* decoded into a call's Reply answers that call's own arguments, and a     *)
(* Call that returns nil has such a reply.                                  *)
OwnReply ==
  \A c \in Calls :
    /\ reply[c] \in {NoCall, c}
    /\ ret[c] = "nil" => reply[c] = c

(* Once the client is shut down nobody is left waiting: every call that was *)
(* registered has been completed or has returned because its context ended. *)
ShutdownSettlesAll ==
  shutdown => \A c \in Calls :
                callSeq[c] # 0 => done[c] = 1 \/ ret[c] = "timeout"

(* A call that has returned is no longer in the map of a live client, so    *)
(* the map does not grow with abandoned calls and no later answer can be    *)
(* written to the memory of a caller that has moved on.                     *)
ReturnedNotPending ==
  ~shutdown => \A c \in Calls :
                 pc[c] = "returned" => callSeq[c] \notin DOMAIN pending

(* After done() the call belongs to the user: neither Reply nor Error is    *)
(* written again.                                                           *)
DoneHandsOver ==
  [][\A c \in Calls :
       done[c] > 0 => reply'[c] = reply[c] /\ callErr'[c] = callErr[c]]_vars

(* Who has a step of its own once the connection is lost.                   *)
CallerGoes(c) ==
  \/ pc[c] \in InSend \cup {"cancel"}
  \/ pc[c] = "lock" /\ sending = NoCall
  \/ pc[c] = "wait" /\ (done[c] > 0 \/ expired[c])
ReceiveGoes ==
  \/ rpc \in {"header", "remove", "body"}
  \/ rpc = "terminate" /\ sending = NoCall

(* When the connection is lost a Call waits only for the sender that holds  *)
(* `sending' or for receive, and receive at most for that sender, who waits *)
(* for nobody; receive has not stopped while a Call still needs it.         *)
WaitsEnd ==
  LET HolderGoes == sending # NoCall /\ CallerGoes(sending)
  IN  Broken => \A c \in Calls : pc[c] \notin {"idle", "returned"} =>
        \/ CallerGoes(c)
        \/ pc[c] = "lock" /\ HolderGoes
        \/ pc[c] = "wait" /\ (ReceiveGoes \/ (rpc = "terminate" /\ HolderGoes))

(* When the connection is lost, by Close, by a failed Write or by the peer, *)
(* every Call under way returns, the one blocked in Write and those queued  *)
(* behind it included.                                                      *)
LostConnReleases ==
  \A c \in Calls : (Broken /\ pc[c] # "idle") ~> pc[c] = "returned"

-----------------------------------------------------------------------------
(* What the users of the Client see of it.                                  *)

CallOf(label) ==
  IF label \in {"idle", "returned"} THEN label
  ELSE IF label \in {"wait", "cancel"} THEN "wait" ELSE "send"
OutcomeOf(error) == IF error = "nil" THEN "ok" ELSE "failed"
RetOf(r) ==
  IF r = "none" THEN "none" ELSE IF r = "timeout" THEN "cancelled" ELSE OutcomeOf(r)

call == [c \in Calls |-> CallOf(pc[c])]
outcome == [c \in Calls |-> IF done[c] = 0 THEN "none" ELSE OutcomeOf(callErr[c])]
returned == [c \in Calls |-> RetOf(ret[c])]

Seen == INSTANCE RpcCalls WITH closed <- closing, lost <- shutdown, ret <- returned

(* To its users the Client is one of RpcCalls: sender, receive, terminate-  *)
(* Calls and expiring contexts race for each call (client.go:102-151, 239-  *)
(* 309), and still it has one outcome, its own reply, and none is left when *)
(* the connection is lost.                                                  *)
ImplementsCalls == Seen!Spec

-----------------------------------------------------------------------------
(* The inductive invariant behind the properties above, in named parts.     *)

(* `sending' is held by the goroutine that is inside send, by nobody else.  *)
SendingOwned == \A c \in Calls : pc[c] \in InSend <=> sending = c

(* Sequence numbers: handed out once, carried by the call they index, and   *)
(* written to the shared header by the sender that holds `sending'.         *)
Numbered ==
  /\ \A c \in Calls : callSeq[c] < seq
  /\ \A c, d \in Calls : callSeq[c] = callSeq[d] /\ callSeq[c] # 0 => c = d
  /\ \A s \in DOMAIN pending : callSeq[pending[s]] = s
  /\ \A c \in Calls :
       /\ pc[c] \in {"idle", "lock", "register"} => callSeq[c] = 0 /\ done[c] = 0
       /\ pc[c] \in {"write", "tail", "failed"} => callSeq[c] # 0 /\ ~shutdown
       /\ pc[c] \in {"write", "tail"} => header = callSeq[c]

(* Everything on the network names the call it belongs to.                  *)
Labelled ==
  /\ \A r \in wire : callSeq[r.args] = r.seq
  /\ \A r \in served : callSeq[r.args] = r.seq
  /\ \A m \in inbox : callSeq[m.args] = m.seq
  /\ rpc \in {"remove", "body"} =>
       answer \in Answer /\ callSeq[answer.args] = answer.seq

(* A call has one owner at a time: the map, receive, or the user.           *)
OneOwner ==
  /\ shutdown <=> rpc = "stopped"
  /\ claimed # NoCall =>
       /\ rpc = "body"
       /\ callSeq[claimed] = answer.seq
       /\ answer.seq \notin DOMAIN pending
       /\ done[claimed] = 0
  /\ ~shutdown => \A s \in DOMAIN pending : done[pending[s]] = 0
  /\ DoneOnce

(* A registered call is owned by someone, or it is settled.                 *)
NotForgotten ==
  \A c \in Calls :
    callSeq[c] # 0 => \/ callSeq[c] \in DOMAIN pending /\ ~shutdown
                     \/ claimed = c
                     \/ done[c] = 1
                     \/ ret[c] = "timeout"

(* A call completed without error has its reply.                            *)
Replied == \A c \in Calls : done[c] > 0 /\ callErr[c] = "nil" => reply[c] = c

(* A call that waits was registered or refused, and returns once.           *)
Waiting ==
  \A c \in Calls :
    /\ pc[c] \in {"wait", "cancel"} => callSeq[c] # 0 \/ done[c] > 0
    /\ pc[c] = "cancel" => expired[c]
    /\ pc[c] # "returned" => ret[c] = "none"

Inv ==
  /\ TypeOK
  /\ SendingOwned
  /\ Numbered
  /\ Labelled
  /\ OneOwner
  /\ NotForgotten
  /\ Replied
  /\ OwnReply
  /\ ReturnedNotPending
=============================================================================
