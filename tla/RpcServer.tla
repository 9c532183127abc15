------------------------------ MODULE RpcServer ------------------------------
(***************************************************************************)
(* One connection of a geerpc Server (geerpc/server.go): the loop of       *)
(* serveCodec, and for each request two goroutines started by              *)
(* handleRequest.  The outer one selects between the timer and the channel *)
(* `called'; the inner one runs the method, hands over on `called', sends  *)
(* the response and reports on `sent'.  Both channels are unbuffered, so a *)
(* send and its receive are one step.  Every response is written under     *)
(* the connection's mutex `sending'.                                       *)
(*                                                                         *)
(* The stream is the sequence of gob values the client sent, a header and  *)
(* a body for each request.  A decoder asked for a header when a body is   *)
(* next fails: the bodies have no field in common with codec.Header.       *)
(***************************************************************************)
EXTENDS Naturals, Sequences, FiniteSets

CONSTANTS
  Requests,   \* the requests a client may send on this connection, each once
  Unknown,    \* those that name a service or method that is not registered
  BadBody,    \* those whose arguments do not decode into the method's type
  NoRequest,  \* no request
  OutCap      \* how many responses the transport holds before a Write blocks

ASSUME RequestAssumption ==
  /\ NoRequest \notin Requests
  /\ Unknown \subseteq Requests
  /\ BadBody \subseteq Requests
ASSUME OutCapAssumption == OutCap \in Nat \ {0}

VARIABLES
  timeout,    \* whether opt.HandleTimeout # 0
  stream,     \* what the client sent and the server has not decoded
  sent,       \* the requests the client has sent
  conn,       \* "open", "eof" (the client is gone), "closed" (closed here)
  loop,       \* where serveCodec is
  cur,        \* the request readRequest returned last
  outer,      \* handleRequest's goroutine, per request
  inner,      \* the goroutine handleRequest starts, per request
  failed,     \* whether the service method returned an error
  hErr,       \* Header.Error of the request, which the response reuses
  wg,         \* the WaitGroup's counter
  sending,    \* the request whose response is being written, or NoRequest
  writes,     \* how many responses were written for each request
  outbox,     \* how many responses the transport holds
  answers     \* every response that reached the transport

handlerVars == <<outer, inner, failed, wg>>
loopVars == <<stream, sent, loop, cur>>
vars == <<timeout, loopVars, conn, handlerVars, hErr, sending, writes, outbox, answers>>

-----------------------------------------------------------------------------
Parts == {"header", "body"}
Item == [req : Requests, part : Parts]
HeaderOf(r) == [req |-> r, part |-> "header"]
BodyOf(r) == [req |-> r, part |-> "body"]

Errors == {"none", "service", "body", "method", "timeout"}
Answer == [req : Requests, kind : Errors]

TypeOK ==
  /\ timeout \in BOOLEAN
  /\ stream \in Seq(Item)
  /\ sent \subseteq Requests
  /\ conn \in {"open", "eof", "closed"}
  /\ loop \in {"header", "body", "refuse", "wait", "closed"}
  /\ cur \in Requests \cup {NoRequest}
  /\ outer \in [Requests -> {"none", "select", "timedOut", "awaitSent", "done"}]
  /\ inner \in [Requests -> {"none", "call", "returned", "respond", "sent", "done"}]
  /\ failed \in [Requests -> BOOLEAN]
  /\ hErr \in [Requests -> Errors]
  /\ wg \in Nat
  /\ sending \in Requests \cup {NoRequest}
  /\ writes \in [Requests -> Nat]
  /\ outbox \in 0 .. OutCap
  /\ answers \subseteq Answer

(* serveCodec starts: nothing read, opt as the client chose it.             *)
Init ==
  /\ timeout \in BOOLEAN
  /\ stream = << >>
  /\ sent = {}
  /\ conn = "open"
  /\ loop = "header"
  /\ cur = NoRequest
  /\ outer = [r \in Requests |-> "none"]
  /\ inner = [r \in Requests |-> "none"]
  /\ failed = [r \in Requests |-> FALSE]
  /\ hErr = [r \in Requests |-> "none"]
  /\ wg = 0
  /\ sending = NoRequest
  /\ writes = [r \in Requests |-> 0]
  /\ outbox = 0
  /\ answers = {}

-----------------------------------------------------------------------------
(* The client: sends requests, reads responses, may leave.                  *)

ClientSends(r) ==
  /\ conn = "open"
  /\ r \notin sent
  /\ sent' = sent \cup {r}
  /\ stream' = stream \o <<HeaderOf(r), BodyOf(r)>>
  /\ UNCHANGED <<timeout, loop, cur, conn, handlerVars, hErr, sending, writes,
                 outbox, answers>>

ClientReads ==
  /\ outbox > 0
  /\ outbox' = outbox - 1
  /\ UNCHANGED <<timeout, loopVars, conn, handlerVars, hErr, sending, writes, answers>>

(* The connection ends; its last bytes may not arrive.                      *)
ClientLeaves ==
  /\ conn = "open"
  /\ conn' = "eof"
  /\ \E n \in 0 .. Len(stream) : stream' = SubSeq(stream, 1, n)
  /\ UNCHANGED <<timeout, sent, loop, cur, handlerVars, hErr, sending, writes,
                 outbox, answers>>

-----------------------------------------------------------------------------
(* The loop of serveCodec.                                                  *)

(* The next value to decode; what the decoder has buffered can be read even *)
(* after the socket is closed.                                              *)
Readable(part) == stream # << >> /\ Head(stream).part = part

(* No more data will come, or the socket is closed here.                    *)
AtEnd == (conn = "eof" /\ stream = << >>) \/ conn = "closed"

(* readRequest: the header decodes and findService finds the method.        *)
ReadHeader ==
  /\ loop = "header"
  /\ Readable("header")
  /\ Head(stream).req \notin Unknown
  /\ cur' = Head(stream).req
  /\ stream' = Tail(stream)
  /\ loop' = "body"
  /\ UNCHANGED <<timeout, sent, conn, handlerVars, hErr, sending, writes, outbox, answers>>

(* readRequest: findService fails; the body stays in the stream.            *)
ReadUnknown ==
  /\ loop = "header"
  /\ Readable("header")
  /\ Head(stream).req \in Unknown
  /\ cur' = Head(stream).req
  /\ stream' = Tail(stream)
  /\ hErr' = [hErr EXCEPT ![Head(stream).req] = "service"]
  /\ loop' = "refuse"
  /\ UNCHANGED <<timeout, sent, conn, handlerVars, sending, writes, outbox, answers>>

(* readRequestHeader fails: no request, leave the loop.                     *)
ReadHeaderFails ==
  /\ loop = "header"
  /\ AtEnd \/ Readable("body")
  /\ loop' = "wait"
  /\ UNCHANGED <<timeout, stream, sent, cur, conn, handlerVars, hErr, sending,
                 writes, outbox, answers>>

NotCounted == wg
Counted == wg + 1

(* readRequest succeeds: wg.Add(1) and the handler starts.                  *)
Handle ==
  /\ loop = "body"
  /\ Readable("body")
  /\ cur \notin BadBody
  /\ stream' = Tail(stream)
  /\ wg' = Counted
  /\ outer' = [outer EXCEPT ![cur] = "select"]
  /\ inner' = [inner EXCEPT ![cur] = "call"]
  /\ loop' = "header"
  /\ UNCHANGED <<timeout, sent, cur, conn, failed, hErr, sending, writes, outbox, answers>>

(* readRequest: the body was decoded with an error, or never arrived.       *)
ReadBodyFails ==
  /\ loop = "body"
  /\ \/ /\ Readable("body")
        /\ cur \in BadBody
        /\ stream' = Tail(stream)
     \/ /\ AtEnd
        /\ UNCHANGED stream
  /\ hErr' = [hErr EXCEPT ![cur] = "body"]
  /\ loop' = "refuse"
  /\ UNCHANGED <<timeout, sent, cur, conn, handlerVars, sending, writes, outbox, answers>>

(* wg.Wait() returns and the codec is closed.                               *)
CloseConn ==
  /\ loop = "wait"
  /\ wg = 0
  /\ loop' = "closed"
  /\ conn' = "closed"
  /\ UNCHANGED <<timeout, stream, sent, cur, handlerVars, hErr, sending, writes,
                 outbox, answers>>

-----------------------------------------------------------------------------
(* handleRequest.                                                           *)

(* The service method returns; nothing obliges it to.                       *)
MethodReturns(r) ==
  /\ inner[r] = "call"
  /\ \E err \in BOOLEAN : failed' = [failed EXCEPT ![r] = err]
  /\ inner' = [inner EXCEPT ![r] = "returned"]
  /\ UNCHANGED <<timeout, loopVars, conn, outer, wg, hErr, sending, writes, outbox, answers>>

Buffered(r) == TRUE
Receiving(r) == outer[r] = "select"

(* `called <- struct{}{}' meets `<-called'; the inner goroutine then fills  *)
(* in Header.Error.                                                         *)
Called(r) ==
  /\ inner[r] = "returned"
  /\ Receiving(r)
  /\ inner' = [inner EXCEPT ![r] = "respond"]
  /\ outer' = [outer EXCEPT ![r] = "awaitSent"]
  /\ hErr' = IF failed[r] THEN [hErr EXCEPT ![r] = "method"] ELSE hErr
  /\ UNCHANGED <<timeout, loopVars, conn, failed, wg, sending, writes, outbox, answers>>

NeverArmed == FALSE
Armed == timeout

TimeoutError == "timeout"

(* The select takes time.After(timeout), even when `called' is ready too.   *)
TimeOut(r) ==
  /\ Armed
  /\ outer[r] = "select"
  /\ outer' = [outer EXCEPT ![r] = "timedOut"]
  /\ hErr' = [hErr EXCEPT ![r] = TimeoutError]
  /\ UNCHANGED <<timeout, loopVars, conn, inner, failed, wg, sending, writes,
                 outbox, answers>>

(* `sent <- struct{}{}' meets `<-sent'; the deferred wg.Done() runs.        *)
Sent(r) ==
  /\ inner[r] = "sent"
  /\ outer[r] = "awaitSent"
  /\ inner' = [inner EXCEPT ![r] = "done"]
  /\ outer' = [outer EXCEPT ![r] = "done"]
  /\ wg' = wg - 1
  /\ UNCHANGED <<timeout, loopVars, conn, failed, hErr, sending, writes, outbox, answers>>

-----------------------------------------------------------------------------
(* sendResponse, called by the loop, by the outer goroutine after a timeout *)
(* and by the inner one.                                                    *)

Refusing(r) == loop = "refuse" /\ cur = r
TimedOut(r) == outer[r] = "timedOut"
Responding(r) == inner[r] = "respond"

LockSending(r) ==
  /\ sending = NoRequest
  /\ Refusing(r) \/ TimedOut(r) \/ Responding(r)
  /\ sending' = r
  /\ UNCHANGED <<timeout, loopVars, conn, handlerVars, hErr, writes, outbox, answers>>

StillCounted == wg
DoneCounting == wg - 1

(* The deferred Unlock, and whoever sent goes on: the loop to its next      *)
(* round, the outer goroutine to its deferred wg.Done(), the inner one to   *)
(* `sent'.                                                                  *)
Unlock(r) ==
  /\ sending' = NoRequest
  /\ writes' = [writes EXCEPT ![r] = @ + 1]
  /\ \/ /\ Refusing(r)
        /\ loop' = "header"
        /\ UNCHANGED <<outer, inner, wg>>
     \/ /\ TimedOut(r)
        /\ outer' = [outer EXCEPT ![r] = "done"]
        /\ wg' = DoneCounting
        /\ UNCHANGED <<loop, inner>>
     \/ /\ Responding(r)
        /\ inner' = [inner EXCEPT ![r] = "sent"]
        /\ UNCHANGED <<loop, outer, wg>>
  /\ UNCHANGED <<timeout, stream, sent, cur, failed, hErr>>

LatestHeader(r) == cur
OwnHeader(r) == r

(* cc.Write hands the response to the transport; it blocks, holding         *)
(* `sending', while the transport is full and the client does not read.     *)
Respond(r) ==
  /\ sending = r
  /\ conn = "open"
  /\ outbox < OutCap
  /\ outbox' = outbox + 1
  /\ answers' = answers \cup {[req |-> OwnHeader(r), kind |-> hErr[r]]}
  /\ Unlock(r)
  /\ UNCHANGED conn

(* cc.Write loses the response: nobody is there any more (the error of      *)
(* Flush is dropped, or reported and only logged), or the reply cannot be   *)
(* encoded.  When Write does fail the codec closes the connection.          *)
RespondLost(r) ==
  /\ sending = r
  /\ \/ conn # "open" /\ UNCHANGED conn
     \/ /\ conn # "open" \/ (Responding(r) /\ ~failed[r])
        /\ conn' = "closed"
  /\ Unlock(r)
  /\ UNCHANGED <<outbox, answers>>

-----------------------------------------------------------------------------
(* The connection is served; what may remain are the goroutines of methods  *)
(* that timed out, blocked for ever on `called'.                            *)
Ended ==
  /\ loop = "closed"
  /\ \A r \in Requests : inner[r] \in {"none", "returned", "done"}
  /\ UNCHANGED vars

Loop ==
  \/ ReadHeader \/ ReadUnknown \/ ReadHeaderFails
  \/ Handle \/ ReadBodyFails \/ CloseConn

Handler(r) == Called(r) \/ TimeOut(r) \/ Sent(r)

Sender(r) == LockSending(r) \/ Respond(r) \/ RespondLost(r)

Next ==
  \/ \E r \in Requests : ClientSends(r) \/ MethodReturns(r) \/ Handler(r) \/ Sender(r)
  \/ ClientReads \/ ClientLeaves
  \/ Loop
  \/ Ended

Spec == Init /\ [][Next]_vars

(* Runnable goroutines run, time passes, the mutex does not starve, and     *)
(* the client reads what it is sent, as receive in client.go does.  Nothing *)
(* obliges a service method to return or the client to leave.               *)
FairSpec ==
  /\ Spec
  /\ WF_vars(Loop)
  /\ \A r \in Requests : WF_vars(Handler(r)) /\ WF_vars(Sender(r))
  /\ WF_vars(ClientReads)

-----------------------------------------------------------------------------
(* No request is answered twice, however the timer races with the method's  *)
(* return: a second response would be taken for the answer to nothing, or   *)
(* after a reused header for another error.                                 *)
AnsweredOnce == \A r \in Requests : writes[r] <= 1

(* A response without an error is only ever given for a method that         *)
(* returned without one, and its sender has taken part in the handover.     *)
OkMeansReturned ==
  \A m \in answers : m.kind = "none" => inner[m.req] \in {"sent", "done"} /\ ~failed[m.req]

(* serveCodec closes the connection only when every request it has read has *)
(* had its response written (or lost with the client).                      *)
NoneLeftAtClose ==
  loop = "closed" =>
    \A r \in Requests :
      /\ outer[r] \in {"none", "done"}
      /\ outer[r] = "done" => writes[r] = 1

(* The arguments a method is called with are those sent with its request:   *)
(* no refusal leaves a body behind for the next one.                        *)
OwnArguments ==
  loop = "body" /\ stream # << >> => Head(stream) = BodyOf(cur)

(* Who of a request's goroutines has a step of its own, and who has one     *)
(* with `sending'.                                                          *)
HandlerGoes(r) ==
  \/ outer[r] = "select" /\ (Armed \/ inner[r] = "returned")
  \/ outer[r] = "awaitSent" /\ inner[r] = "sent"
SenderGoes(r) ==
  \/ sending = NoRequest /\ (Refusing(r) \/ TimedOut(r) \/ Responding(r))
  \/ sending = r /\ (conn # "open" \/ outbox < OutCap)

(* The server waits for nobody but its client, to send a request or to read *)
(* a response, and, without a HandleTimeout, for service methods.  Its own  *)
(* goroutines never wait for each other in a circle, and the loop not for a *)
(* handler that has ended.                                                  *)
WaitsEnd ==
  LET Full == conn = "open" /\ outbox = OutCap
      CanSend(r) == Full \/ SenderGoes(r) \/ (sending # NoRequest /\ SenderGoes(sending))
  IN  /\ loop \in {"header", "body"} =>
           \/ Readable(loop) \/ AtEnd
           \/ loop = "header" /\ (Readable("body") \/ (conn = "open" /\ stream = << >>))
      /\ loop = "refuse" => CanSend(cur)
      /\ loop = "wait" => wg = 0 \/ \E r \in Requests : outer[r] \notin {"none", "done"}
      /\ \A r \in Requests : outer[r] \notin {"none", "done"} =>
           \/ HandlerGoes(r)
           \/ (TimedOut(r) \/ Responding(r)) /\ CanSend(r)
           \/ ~Armed /\ inner[r] = "call"

(* With a HandleTimeout every accepted request gets its response, be the    *)
(* method stuck for ever.                                                   *)
TimedRequestsAnswered ==
  \A r \in Requests : timeout /\ outer[r] = "select" ~> writes[r] = 1

(* With a HandleTimeout the server lets go of a connection whose client has *)
(* left, whatever its methods do.                                           *)
ClosedAfterClient == timeout /\ conn = "eof" ~> loop = "closed"

(* On the wire the server is the peer RpcClient is verified against.       *)
HeadersIn(s) == {s[i].req : i \in {j \in DOMAIN s : s[j].part = "header"}}
Taken == {r \in Requests : \/ r = cur /\ loop \in {"body", "refuse"}
                           \/ outer[r] \notin {"none", "done"}}
Peer == INSTANCE RpcPeer WITH
  Kinds <- Errors,
  wire <- HeadersIn(stream),
  served <- {r \in Taken : writes[r] = 0},
  answers <- answers
ImplementsPeer == Peer!Spec

(* What the comments in serveCodec say of its errors: one it can report to  *)
(* the client is reported and the loop goes on; the connection is given up  *)
(* only when a header cannot be read because the client is gone.            *)
RefusalKeepsConnection ==
  loop = "wait" => conn # "open"

-----------------------------------------------------------------------------
(* The inductive invariant behind the properties above, in named parts.     *)

Running == {r \in Requests : outer[r] \notin {"none", "done"}}

(* A request nobody has read yet is untouched.                              *)
Untouched(r) == outer[r] = "none" /\ writes[r] = 0

(* The stream holds a header once, of a request that was sent and not read; *)
(* the request the loop works on has left the stream.                       *)
ReadInOrder ==
  /\ \A i, j \in DOMAIN stream :
       /\ stream[i].part = "header" /\ stream[j].part = "header"
       /\ stream[i].req = stream[j].req
       => i = j
  /\ \A i \in DOMAIN stream :
       stream[i].part = "header" => stream[i].req \in sent /\ Untouched(stream[i].req)
  /\ \A r \in Requests \ sent : Untouched(r)
  /\ cur # NoRequest =>
       /\ cur \in sent
       /\ \A i \in DOMAIN stream : stream[i].part = "header" => stream[i].req # cur
  /\ loop \in {"body", "refuse"} => cur # NoRequest /\ Untouched(cur)
  /\ loop = "refuse" => hErr[cur] # "none"

(* Behind each header is its body, unless the client left between the two.  *)
Paired ==
  /\ \A i \in DOMAIN stream : stream[i].part = "header" =>
       /\ i + 1 \in DOMAIN stream => stream[i + 1] = BodyOf(stream[i].req)
       /\ conn = "open" => i + 1 \in DOMAIN stream
  /\ loop = "body" /\ conn = "open" => stream # << >>
  /\ OwnArguments

(* The handover between the two goroutines of a request, and how many       *)
(* responses the request has had at each point of it.                       *)
HandedOver ==
  \A r \in Requests :
    /\ outer[r] = "none" <=> inner[r] = "none"
    /\ outer[r] \in {"select", "timedOut"} => inner[r] \in {"call", "returned"} /\ writes[r] = 0
    /\ outer[r] = "awaitSent" => <<inner[r], writes[r]>> \in {<<"respond", 0>>, <<"sent", 1>>}
    /\ outer[r] = "done" => inner[r] \in {"call", "returned", "done"} /\ writes[r] = 1

(* The mutex is held by someone who has a response to send.                 *)
SenderHolds ==
  sending # NoRequest => Refusing(sending) \/ TimedOut(sending) \/ Responding(sending)

(* Header.Error when it is about to be sent.                                *)
ErrorSet ==
  /\ \A r \in Requests : outer[r] = "timedOut" => hErr[r] # "none"
  /\ \A r \in Requests : inner[r] = "respond" /\ failed[r] => hErr[r] # "none"
  /\ OkMeansReturned

(* The WaitGroup counts the handlers that have not ended.                   *)
WaitGroupCounts ==
  /\ IsFiniteSet(Running)
  /\ wg = Cardinality(Running)
  /\ loop = "closed" => Running = {}

(* A response on the wire was written.                                      *)
AnswersWritten == \A m \in answers : writes[m.req] > 0

Inv ==
  /\ TypeOK
  /\ ReadInOrder
  /\ HandedOver
  /\ SenderHolds
  /\ ErrorSet
  /\ WaitGroupCounts
  /\ AnswersWritten
  /\ AnsweredOnce
=============================================================================
