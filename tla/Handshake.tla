------------------------------- MODULE Handshake -------------------------------
(***************************************************************************)
(* The beginning of a geerpc connection, from both ends: Dial, DialHTTP    *)
(* and XDial with the connect timeout (client.go), Accept, ServeHTTP and   *)
(* ServeConn (server.go), until requests are read.                         *)
(*                                                                         *)
(* The wire carries what is written, in order; a reader with a buffer      *)
(* (json.Decoder, bufio) may take more than it decodes, and what is left   *)
(* in its buffer is lost to the next reader.  Client and server may be     *)
(* different builds, and a client may be pointed at the wrong port.        *)
(***************************************************************************)
EXTENDS Naturals, Sequences

CONSTANTS
  Codecs, ClientCodecs, ServerCodecs,    \* the latter: in NewCodecFuncMap of each end
  MaxRequests                            \* bound: requests sent once connected

ASSUME CodecsAssumption == ClientCodecs \subseteq Codecs /\ ServerCodecs \subseteq Codecs
ASSUME MaxRequestsAssumption == MaxRequests \in Nat

Protocols == {"tcp", "http"}
Item(type) == [type |-> type, n |-> 0]
Request(i) == [type |-> "request", n |-> i]
Response(i) == [type |-> "response", n |-> i]

VARIABLES
  protocol, listens,   \* the protocol the client dials and the one the server listens for
  codec, limited,      \* Option.CodecType; ConnectTimeout is not 0
  dial,                \* dialTimeout: "start", "waiting", or what it returned
  maker, made,         \* the goroutine that makes the Client, and the result it has
  receiver,            \* the receive goroutine of the Client
  ours, theirs,        \* the two ends of the connection
  broken,              \* the connection is lost
  toServer, toClient,  \* what is on the wire
  server,              \* where the server's goroutine is
  hijacked, ahead,     \* read ahead and lost: by the HTTP server, by the json.Decoder
  sent, served         \* requests sent, and the ones the server read

settings == <<protocol, listens, codec, limited>>
clientVars == <<dial, maker, made, receiver, ours, sent>>
serverVars == <<server, theirs, hijacked, ahead, served>>
wireVars == <<toServer, toClient, broken>>
vars == <<settings, clientVars, serverVars, wireVars>>

Ends == {"none", "open", "closed"}
Types == {"CONNECT", "connected", "refused", "option", "newline", "request", "response"}
Items == [type : Types, n : 0..MaxRequests]

TypeOK ==
  /\ protocol \in Protocols /\ listens \in Protocols
  /\ codec \in Codecs /\ limited \in BOOLEAN
  /\ dial \in {"start", "waiting", "client", "error"}
  /\ maker \in {"none", "connect", "response", "option", "result", "gone"}
  /\ made \in {"none", "client", "error"}
  /\ receiver \in {"none", "reading", "ended"}
  /\ ours \in Ends /\ theirs \in Ends /\ broken \in BOOLEAN
  /\ toServer \in Seq(Items) /\ toClient \in Seq(Items)
  /\ server \in {"none", "http", "option", "check", "serving", "ended"}
  /\ hijacked \subseteq Items /\ ahead \subseteq Items
  /\ sent \in 0..MaxRequests /\ served \in Seq(1..MaxRequests)

-----------------------------------------------------------------------------
(* XDial: the address names the protocol; everything but http is taken as   *)
(* it is.                                                                   *)
Init ==
  /\ protocol \in Protocols /\ listens \in Protocols
  /\ codec \in Codecs /\ limited \in BOOLEAN
  /\ dial = "start" /\ maker = "none" /\ made = "none" /\ receiver = "none"
  /\ ours = "none" /\ theirs = "none" /\ broken = FALSE
  /\ toServer = <<>> /\ toClient = <<>>
  /\ server = "none" /\ hijacked = {} /\ ahead = {}
  /\ sent = 0 /\ served = <<>>

From(s, k) == SubSeq(s, k + 1, Len(s))
Taken(s, k) == {s[i] : i \in 1..k}

(* What an end reads when nothing is left: its own close, the other's, or   *)
(* the loss of the connection.                                              *)
OursFails == ours = "closed" \/ broken \/ (toClient = <<>> /\ theirs = "closed")
TheirsFails == broken \/ (toServer = <<>> /\ ours = "closed")
CanWrite == ours = "open" /\ ~broken

Breaks ==
  /\ ours = "open" /\ ~broken
  /\ broken' = TRUE
  /\ UNCHANGED <<settings, clientVars, serverVars, toServer, toClient>>

-----------------------------------------------------------------------------
(* dialTimeout.                                                             *)

(* The address or the options are wrong, or nothing listens.                *)
DialFails ==
  /\ dial = "start"
  /\ dial' = "error"
  /\ UNCHANGED <<settings, maker, made, receiver, ours, sent, serverVars, wireVars>>

Connects ==
  /\ dial = "start"
  /\ dial' = "waiting"
  /\ ours' = "open"
  /\ maker' = IF protocol = "http" THEN "connect" ELSE "option"
  /\ UNCHANGED <<settings, made, receiver, sent, serverVars, wireVars>>

LeftOpen(r) == ours
CloseOnError(r) == IF r = "error" THEN "closed" ELSE ours

(* The goroutine hands its result over: only while dialTimeout waits.       *)
Result ==
  /\ dial = "waiting" /\ maker = "result"
  /\ dial' = made
  /\ maker' = "gone"
  /\ ours' = CloseOnError(made)
  /\ UNCHANGED <<settings, made, receiver, sent, serverVars, wireVars>>

Unlimited == FALSE
Limited == limited

Timeout ==
  /\ dial = "waiting" /\ Limited
  /\ dial' = "error"
  /\ ours' = CloseOnError("error")
  /\ UNCHANGED <<settings, maker, made, receiver, sent, serverVars, wireVars>>

-----------------------------------------------------------------------------
(* NewHTTPClient and NewClient, in the goroutine.                           *)

Makes(r) == made' = r /\ maker' = "result"

AtOnce == "option"
AfterResponse == "response"

SendConnect ==
  /\ maker = "connect"
  /\ toServer' = (IF CanWrite THEN Append(toServer, Item("CONNECT")) ELSE toServer)
  /\ maker' = AfterResponse
  /\ UNCHANGED <<settings, dial, made, receiver, ours, sent, serverVars, toClient, broken>>

(* The buffer of ReadResponse may take more than the response.              *)
ReadResponse ==
  /\ maker = "response"
  /\ \/ /\ toClient # <<>> /\ ours = "open" /\ ~broken
        /\ \E k \in 1..Len(toClient) : toClient' = From(toClient, k)
        /\ IF Head(toClient).type = "connected"
           THEN maker' = "option" /\ UNCHANGED made
           ELSE Makes("error")
     \/ OursFails /\ Makes("error") /\ UNCHANGED toClient
  /\ UNCHANGED <<settings, dial, receiver, ours, sent, serverVars, toServer, broken>>

NewClient ==
  /\ maker = "option"
  /\ \/ /\ codec \in ClientCodecs /\ CanWrite
        /\ toServer' = toServer \o <<Item("option"), Item("newline")>>
        /\ receiver' = "reading"
        /\ Makes("client")
        /\ UNCHANGED ours
     \/ /\ codec \notin ClientCodecs \/ ~CanWrite
        /\ ours' = "closed"
        /\ Makes("error")
        /\ UNCHANGED <<receiver, toServer>>
  /\ UNCHANGED <<settings, dial, sent, serverVars, toClient, broken>>

-----------------------------------------------------------------------------
(* The Client that was returned, as RpcClient has it in full.               *)

Send ==
  /\ dial = "client" /\ receiver = "reading" /\ CanWrite /\ sent < MaxRequests
  /\ sent' = sent + 1
  /\ toServer' = Append(toServer, Request(sent + 1))
  /\ UNCHANGED <<settings, dial, maker, made, receiver, ours, serverVars, toClient, broken>>

Close ==
  /\ dial = "client" /\ ours = "open"
  /\ ours' = "closed"
  /\ UNCHANGED <<settings, dial, maker, made, receiver, sent, serverVars, wireVars>>

(* A response, or anything else and receive gives up.                       *)
Receive ==
  /\ receiver = "reading"
  /\ \/ /\ toClient # <<>> /\ ours = "open" /\ ~broken
        /\ toClient' = Tail(toClient)
        /\ receiver' = IF Head(toClient).type = "response" THEN "reading" ELSE "ended"
     \/ OursFails /\ receiver' = "ended" /\ UNCHANGED toClient
  /\ UNCHANGED <<settings, dial, maker, made, ours, sent, serverVars, toServer, broken>>

-----------------------------------------------------------------------------
(* The server.                                                              *)

Accept ==
  /\ server = "none" /\ ours # "none"
  /\ theirs' = "open"
  /\ server' = IF listens = "http" THEN "http" ELSE "option"
  /\ UNCHANGED <<settings, clientVars, hijacked, ahead, served, wireVars>>

Ended == server' = "ended" /\ theirs' = "closed"
Answer(item) == toClient' = (IF broken THEN toClient ELSE Append(toClient, item))

(* net/http reads the request, with a buffer; ServeHTTP takes the bare      *)
(* connection and leaves the buffer behind.                                 *)
ServeHTTP ==
  /\ server = "http" /\ toServer # <<>> /\ Head(toServer).type = "CONNECT" /\ ~broken
  /\ \E k \in 1..Len(toServer) :
       /\ toServer' = From(toServer, k)
       /\ hijacked' = Taken(Tail(toServer), k - 1)
  /\ Answer(Item("connected"))
  /\ server' = "option"
  /\ UNCHANGED <<settings, clientVars, theirs, ahead, served, broken>>

(* No HTTP request: net/http refuses it.                                    *)
NotHTTP ==
  /\ server = "http" /\ toServer # <<>> /\ Head(toServer).type # "CONNECT" /\ ~broken
  /\ Answer(Item("refused"))
  /\ Ended
  /\ UNCHANGED <<settings, clientVars, hijacked, ahead, served, toServer, broken>>

DecodeOption ==
  /\ server = "option" /\ toServer # <<>> /\ Head(toServer).type = "option" /\ ~broken
  /\ \E k \in 1..Len(toServer) :
       /\ toServer' = From(toServer, k)
       /\ ahead' = Taken(Tail(toServer), k - 1)
  /\ server' = "check"
  /\ UNCHANGED <<settings, clientVars, theirs, hijacked, served, toClient, broken>>

CheckOption ==
  /\ server = "check"
  /\ IF codec \in ServerCodecs THEN server' = "serving" /\ UNCHANGED theirs ELSE Ended
  /\ UNCHANGED <<settings, clientVars, hijacked, ahead, served, wireVars>>

(* The codec starts where the decoder left the wire: right after the        *)
(* newline that ends the option, or elsewhere.                              *)
InStep == ahead = {Item("newline")}

ReadRequest ==
  /\ server = "serving" /\ InStep /\ toServer # <<>> /\ ~broken
  /\ served' = Append(served, Head(toServer).n)
  /\ toServer' = Tail(toServer)
  /\ Answer(Response(Head(toServer).n))
  /\ UNCHANGED <<settings, clientVars, server, theirs, hijacked, ahead, broken>>

(* ... where nothing can be decoded: a request without the type that was    *)
(* described in the lost one, or a newline taken for a length.              *)
Undecodable ==
  /\ server = "serving" /\ ~InStep /\ ~broken
  /\ IF Item("newline") \in ahead THEN toServer # <<>>
     ELSE Len(toServer) > 1 \/ ours = "closed"

GoesOn == server' = "serving" /\ theirs' = theirs /\ toServer' = Tail(toServer) /\ ahead' = {Item("newline")}
GivesUp == Ended /\ UNCHANGED <<toServer, ahead>>

ReadFails ==
  /\ Undecodable
  /\ GivesUp
  /\ UNCHANGED <<settings, clientVars, hijacked, served, toClient, broken>>

(* ServeConn, or net/http, is at the end of what can be read.               *)
ServerGivesUp ==
  /\ server \in {"http", "option", "serving"}
  /\ \/ TheirsFails
     \/ server = "option" /\ toServer # <<>> /\ Head(toServer).type # "option"
  /\ Ended
  /\ UNCHANGED <<settings, clientVars, hijacked, ahead, served, wireVars>>

-----------------------------------------------------------------------------
ServerStep ==
  \/ ServeHTTP \/ NotHTTP \/ DecodeOption \/ CheckOption
  \/ ReadRequest \/ ReadFails \/ ServerGivesUp

ClientStep ==
  SendConnect \/ ReadResponse \/ NewClient \/ Receive

Next ==
  \/ DialFails \/ Connects \/ Result \/ Timeout \/ ClientStep
  \/ Send \/ Close \/ Breaks \/ Accept \/ ServerStep

Spec == Init /\ [][Next]_vars

(* Goroutines run and the timer fires.  The server need not accept the      *)
(* connection; once it did, its goroutine runs too.                         *)
FairSpec ==
  /\ Spec
  /\ WF_vars(SendConnect) /\ WF_vars(ReadResponse) /\ WF_vars(NewClient) /\ WF_vars(Receive)
  /\ WF_vars(Result) /\ WF_vars(Timeout)
  /\ WF_vars(ServerStep)

-----------------------------------------------------------------------------
(* Bytes of the client are lost in the buffer of the json.Decoder only      *)
(* (server.go:81): that Hijack's buffer is thrown away (server.go:275) costs *)
(* nothing, because the client does not go on before it has its response.   *)
(* And a loss is noticed: the requests the server reads are the first ones  *)
(* the client sent, none skipped, in a codec both know.                     *)
StreamInStep ==
  /\ hijacked = {}
  /\ \A i \in 1..Len(served) : served[i] = i
  /\ served # <<>> => codec \in ClientCodecs \cap ServerCodecs

(* A dial that failed, also by its timeout in the middle of the handshake,  *)
(* leaves nothing behind at either end: no receive goroutine of a Client    *)
(* nobody got, no connection, no server goroutine (client.go:210-214).      *)
FailedDialLeavesNothing ==
  dial = "error" ~> /\ receiver # "reading" /\ ours # "open" /\ theirs # "open"
                    /\ maker \in {"none", "result", "gone"}

(* What of the server's goroutine has a step.                               *)
ServerGoes ==
  \/ TheirsFails \/ server = "check"
  \/ server \in {"http", "option"} /\ toServer # <<>>
  \/ server = "serving" /\ (Undecodable \/ (InStep /\ toServer # <<>>))

(* A failed dial has closed the connection, and that reaches whoever is     *)
(* still there: the goroutine that makes the Client, receive, and the       *)
(* server, wherever each of them is, read on or are told; none waits for    *)
(* something that will not come.                                            *)
FailureReachesAll ==
  dial = "error" =>
    /\ ours # "open"
    /\ maker = "response" \/ receiver = "reading" => OursFails
    /\ theirs = "open" => ServerGoes

(* With a ConnectTimeout a dial returns, whatever the peer does or not      *)
(* (client.go:229-236).                                                     *)
DialReturns == dial = "waiting" /\ limited ~> dial # "waiting"

-----------------------------------------------------------------------------
(* The inductive invariant behind StreamInStep.                             *)

Early == server \in {"none", "http", "option"}

(* The Client is made once, and with a codec its side knows.                *)
MadeOnce ==
  /\ dial = "start" => maker = "none"
  /\ dial = "client" => made = "client"
  /\ maker \in {"none", "connect", "response", "option"} => made = "none"
  /\ maker = "result" => made # "none"
  /\ maker \in {"connect", "response"} => protocol = "http"
  /\ made = "client" => codec \in ClientCodecs

(* Before it is made nothing is on the wire but the CONNECT ...             *)
Asks ==
  made # "client" =>
    /\ sent = 0 /\ server \notin {"check", "serving"}
    /\ toServer # <<>> =>
         toServer = <<Item("CONNECT")>> /\ protocol = "http" /\ maker \notin {"none", "connect"}

(* ... which has been taken when it goes on.                                *)
Connected == \E i \in 1..Len(toClient) : toClient[i].type = "connected"
TakenFirst ==
  /\ Connected \/ (protocol = "http" /\ (maker = "option" \/ made = "client")) =>
       protocol = "http" /\ server \notin {"none", "http"} /\ maker \notin {"none", "connect"}
  /\ made # "client" /\ (Connected \/ (protocol = "http" /\ maker = "option")) => toServer = <<>>

(* Then come the option and the requests.                                   *)
Whole ==
  made = "client" /\ Early =>
    /\ Len(toServer) = sent + 2
    /\ toServer[1] = Item("option") /\ toServer[2] = Item("newline")
    /\ \A i \in 1..sent : toServer[i + 2] = Request(i)

(* A server in step has before it the requests it has not read.             *)
Left ==
  server \in {"check", "serving"} /\ InStep =>
    /\ Len(served) + Len(toServer) = sent
    /\ \A i \in 1..Len(toServer) : toServer[i] = Request(Len(served) + i)

Knows ==
  /\ Early \/ server = "check" => served = <<>>
  /\ server = "serving" => codec \in ServerCodecs

(* The connection, from the dial on: who uses it has one.                   *)
Opened ==
  /\ dial = "start" => ours = "none" /\ maker = "none"
  /\ server # "none" \/ maker # "none" \/ receiver # "none" => ours # "none"
  /\ dial = "error" => ours # "open"
  /\ theirs = "open" => server \in {"http", "option", "check", "serving"}

Inv == TypeOK /\ MadeOnce /\ Asks /\ TakenFirst /\ Whole /\ Left /\ Knows /\ StreamInStep
===============================================================================
