---------------------------- MODULE HandshakeProofs ----------------------------
(***************************************************************************)
(* Safety of Handshake, for any codecs and any number of requests: the     *)
(* inductive invariant Inv is preserved by every action, and the server    *)
(* reads the client's requests in step.                                    *)
(***************************************************************************)
EXTENDS Handshake, TLAPS

-----------------------------------------------------------------------------
(* What is on the wire.                                                     *)

LEMMA Dropped ==
  ASSUME NEW S, NEW s \in Seq(S), NEW k \in 0..Len(s)
  PROVE  /\ From(s, k) \in Seq(S) /\ Len(From(s, k)) = Len(s) - k
         /\ \A i \in 1..(Len(s) - k) : From(s, k)[i] = s[k + i]
  BY DEF From

LEMMA FirstTaken ==
  ASSUME NEW S, NEW s \in Seq(S), s # <<>>
  PROVE  /\ Len(s) \in Nat /\ Len(s) >= 1 /\ Head(s) = s[1] /\ s[1] \in S
         /\ Tail(s) \in Seq(S) /\ Len(Tail(s)) = Len(s) - 1
         /\ \A i \in 1..(Len(s) - 1) : Tail(s)[i] = s[i + 1]
  OBVIOUS

LEMMA Written ==
  ASSUME NEW S, NEW s \in Seq(S), NEW x \in S
  PROVE  /\ Append(s, x) \in Seq(S) /\ Len(Append(s, x)) = Len(s) + 1
         /\ \A i \in 1..Len(s) : Append(s, x)[i] = s[i]
         /\ Append(s, x)[Len(s) + 1] = x
  OBVIOUS

LEMMA WireItems ==
  /\ \A type \in Types : Item(type) \in Items
  /\ \A i \in 1..MaxRequests : Request(i) \in Items /\ Response(i) \in Items
  BY MaxRequestsAssumption DEF Item, Items, Types, Request, Response

(* Something else than "connected" answered, or nothing.                    *)
LEMMA NotConnected ==
  ASSUME toClient \in Seq(Items), NEW x \in Items, x.type # "connected", Answer(x)
  PROVE  toClient' \in Seq(Items) /\ (Connected' => Connected)
<1>1. CASE toClient' = toClient
  BY <1>1 DEF Connected
<1>2. CASE toClient' = Append(toClient, x)
  BY <1>2, Written DEF Connected
<1>3. QED
  BY <1>1, <1>2 DEF Answer

(* Items taken from the front leave only what was there.                    *)
LEMMA StillConnected ==
  ASSUME toClient \in Seq(Items), NEW k \in 0..Len(toClient), toClient' = From(toClient, k),
         Connected'
  PROVE  Connected
<1>1. PICK i \in 1..Len(toClient') : toClient'[i].type = "connected"
  BY DEF Connected
<1>2. Len(toClient) \in Nat /\ Len(toClient') = Len(toClient) - k
  BY Dropped
<1>3. toClient'[i] = toClient[k + i] /\ k + i \in 1..Len(toClient)
  BY <1>1, <1>2, Dropped
<1>4. QED
  BY <1>1, <1>3 DEF Connected

-----------------------------------------------------------------------------
(* Each action.                                                             *)

LEMMA InvInit == Init => Inv
<1> SUFFICES ASSUME Init PROVE Inv
  OBVIOUS
<1>1. TypeOK
  <2>1. toServer \in Seq(Items) /\ toClient \in Seq(Items) /\ served \in Seq(1..MaxRequests)
    BY DEF Init
  <2>2. sent \in 0..MaxRequests /\ hijacked \subseteq Items /\ ahead \subseteq Items
    BY MaxRequestsAssumption DEF Init
  <2>3. QED
    BY <2>1, <2>2 DEF Init, TypeOK, Ends, Protocols
<1>2. MadeOnce /\ Asks /\ TakenFirst /\ Whole /\ Left /\ Knows /\ StreamInStep
  BY DEF Init, MadeOnce, Asks, TakenFirst, Connected, Whole, Early, Left, Knows, StreamInStep
<1>3. QED
  BY <1>1, <1>2 DEF Inv

(* These touch neither what is on the wire nor the server's place.          *)
LEMMA DialKeeps ==
  ASSUME Inv, DialFails \/ Connects \/ Result \/ Timeout \/ Close \/ Breaks
  PROVE  Inv'
<1>1. /\ UNCHANGED <<settings, made, receiver, sent, serverVars, toServer, toClient>>
      /\ TypeOK /\ MadeOnce
  BY DEF Inv, DialFails, Connects, Result, Timeout, Close, Breaks,
         settings, clientVars, serverVars, wireVars
<1>2. TypeOK' /\ MadeOnce'
  <2>1. /\ dial' \in {"waiting", "client", "error"} \/ dial' = dial
        /\ maker' \in {"connect", "option", "gone"} \/ maker' = maker
        /\ ours' \in Ends /\ broken' \in BOOLEAN
    BY <1>1 DEF TypeOK, MadeOnce, DialFails, Connects, Result, Timeout, Close, Breaks,
                CloseOnError, Ends, wireVars, clientVars
  <2>2. TypeOK'
    BY <1>1, <2>1 DEF TypeOK, settings, serverVars
  <2>3. MadeOnce'
    BY <1>1 DEF TypeOK, MadeOnce, DialFails, Connects, Result, Timeout, Close, Breaks,
                settings, clientVars
  <2>4. QED
    BY <2>2, <2>3
<1>3. \/ maker' = maker
      \/ maker = "result" /\ maker' = "gone"
      \/ maker = "none" /\ (IF protocol = "http" THEN maker' = "connect" ELSE maker' = "option")
  BY <1>1 DEF MadeOnce, DialFails, Connects, Result, Timeout, Close, Breaks, clientVars
<1>4. Asks' /\ TakenFirst'
  BY <1>1, <1>3 DEF Inv, Asks, TakenFirst, Connected, settings, serverVars
<1>5. Whole' /\ Left' /\ Knows' /\ StreamInStep'
  BY <1>1 DEF Inv, Whole, Early, Left, InStep, Knows, StreamInStep, settings, serverVars
<1>6. QED
  BY <1>2, <1>4, <1>5 DEF Inv

LEMMA SendConnectKeeps ==
  ASSUME Inv, SendConnect
  PROVE  Inv'
<1>1. /\ maker = "connect" /\ maker' = "response"
      /\ UNCHANGED <<settings, dial, made, receiver, ours, sent, serverVars, toClient, broken>>
      /\ TypeOK /\ MadeOnce /\ Asks
  BY DEF Inv, SendConnect, AfterResponse
<1>2. made = "none" /\ protocol = "http" /\ toServer = <<>>
  BY <1>1 DEF MadeOnce, Asks
<1>3. toServer' = <<>> \/ toServer' = <<Item("CONNECT")>>
  BY <1>2 DEF SendConnect
<1>4. Item("CONNECT") \in Items
  BY WireItems DEF Types
<1>5. TypeOK' /\ MadeOnce'
  <2>1. toServer' \in Seq(Items)
    BY <1>1, <1>4, Written DEF SendConnect, TypeOK
  <2>2. QED
    BY <1>1, <1>2, <2>1 DEF TypeOK, MadeOnce, Ends, Protocols, settings, serverVars
<1>6. Asks' /\ Whole' /\ Left'
  BY <1>1, <1>2, <1>3 DEF Asks, Whole, Left, settings, serverVars
<1>7. TakenFirst'
  BY <1>1, <1>2 DEF Inv, TakenFirst, Connected, settings, serverVars
<1>8. Knows' /\ StreamInStep'
  BY <1>1 DEF Inv, Knows, Early, StreamInStep, settings, serverVars
<1>9. QED
  BY <1>5, <1>6, <1>7, <1>8 DEF Inv

LEMMA ReadResponseKeeps ==
  ASSUME Inv, ReadResponse
  PROVE  Inv'
<1>1. /\ maker = "response" /\ protocol = "http" /\ made = "none"
      /\ UNCHANGED <<settings, dial, receiver, ours, sent, serverVars, toServer, broken>>
      /\ TypeOK /\ MadeOnce
  BY DEF Inv, ReadResponse, MadeOnce
<1>2. \E k \in 0..Len(toClient) : toClient' = From(toClient, k)
  <2>1. toClient \in Seq(Items)
    BY <1>1 DEF TypeOK
  <2>2. From(toClient, 0) = toClient
    BY <2>1 DEF From
  <2>3. QED
    BY <2>1, <2>2 DEF ReadResponse
<1>3. toClient' \in Seq(Items) /\ (Connected' => Connected)
  BY <1>1, <1>2, Dropped, StillConnected DEF TypeOK
<1>4. \/ maker' = "option" /\ made' = made /\ Connected
      \/ maker' = "result" /\ made' = "error"
  <2>1. toClient # <<>> /\ Head(toClient).type = "connected" => Connected
    BY <1>1, FirstTaken DEF TypeOK, Connected
  <2>2. QED
    BY <2>1 DEF ReadResponse, Makes
<1>5. TypeOK' /\ MadeOnce'
  BY <1>1, <1>3, <1>4 DEF TypeOK, MadeOnce, Ends, Protocols, settings, serverVars
<1>6. Asks' /\ TakenFirst'
  BY <1>1, <1>3, <1>4 DEF Inv, Asks, TakenFirst, settings, serverVars
<1>7. Whole' /\ Left' /\ Knows' /\ StreamInStep'
  BY <1>1, <1>4 DEF Inv, Whole, Early, Left, InStep, Knows, StreamInStep, settings, serverVars
<1>8. QED
  BY <1>5, <1>6, <1>7 DEF Inv

LEMMA NewClientKeeps ==
  ASSUME Inv, NewClient
  PROVE  Inv'
<1>1. /\ maker = "option" /\ maker' = "result" /\ made = "none"
      /\ UNCHANGED <<settings, dial, sent, serverVars, toClient, broken>>
      /\ TypeOK /\ MadeOnce /\ sent = 0 /\ server \notin {"check", "serving"}
  BY DEF Inv, NewClient, Makes, MadeOnce, Asks
<1>2. CASE /\ codec \in ClientCodecs /\ made' = "client" /\ receiver' = "reading" /\ ours' = ours
           /\ toServer' = toServer \o <<Item("option"), Item("newline")>>
  <2>1. toServer = <<>>
    BY <1>1 DEF Inv, Asks, TakenFirst, TypeOK, Protocols
  <2>2. toServer' = <<Item("option"), Item("newline")>>
    BY <1>2, <2>1
  <2>3. Item("option") \in Items /\ Item("newline") \in Items
    BY WireItems DEF Types
  <2>4. toServer' \in Seq(Items)
    BY <2>2, <2>3
  <2>5. TypeOK' /\ MadeOnce'
    BY <1>1, <1>2, <2>4 DEF TypeOK, MadeOnce, Ends, Protocols, settings, serverVars
  <2>6. Asks' /\ TakenFirst'
    BY <1>1, <1>2 DEF Inv, Asks, TakenFirst, Connected, settings, serverVars
  <2>7. Whole'
    BY <1>1, <2>2 DEF Whole, Early
  <2>8. Left' /\ Knows' /\ StreamInStep'
    BY <1>1 DEF Inv, Left, Early, Knows, StreamInStep, settings, serverVars
  <2>9. QED
    BY <2>5, <2>6, <2>7, <2>8 DEF Inv
<1>3. CASE ours' = "closed" /\ made' = "error" /\ UNCHANGED <<receiver, toServer>>
  <2>1. TypeOK' /\ MadeOnce'
    BY <1>1, <1>3 DEF TypeOK, MadeOnce, Ends, Protocols, settings, serverVars
  <2>2. Asks' /\ TakenFirst' /\ Whole' /\ Left'
    BY <1>1, <1>3 DEF Inv, Asks, TakenFirst, Connected, Whole, Left, settings, serverVars
  <2>3. Knows' /\ StreamInStep'
    BY <1>1 DEF Inv, Early, Knows, StreamInStep, settings, serverVars
  <2>4. QED
    BY <2>1, <2>2, <2>3 DEF Inv
<1>4. QED
  BY <1>2, <1>3 DEF NewClient, Makes

LEMMA ReceiveKeeps ==
  ASSUME Inv, Receive
  PROVE  Inv'
<1>1. /\ UNCHANGED <<settings, dial, maker, made, ours, sent, serverVars, toServer, broken>>
      /\ receiver' \in {"reading", "ended"} /\ TypeOK
  BY DEF Inv, Receive
<1>2. toClient' \in Seq(Items) /\ (Connected' => Connected)
  <2>1. toClient \in Seq(Items)
    BY <1>1 DEF TypeOK
  <2>2. CASE toClient # <<>> /\ toClient' = Tail(toClient)
    BY <2>1, <2>2, FirstTaken DEF Connected
  <2>3. CASE toClient' = toClient
    BY <2>1, <2>3 DEF Connected
  <2>4. QED
    BY <2>2, <2>3 DEF Receive
<1>3. TypeOK'
  BY <1>1, <1>2 DEF TypeOK, Ends, Protocols, settings, serverVars
<1>4. MadeOnce' /\ Asks' /\ TakenFirst'
  BY <1>1, <1>2 DEF Inv, MadeOnce, Asks, TakenFirst, settings, serverVars
<1>5. Whole' /\ Left' /\ Knows' /\ StreamInStep'
  BY <1>1 DEF Inv, Whole, Early, Left, InStep, Knows, StreamInStep, settings, serverVars
<1>6. QED
  BY <1>3, <1>4, <1>5 DEF Inv

LEMMA SendKeeps ==
  ASSUME Inv, Send
  PROVE  Inv'
<1>1. /\ made = "client" /\ sent' = sent + 1 /\ sent < MaxRequests
      /\ toServer' = Append(toServer, Request(sent + 1))
      /\ UNCHANGED <<settings, dial, maker, made, receiver, ours, serverVars, toClient, broken>>
      /\ TypeOK
  BY DEF Inv, Send, MadeOnce
<1>2. sent + 1 \in 1..MaxRequests /\ toServer \in Seq(Items) /\ Request(sent + 1) \in Items
      /\ Len(toServer) \in Nat /\ sent \in Nat /\ served \in Seq(1..MaxRequests)
  BY <1>1, WireItems, MaxRequestsAssumption DEF TypeOK
<1>3. /\ toServer' \in Seq(Items) /\ Len(toServer') = Len(toServer) + 1
      /\ \A i \in 1..Len(toServer) : toServer'[i] = toServer[i]
      /\ toServer'[Len(toServer) + 1] = Request(sent + 1)
  BY <1>1, <1>2, Written
<1>4. TypeOK'
  BY <1>1, <1>2, <1>3 DEF TypeOK, Ends, Protocols, settings, serverVars
<1>5. MadeOnce' /\ Asks' /\ TakenFirst'
  BY <1>1 DEF Inv, MadeOnce, Asks, TakenFirst, Connected, settings, serverVars
<1>6. Whole'
  <2> SUFFICES ASSUME Early
               PROVE  /\ Len(toServer') = sent + 3
                      /\ toServer'[1] = Item("option") /\ toServer'[2] = Item("newline")
                      /\ \A i \in 1..(sent + 1) : toServer'[i + 2] = Request(i)
    BY <1>1, <1>2 DEF Whole, Early, serverVars
  <2>1. Len(toServer) = sent + 2 /\ toServer[1] = Item("option") /\ toServer[2] = Item("newline")
        /\ \A i \in 1..sent : toServer[i + 2] = Request(i)
    BY <1>1 DEF Inv, Whole
  <2>2. QED
    BY <1>2, <1>3, <2>1
<1>7. Left'
  <2> SUFFICES ASSUME server \in {"check", "serving"}, InStep
               PROVE  /\ Len(served) + Len(toServer') = sent + 1
                      /\ \A i \in 1..Len(toServer') : toServer'[i] = Request(Len(served) + i)
    BY <1>1 DEF Left, InStep, serverVars
  <2>1. Len(served) + Len(toServer) = sent
        /\ \A i \in 1..Len(toServer) : toServer[i] = Request(Len(served) + i)
    BY DEF Inv, Left
  <2>2. QED
    BY <1>2, <1>3, <2>1
<1>8. Knows' /\ StreamInStep'
  BY <1>1 DEF Inv, Knows, Early, StreamInStep, settings, serverVars
<1>9. QED
  BY <1>4, <1>5, <1>6, <1>7, <1>8 DEF Inv

(* These leave the wire to the server alone, or end the server.             *)
LEMMA ServerEndsKeeps ==
  ASSUME Inv, Accept \/ NotHTTP \/ CheckOption \/ ReadFails \/ ServerGivesUp
  PROVE  Inv'
<1>1. /\ UNCHANGED <<settings, clientVars, hijacked, served, toServer, ahead, broken>>
      /\ TypeOK
  BY DEF Inv, Accept, NotHTTP, CheckOption, ReadFails, GivesUp, ServerGivesUp, wireVars
<1>2. /\ theirs' \in Ends
      /\ \/ server = "none" /\ server' \in {"http", "option"}
            /\ (server' = "http" <=> listens = "http")
         \/ server = "check" /\ server' = "serving" /\ codec \in ServerCodecs
         \/ server' = "ended"
  BY <1>1 DEF TypeOK, Accept, NotHTTP, CheckOption, ReadFails, GivesUp, ServerGivesUp, Ended, Ends
<1>3. toClient' \in Seq(Items) /\ (Connected' => Connected)
  <2>1. toClient \in Seq(Items)
    BY <1>1 DEF TypeOK
  <2>2. CASE toClient' = toClient
    BY <2>1, <2>2 DEF Connected
  <2>3. CASE NotHTTP
    <3>1. Item("refused") \in Items /\ Item("refused").type # "connected"
      BY WireItems DEF Item, Types
    <3>2. QED
      BY <2>1, <2>3, <3>1, NotConnected DEF NotHTTP
  <2>4. QED
    BY <2>2, <2>3 DEF Accept, CheckOption, ReadFails, ServerGivesUp, wireVars
<1>4. TypeOK' /\ MadeOnce'
  BY <1>1, <1>2, <1>3 DEF Inv, TypeOK, MadeOnce, Ends, Protocols, settings, clientVars
<1>5. Asks' /\ TakenFirst'
  BY <1>1, <1>2, <1>3 DEF Inv, Asks, TakenFirst, settings, clientVars
<1>6. Whole' /\ Left'
  BY <1>1, <1>2 DEF Inv, Whole, Early, Left, InStep, clientVars
<1>7. Knows' /\ StreamInStep'
  BY <1>1, <1>2 DEF Inv, Knows, Early, StreamInStep, settings, clientVars
<1>8. QED
  BY <1>4, <1>5, <1>6, <1>7 DEF Inv

(* Only the CONNECT can be there to be taken into the buffer.               *)
LEMMA ServeHTTPKeeps ==
  ASSUME Inv, ServeHTTP
  PROVE  Inv'
<1>1. /\ server = "http" /\ server' = "option" /\ toServer # <<>> /\ Head(toServer).type = "CONNECT"
      /\ UNCHANGED <<settings, clientVars, theirs, ahead, served, broken>>
      /\ TypeOK
  BY DEF Inv, ServeHTTP
<1>2. made # "client"
  <2>1. toServer # <<>> => Head(toServer) = toServer[1]
    BY <1>1, FirstTaken DEF TypeOK
  <2>2. QED
    BY <1>1, <2>1 DEF Inv, Whole, Early, Item
<1>3. toServer = <<Item("CONNECT")>> /\ protocol = "http" /\ maker \notin {"none", "connect"}
  BY <1>1, <1>2 DEF Inv, Asks
<1>4. toServer' = <<>> /\ hijacked' = {}
  <2>1. Len(toServer) = 1
    BY <1>3
  <2>2. PICK k \in 1..1 : toServer' = From(toServer, k) /\ hijacked' = Taken(Tail(toServer), k - 1)
    BY <2>1 DEF ServeHTTP
  <2>3. k = 1
    BY <2>2
  <2>4. From(toServer, 1) = <<>>
    BY <1>3, <2>1 DEF From
  <2>5. QED
    BY <2>2, <2>3, <2>4 DEF Taken
<1>5. maker # "option"
  BY <1>1, <1>3 DEF Inv, TakenFirst
<1>6. toClient' \in Seq(Items)
  BY <1>1, Written, WireItems DEF ServeHTTP, Answer, TypeOK, Types
<1>7. TypeOK' /\ MadeOnce'
  BY <1>1, <1>4, <1>6 DEF Inv, TypeOK, MadeOnce, Ends, Protocols, settings, clientVars
<1>8. Asks' /\ TakenFirst' /\ Whole' /\ Left'
  BY <1>1, <1>2, <1>3, <1>4, <1>5 DEF Inv, Asks, TakenFirst, Whole, Left, settings, clientVars
<1>9. Knows' /\ StreamInStep'
  BY <1>1, <1>4 DEF Inv, Knows, Early, StreamInStep, settings
<1>10. QED
  BY <1>7, <1>8, <1>9 DEF Inv

(* The decoder has the newline ahead and nothing else only if it took the   *)
(* option and the newline, and left all requests.                           *)
LEMMA DecodeOptionKeeps ==
  ASSUME Inv, DecodeOption
  PROVE  Inv'
<1>1. /\ server = "option" /\ server' = "check" /\ toServer # <<>> /\ Head(toServer).type = "option"
      /\ UNCHANGED <<settings, clientVars, theirs, hijacked, served, toClient, broken>>
      /\ TypeOK
  BY DEF Inv, DecodeOption
<1>2. toServer \in Seq(Items) /\ Head(toServer) = toServer[1]
  BY <1>1, FirstTaken DEF TypeOK
<1>3. made = "client"
  BY <1>1, <1>2 DEF Inv, Asks, Item
<1>4. /\ Len(toServer) = sent + 2 /\ sent \in Nat /\ sent <= MaxRequests
      /\ toServer[1] = Item("option") /\ toServer[2] = Item("newline")
      /\ \A i \in 1..sent : toServer[i + 2] = Request(i)
  BY <1>1, <1>3, MaxRequestsAssumption DEF Inv, Whole, Early, TypeOK
<1>5. PICK k \in 1..(sent + 2) :
        toServer' = From(toServer, k) /\ ahead' = Taken(Tail(toServer), k - 1)
  BY <1>1, <1>4 DEF DecodeOption
<1>6. /\ toServer' \in Seq(Items) /\ Len(toServer') = sent + 2 - k
      /\ \A i \in 1..(sent + 2 - k) : toServer'[i] = toServer[k + i]
  BY <1>2, <1>4, <1>5, Dropped
<1>7. ahead' = {toServer[i + 1] : i \in 1..(k - 1)}
  <2>1. \A i \in 1..(k - 1) : Tail(toServer)[i] = toServer[i + 1]
    BY <1>1, <1>2, <1>4, <1>5, FirstTaken
  <2>2. QED
    BY <1>5, <2>1 DEF Taken
<1>8. ahead' \subseteq Items
  <2>1. \A i \in 1..(k - 1) : toServer[i + 1] \in Items
    BY <1>2, <1>4, <1>5
  <2>2. QED
    BY <1>7, <2>1
<1>9. InStep' => k = 2
  <2>1. CASE k = 1
    BY <1>7, <2>1 DEF InStep
  <2>2. CASE k > 2
    <3>1. toServer[3] = Request(1) /\ 2 \in 1..(k - 1) /\ 2 + 1 = 3
      BY <1>4, <1>5, <2>2
    <3>2. Request(1) \in ahead'
      BY <1>7, <3>1
    <3>3. QED
      BY <3>2 DEF InStep, Request, Item
  <2>3. QED
    BY <1>5, <2>1, <2>2
<1>10. served = <<>>
  BY <1>1 DEF Inv, Knows, Early
<1>11. Left'
  <2> SUFFICES ASSUME InStep'
               PROVE  /\ Len(served) + Len(toServer') = sent
                      /\ \A i \in 1..Len(toServer') : toServer'[i] = Request(Len(served) + i)
    BY <1>1 DEF Left, clientVars
  <2>1. k = 2 /\ Len(served) = 0 /\ Len(toServer') = sent
    BY <1>4, <1>6, <1>9, <1>10
  <2>2. ASSUME NEW i \in 1..sent PROVE toServer'[i] = Request(i)
    <3>1. toServer'[i] = toServer[2 + i] /\ 2 + i = i + 2
      BY <1>4, <1>6, <2>1, <2>2
    <3>2. QED
      BY <1>4, <2>2, <3>1
  <2>3. QED
    BY <2>1, <2>2
<1>12. TypeOK' /\ MadeOnce'
  BY <1>1, <1>6, <1>8 DEF Inv, TypeOK, MadeOnce, Ends, Protocols, settings, clientVars
<1>13. Asks' /\ TakenFirst' /\ Whole'
  BY <1>1, <1>3 DEF Inv, Asks, TakenFirst, Connected, Whole, Early, settings, clientVars
<1>14. Knows' /\ StreamInStep'
  BY <1>1, <1>10 DEF Inv, Knows, Early, StreamInStep, settings
<1>15. QED
  BY <1>11, <1>12, <1>13, <1>14 DEF Inv

LEMMA ReadRequestKeeps ==
  ASSUME Inv, ReadRequest
  PROVE  Inv'
<1> DEFINE n == Len(served) + 1
<1>1. /\ server = "serving" /\ InStep /\ toServer # <<>>
      /\ served' = Append(served, Head(toServer).n) /\ toServer' = Tail(toServer)
      /\ UNCHANGED <<settings, clientVars, server, theirs, hijacked, ahead, broken>>
      /\ TypeOK
  BY DEF Inv, ReadRequest
<1>2. /\ toServer \in Seq(Items) /\ served \in Seq(1..MaxRequests)
      /\ Len(toServer) \in Nat /\ Len(served) \in Nat /\ sent \in Nat /\ sent <= MaxRequests
  BY <1>1, MaxRequestsAssumption DEF TypeOK
<1>3. /\ Len(served) + Len(toServer) = sent
      /\ \A i \in 1..Len(toServer) : toServer[i] = Request(Len(served) + i)
  BY <1>1 DEF Inv, Left
<1>4. Len(toServer) >= 1 /\ Head(toServer) = Request(n) /\ n \in 1..MaxRequests
  <2>1. Len(toServer) >= 1 /\ Head(toServer) = toServer[1]
    BY <1>1, <1>2, FirstTaken
  <2>2. toServer[1] = Request(n)
    BY <1>2, <1>3, <2>1
  <2>3. n \in 1..MaxRequests
    BY <1>2, <1>3, <2>1, MaxRequestsAssumption
  <2>4. QED
    BY <2>1, <2>2, <2>3
<1>5. served' = Append(served, n)
  BY <1>1, <1>4 DEF Request
<1>6. /\ served' \in Seq(1..MaxRequests) /\ Len(served') = n
      /\ \A i \in 1..Len(served) : served'[i] = served[i]
      /\ served'[n] = n
  BY <1>2, <1>4, <1>5, Written
<1>7. /\ toServer' \in Seq(Items) /\ Len(toServer') = Len(toServer) - 1
      /\ \A i \in 1..(Len(toServer) - 1) : toServer'[i] = toServer[i + 1]
  BY <1>1, <1>2, FirstTaken
<1>8. toClient' \in Seq(Items) /\ (Connected' => Connected)
  <2>1. Response(n) \in Items /\ Response(n).type # "connected"
    BY <1>4, WireItems DEF Response
  <2>2. Answer(Response(n))
    BY <1>4 DEF ReadRequest, Request
  <2>3. QED
    BY <1>1, <2>1, <2>2, NotConnected DEF TypeOK
<1>9. TypeOK' /\ MadeOnce'
  BY <1>1, <1>6, <1>7, <1>8 DEF Inv, TypeOK, MadeOnce, Ends, Protocols, settings, clientVars
<1>10. made = "client"
  BY <1>1 DEF Inv, Asks
<1>11. Asks' /\ TakenFirst' /\ Whole'
  BY <1>1, <1>8, <1>10 DEF Inv, Asks, TakenFirst, Whole, Early, settings, clientVars
<1>12. Left'
  <2>1. Len(served') + Len(toServer') = sent
    <3>1. Len(served') = Len(served) + 1 /\ Len(toServer') = Len(toServer) - 1
          /\ Len(served) + Len(toServer) = sent
      BY <1>3, <1>6, <1>7
    <3>2. QED
      BY <1>2, <3>1
  <2>2. ASSUME NEW i \in 1..Len(toServer') PROVE toServer'[i] = Request(Len(served') + i)
    <3>1. i + 1 \in 1..Len(toServer) /\ toServer'[i] = toServer[i + 1]
      BY <1>2, <1>4, <1>7
    <3>2. Len(served) + (i + 1) = Len(served') + i
      BY <1>2, <1>6
    <3>3. QED
      BY <1>3, <3>1, <3>2
  <2>3. QED
    BY <1>1, <2>1, <2>2 DEF Left, clientVars
<1>13. Knows' /\ StreamInStep'
  <2>1. codec \in ClientCodecs \cap ServerCodecs
    BY <1>1, <1>10 DEF Inv, MadeOnce, Knows
  <2>2. \A i \in 1..Len(served') : served'[i] = i
    BY <1>2, <1>6 DEF Inv, StreamInStep
  <2>3. QED
    BY <1>1, <2>1, <2>2 DEF Inv, Knows, Early, StreamInStep, settings
<1>14. QED
  BY <1>9, <1>11, <1>12, <1>13 DEF Inv

-----------------------------------------------------------------------------
(* Whatever happens around it, the handshake is well begun: the inductive   *)
(* invariant holds in every reachable state.                                *)
THEOREM Invariance == Spec => []Inv
<1>1. Init => Inv
  BY InvInit
<1>2. Inv /\ [Next]_vars => Inv'
  <2> SUFFICES ASSUME Inv, [Next]_vars PROVE Inv'
    OBVIOUS
  <2>1. CASE DialFails \/ Connects \/ Result \/ Timeout \/ Close \/ Breaks
    BY <2>1, DialKeeps
  <2>2. CASE ClientStep \/ Send
    BY <2>2, SendConnectKeeps, ReadResponseKeeps, NewClientKeeps, ReceiveKeeps, SendKeeps
       DEF ClientStep
  <2>3. CASE Accept \/ ServerStep
    BY <2>3, ServerEndsKeeps, ServeHTTPKeeps, DecodeOptionKeeps, ReadRequestKeeps DEF ServerStep
  <2>4. CASE UNCHANGED vars
    BY <2>4 DEF vars, settings, clientVars, serverVars, wireVars, Inv, TypeOK, MadeOnce, Asks,
                TakenFirst, Connected, Whole, Early, Left, InStep, Knows, StreamInStep
  <2>5. QED
    BY <2>1, <2>2, <2>3, <2>4 DEF Next
<1>3. QED
  BY <1>1, <1>2, PTL DEF Spec

(* Every variable keeps its type.                                           *)
THEOREM TypeCorrect == Spec => []TypeOK
<1>1. Inv => TypeOK
  BY DEF Inv
<1>2. QED
  BY <1>1, Invariance, PTL

(* Nothing is lost in Hijack's buffer, and the server reads the first       *)
(* requests of the client, none skipped, in a codec both ends know.         *)
THEOREM ReadInStep == Spec => []StreamInStep
<1>1. Inv => StreamInStep
  BY DEF Inv
<1>2. QED
  BY <1>1, Invariance, PTL

(* Whatever step comes after a failed dial, the connection stays closed.    *)
LEMMA OpenedInvariance == Spec => []Opened
<1>1. Init => Opened
  BY DEF Init, Opened
<1>2. Inv /\ Opened /\ [Next]_vars => Opened'
  <2> SUFFICES ASSUME Inv, Opened, [Next]_vars PROVE Opened'
    OBVIOUS
  <2> USE DEF Inv, TypeOK, Ends, Opened, serverVars, clientVars
  <2>1. CASE DialFails \/ Connects \/ Result \/ Timeout \/ Close \/ Breaks
    BY <2>1 DEF MadeOnce, DialFails, Connects, Result, Timeout, Close, Breaks, CloseOnError
  <2>2. CASE ClientStep \/ Send
    BY <2>2 DEF ClientStep, SendConnect, ReadResponse, NewClient, Receive, Send, Makes, CanWrite,
       AfterResponse
  <2>3. CASE Accept \/ ServerStep
    <3>1. UNCHANGED <<dial, maker, receiver, ours>>
      BY <2>3 DEF Accept, ServerStep, ServeHTTP, NotHTTP, DecodeOption, CheckOption, ReadRequest,
         ReadFails, ServerGivesUp
    <3>2. \/ Accept \/ server # "none"
      BY <2>3 DEF ServerStep, ServeHTTP, NotHTTP, DecodeOption, CheckOption, ReadRequest,
         ReadFails, Undecodable, ServerGivesUp
    <3>3. theirs' = "open" => server' \in {"http", "option", "check", "serving"}
      BY <2>3 DEF Accept, ServerStep, ServeHTTP, NotHTTP, DecodeOption, CheckOption, ReadRequest,
         ReadFails, Undecodable, GivesUp, ServerGivesUp, Ended
    <3>4. QED
      BY <3>1, <3>2, <3>3 DEF Accept
  <2>4. CASE UNCHANGED vars
    BY <2>4 DEF vars
  <2>5. QED
    BY <2>1, <2>2, <2>3, <2>4 DEF Next
<1>3. QED
  BY <1>1, <1>2, Invariance, PTL DEF Spec

(* Nobody at either end of a failed dial is left to wait.                   *)
THEOREM FailureNoticed == Spec => []FailureReachesAll
<1>1. Inv /\ Opened => FailureReachesAll
  <2> SUFFICES ASSUME Inv, Opened, dial = "error"
               PROVE  /\ maker = "response" \/ receiver = "reading" => OursFails
                      /\ theirs = "open" => ServerGoes
    BY DEF FailureReachesAll, Opened
  <2>1. maker = "response" \/ receiver = "reading" => OursFails
    BY DEF Inv, TypeOK, Ends, Opened, OursFails
  <2>2. ASSUME theirs = "open", ~TheirsFails PROVE ServerGoes
    <3>1. ours = "closed" /\ ~broken /\ toServer # <<>>
      BY <2>2 DEF Inv, TypeOK, Ends, Opened, TheirsFails
    <3>2. QED
      BY <2>2, <3>1 DEF Inv, TypeOK, Opened, ServerGoes, Undecodable
  <2>3. QED
    BY <2>1, <2>2 DEF ServerGoes
<1>2. QED
  BY <1>1, Invariance, OpenedInvariance, PTL
===============================================================================
