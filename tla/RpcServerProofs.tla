---------------------------- MODULE RpcServerProofs ----------------------------
(***************************************************************************)
(* Safety of RpcServer for any set of requests, any choice of unknown and  *)
(* undecodable ones and any transport capacity, and the proof that it      *)
(* implements RpcPeer.                                                     *)
(***************************************************************************)
EXTENDS RpcServer, FiniteSetTheorems, SequenceTheorems, TLAPS

(* What a decoder step leaves of the stream.                                *)
LEMMA TailOfStream ==
  ASSUME NEW s \in Seq(Item), s # << >>
  PROVE  /\ Tail(s) \in Seq(Item) /\ Head(s) = s[1] /\ Head(s) \in Item
         /\ Len(s) \in Nat \ {0} /\ DOMAIN s = 1 .. Len(s)
         /\ DOMAIN Tail(s) = 1 .. (Len(s) - 1)
         /\ \A i \in DOMAIN Tail(s) : Tail(s)[i] = s[i + 1] /\ i + 1 \in DOMAIN s
<1>1. Tail(s) \in Seq(Item) /\ Len(Tail(s)) = Len(s) - 1 /\ Head(s) \in Item
  BY HeadTailProperties
<1>2. \A i \in 1 .. Len(Tail(s)) : Tail(s)[i] = s[i + 1]
  BY HeadTailProperties
<1>3. Len(s) \in Nat \ {0} /\ DOMAIN s = 1 .. Len(s) /\ Head(s) = s[1]
  OBVIOUS
<1>4. DOMAIN Tail(s) = 1 .. (Len(s) - 1)
  BY <1>1, <1>3
<1>5. QED
  BY <1>1, <1>2, <1>3, <1>4

(* What a lost connection leaves of the stream.                             *)
LEMMA PrefixOfStream ==
  ASSUME NEW s \in Seq(Item), NEW n \in 0 .. Len(s)
  PROVE  /\ SubSeq(s, 1, n) \in Seq(Item)
         /\ DOMAIN SubSeq(s, 1, n) \subseteq DOMAIN s
         /\ \A i \in DOMAIN SubSeq(s, 1, n) : SubSeq(s, 1, n)[i] = s[i]
<1>1. \A i \in 1 .. n : s[i] \in Item
  OBVIOUS
<1>2. SubSeq(s, 1, n) \in Seq(Item) /\ Len(SubSeq(s, 1, n)) = n
  BY <1>1, SubSeqProperties
<1>3. \A i \in 1 .. n : SubSeq(s, 1, n)[i] = s[i]
  BY <1>1, SubSeqProperties
<1>4. QED
  BY <1>2, <1>3

(* Decoding one value leaves every header in the stream once, and none for  *)
(* the request whose header was decoded.                                    *)
LEMMA StreamStaysOrdered ==
  ASSUME TypeOK, ReadInOrder, stream # << >>, stream' = Tail(stream)
  PROVE  /\ stream' \in Seq(Item)
         /\ Head(stream) \in Item
         /\ \E j \in DOMAIN stream : Head(stream) = stream[j]
         /\ \A i \in DOMAIN stream' : \E j \in DOMAIN stream : stream'[i] = stream[j]
         /\ \A i, j \in DOMAIN stream' :
              /\ stream'[i].part = "header" /\ stream'[j].part = "header"
              /\ stream'[i].req = stream'[j].req
              => i = j
         /\ Head(stream).part = "header" =>
              \A i \in DOMAIN stream' :
                stream'[i].part = "header" => stream'[i].req # Head(stream).req
<1>1. stream' \in Seq(Item) /\ Head(stream) \in Item
  BY TailOfStream DEF TypeOK
<1>2. 1 \in DOMAIN stream /\ Head(stream) = stream[1]
  BY TailOfStream DEF TypeOK
<1>3. \A i \in DOMAIN stream' :
        i \in Nat \ {0} /\ i + 1 \in DOMAIN stream /\ stream'[i] = stream[i + 1]
  BY TailOfStream DEF TypeOK
<1>4. \A i, j \in DOMAIN stream' : i + 1 # 1 /\ (i + 1 = j + 1 => i = j)
  BY <1>3
<1>5. QED
  BY <1>1, <1>2, <1>3, <1>4 DEF ReadInOrder

(* The WaitGroup's counter follows the handlers: nothing starts or ends ... *)
LEMMA NoneStartsOrEnds ==
  ASSUME WaitGroupCounts, UNCHANGED wg, loop' = "closed" => loop = "closed",
         \A r \in Requests : outer'[r] \in {"none", "done"} <=> outer[r] \in {"none", "done"}
  PROVE  WaitGroupCounts'
<1>1. Running' = Running
  BY DEF Running
<1>2. QED
  BY <1>1 DEF WaitGroupCounts

(* ... a handler starts while the loop runs ...                             *)
LEMMA OneStarts ==
  ASSUME TypeOK, WaitGroupCounts, NEW r \in Requests, outer[r] = "none",
         outer' = [outer EXCEPT ![r] = "select"], wg' = wg + 1, loop' # "closed"
  PROVE  WaitGroupCounts'
<1>1. Running' = Running \cup {r} /\ r \notin Running
  BY DEF Running, TypeOK
<1>2. IsFiniteSet(Running') /\ Cardinality(Running') = Cardinality(Running) + 1
  BY <1>1, FS_AddElement DEF WaitGroupCounts
<1>3. QED
  BY <1>2 DEF WaitGroupCounts

(* ... a handler ends, and was counted.                                     *)
LEMMA OneEnds ==
  ASSUME TypeOK, WaitGroupCounts, NEW r \in Running,
         outer' = [outer EXCEPT ![r] = "done"], wg' = wg - 1,
         loop' = "closed" => loop = "closed"
  PROVE  WaitGroupCounts' /\ wg' \in Nat
<1>1. Running' = Running \ {r}
  BY DEF Running, TypeOK
<1>2. IsFiniteSet(Running') /\ Cardinality(Running') = Cardinality(Running) - 1
  BY <1>1, FS_RemoveElement DEF WaitGroupCounts
<1>3. Cardinality(Running') \in Nat
  BY <1>2, FS_CardinalityType
<1>4. QED
  BY <1>2, <1>3 DEF WaitGroupCounts

(* The initial states satisfy the inductive invariant.                      *)
LEMMA InvInit == Init => Inv
<1> SUFFICES ASSUME Init PROVE Inv
  OBVIOUS
<1> USE RequestAssumption, OutCapAssumption DEF Init
<1>1. TypeOK
  BY DEF TypeOK, Item, Errors, Answer
<1>2. Running = {}
  BY DEF Running
<1>3. WaitGroupCounts
  BY <1>2, FS_EmptySet DEF WaitGroupCounts
<1>4. ReadInOrder /\ HandedOver /\ SenderHolds
  BY DEF ReadInOrder, Untouched, HandedOver, SenderHolds
<1>5. ErrorSet /\ AnswersWritten /\ AnsweredOnce
  BY DEF ErrorSet, OkMeansReturned, AnswersWritten, AnsweredOnce
<1>6. QED
  BY <1>1, <1>3, <1>4, <1>5 DEF Inv

(* Every step preserves the inductive invariant, action by action.  The     *)
(* arguments with content: `called' is received only by a select that has   *)
(* not timed out, so one of the two goroutines of a request writes and the  *)
(* other does not; the loop touches a request only before its handler       *)
(* exists; a handler that ends was counted when it started.                 *)
LEMMA InvStep == Inv /\ [Next]_vars => Inv'
<1> SUFFICES ASSUME Inv, [Next]_vars PROVE Inv'
  OBVIOUS
<1> USE RequestAssumption, OutCapAssumption
    DEF handlerVars, loopVars, Parts, Item, Errors, Answer
<1>1. ASSUME NEW r \in Requests, ClientSends(r) PROVE Inv'
  <2>1. TypeOK'
    BY <1>1 DEF Inv, TypeOK, ClientSends, HeaderOf, BodyOf
  <2>2. ReadInOrder'
    <3> DEFINE n == Len(stream)
    <3>1. /\ DOMAIN stream' = DOMAIN stream \cup {n + 1, n + 2}
          /\ DOMAIN stream = 1 .. n /\ n \in Nat
          /\ \A i \in DOMAIN stream : stream'[i] = stream[i]
          /\ stream'[n + 1] = HeaderOf(r) /\ stream'[n + 2] = BodyOf(r)
      BY <1>1 DEF Inv, TypeOK, ClientSends, HeaderOf, BodyOf
    <3>2. r \notin sent /\ sent' = sent \cup {r} /\ UNCHANGED <<outer, writes, cur, loop, hErr>>
      BY <1>1 DEF ClientSends
    <3> HIDE DEF n
    <3>3. QED
      BY <3>1, <3>2 DEF Inv, TypeOK, ReadInOrder, Untouched, HeaderOf, BodyOf
  <2>3. (HandedOver /\ SenderHolds /\ ErrorSet /\ AnswersWritten /\
        AnsweredOnce /\ WaitGroupCounts)'
    BY <1>1 DEF Inv, HandedOver, SenderHolds, Refusing, TimedOut, Responding,
        ErrorSet, OkMeansReturned, AnswersWritten, AnsweredOnce,
        WaitGroupCounts, Running, ClientSends
  <2>4. QED
    BY <2>1, <2>2, <2>3 DEF Inv
<1>2. ASSUME ClientReads PROVE Inv'
  <2>1. TypeOK'
    BY <1>2 DEF Inv, TypeOK, ClientReads
  <2>2. (ReadInOrder /\ HandedOver /\ SenderHolds /\ ErrorSet /\
        AnswersWritten /\ AnsweredOnce /\ WaitGroupCounts)'
    BY <1>2 DEF Inv, ReadInOrder, Untouched, HandedOver, SenderHolds,
        Refusing, TimedOut, Responding, ErrorSet, OkMeansReturned,
        AnswersWritten, AnsweredOnce, WaitGroupCounts, Running, ClientReads
  <2>3. QED
    BY <2>1, <2>2 DEF Inv
<1>3. ASSUME ClientLeaves PROVE Inv'
  <2>1. TypeOK'
    <3>1. PICK n \in 0 .. Len(stream) : stream' = SubSeq(stream, 1, n)
      BY <1>3 DEF ClientLeaves
    <3>2. stream' \in Seq(Item)
      BY <3>1, PrefixOfStream DEF Inv, TypeOK
    <3>3. QED
      BY <1>3, <3>2 DEF Inv, TypeOK, ClientLeaves
  <2>2. ReadInOrder'
    <3>1. PICK n \in 0 .. Len(stream) : stream' = SubSeq(stream, 1, n)
      BY <1>3 DEF ClientLeaves
    <3>2. \A i \in DOMAIN stream' : i \in DOMAIN stream /\ stream'[i] = stream[i]
      BY <3>1, PrefixOfStream DEF Inv, TypeOK
    <3>3. UNCHANGED <<sent, loop, cur, outer, writes, hErr>>
      BY <1>3 DEF ClientLeaves
    <3>4. QED
      BY <3>2, <3>3 DEF Inv, ReadInOrder, Untouched
  <2>3. (HandedOver /\ SenderHolds /\ ErrorSet /\ AnswersWritten /\
        AnsweredOnce /\ WaitGroupCounts)'
    BY <1>3 DEF Inv, HandedOver, SenderHolds, Refusing, TimedOut, Responding,
        ErrorSet, OkMeansReturned, AnswersWritten, AnsweredOnce,
        WaitGroupCounts, Running, ClientLeaves
  <2>4. QED
    BY <2>1, <2>2, <2>3 DEF Inv
<1>4. ASSUME ReadHeader PROVE Inv'
  <2>1. TypeOK'
    <3>1. stream' \in Seq(Item) /\ Head(stream).req \in Requests
      BY <1>4, StreamStaysOrdered DEF Inv, ReadHeader, Readable
    <3>2. /\ cur' = Head(stream).req /\ loop' = "body"
          /\ UNCHANGED <<timeout, sent, conn, outer, inner, failed, wg, hErr, sending,
                         writes, outbox, answers>>
      BY <1>4 DEF ReadHeader
    <3>3. QED
      BY <3>1, <3>2 DEF Inv, TypeOK
  <2>2. ReadInOrder'
    BY <1>4, StreamStaysOrdered DEF Inv, ReadInOrder, Untouched, ReadHeader, Readable
  <2>3. SenderHolds'
    BY <1>4 DEF Inv, TypeOK, SenderHolds, Refusing, TimedOut, Responding,
        ReadHeader, Readable
  <2>4. (HandedOver /\ ErrorSet /\ AnswersWritten /\ AnsweredOnce /\
        WaitGroupCounts)'
    BY <1>4 DEF Inv, HandedOver, ErrorSet, OkMeansReturned, AnswersWritten,
        AnsweredOnce, WaitGroupCounts, Running, ReadHeader
  <2>5. QED
    BY <2>1, <2>2, <2>3, <2>4 DEF Inv
<1>5. ASSUME ReadUnknown PROVE Inv'
  <2>1. TypeOK'
    BY <1>5 DEF Inv, TypeOK, ReadUnknown, Readable
  <2>2. ReadInOrder'
    <3>1. /\ stream # << >> /\ stream' = Tail(stream) /\ Head(stream).part = "header"
          /\ cur' = Head(stream).req /\ loop' = "refuse"
          /\ UNCHANGED <<sent, outer, writes>>
      BY <1>5 DEF ReadUnknown, Readable
    <3>2. hErr'[Head(stream).req] = "service"
      BY <1>5, <3>1, StreamStaysOrdered DEF Inv, TypeOK, ReadUnknown
    <3>3. QED
      BY <3>1, <3>2, StreamStaysOrdered DEF Inv, ReadInOrder, Untouched
  <2>3. SenderHolds'
    BY <1>5 DEF Inv, TypeOK, SenderHolds, Refusing, TimedOut, Responding,
        ReadUnknown, Readable
  <2>4. ErrorSet'
    BY <1>5 DEF Inv, TypeOK, ErrorSet, OkMeansReturned, ReadUnknown, Readable
  <2>5. (HandedOver /\ AnswersWritten /\ AnsweredOnce /\ WaitGroupCounts)'
    BY <1>5 DEF Inv, HandedOver, AnswersWritten, AnsweredOnce,
        WaitGroupCounts, Running, ReadUnknown
  <2>6. QED
    BY <2>1, <2>2, <2>3, <2>4, <2>5 DEF Inv
<1>6. ASSUME ReadHeaderFails PROVE Inv'
  <2>1. TypeOK'
    BY <1>6 DEF Inv, TypeOK, ReadHeaderFails, Readable, AtEnd
  <2>2. ReadInOrder'
    BY <1>6 DEF Inv, TypeOK, ReadInOrder, Untouched, ReadHeaderFails,
        Readable, AtEnd
  <2>3. SenderHolds'
    BY <1>6 DEF Inv, TypeOK, SenderHolds, Refusing, TimedOut, Responding,
        ReadHeaderFails, Readable, AtEnd
  <2>4. (HandedOver /\ ErrorSet /\ AnswersWritten /\ AnsweredOnce /\
        WaitGroupCounts)'
    BY <1>6 DEF Inv, HandedOver, ErrorSet, OkMeansReturned, AnswersWritten,
        AnsweredOnce, WaitGroupCounts, Running, ReadHeaderFails
  <2>5. QED
    BY <2>1, <2>2, <2>3, <2>4 DEF Inv
<1>7. ASSUME Handle PROVE Inv'
  <2>1. TypeOK'
    <3>1. stream' \in Seq(Item)
      BY <1>7, StreamStaysOrdered DEF Inv, Handle, Readable
    <3>2. /\ wg' = wg + 1 /\ loop' = "header"
          /\ outer' = [outer EXCEPT ![cur] = "select"]
          /\ inner' = [inner EXCEPT ![cur] = "call"]
          /\ UNCHANGED <<timeout, sent, cur, conn, failed, hErr, sending, writes, outbox,
                         answers>>
      BY <1>7 DEF Handle, Counted
    <3>3. /\ outer' \in [Requests -> {"none", "select", "timedOut", "awaitSent", "done"}]
          /\ inner' \in [Requests -> {"none", "call", "returned", "respond", "sent", "done"}]
      BY <3>2 DEF Inv, TypeOK
    <3>4. QED
      BY <3>1, <3>2, <3>3 DEF Inv, TypeOK
  <2>2. ReadInOrder'
    <3>1. /\ stream # << >> /\ stream' = Tail(stream) /\ loop' = "header"
          /\ \A r \in Requests \ {cur} : outer'[r] = outer[r]
          /\ UNCHANGED <<sent, cur, writes>>
      BY <1>7 DEF Inv, TypeOK, Handle, Readable
    <3>2. cur \in sent /\ \A i \in DOMAIN stream :
                             stream[i].part = "header" => stream[i].req # cur
      BY <1>7 DEF Inv, ReadInOrder, Handle
    <3>3. \A i \in DOMAIN stream' : stream'[i].part = "header" =>
            stream'[i].req \in (sent \cap Requests) \ {cur} /\ Untouched(stream'[i].req)
      BY <3>1, <3>2, StreamStaysOrdered DEF Inv, TypeOK, ReadInOrder
    <3>4. QED
      BY <3>1, <3>2, <3>3, StreamStaysOrdered DEF Inv, ReadInOrder, Untouched
  <2>3. HandedOver'
    BY <1>7 DEF Inv, TypeOK, HandedOver, ReadInOrder, Untouched, Handle,
        Readable, Counted
  <2>4. SenderHolds'
    BY <1>7 DEF Inv, TypeOK, SenderHolds, Refusing, TimedOut, Responding,
        ReadInOrder, Untouched, HandedOver, Handle, Readable, Counted
  <2>5. ErrorSet'
    BY <1>7 DEF Inv, TypeOK, ErrorSet, OkMeansReturned, ReadInOrder,
        Untouched, HandedOver, Handle, Readable, Counted
  <2>6. WaitGroupCounts'
    <3>1. cur \in Requests /\ outer[cur] = "none"
      BY <1>7 DEF Inv, TypeOK, ReadInOrder, Untouched, Handle
    <3>2. QED
      BY <1>7, <3>1, OneStarts DEF Inv, Handle, Counted
  <2>7. (AnswersWritten /\ AnsweredOnce)'
    BY <1>7 DEF Inv, AnswersWritten, AnsweredOnce, Handle
  <2>8. QED
    BY <2>1, <2>2, <2>3, <2>4, <2>5, <2>6, <2>7 DEF Inv
<1>8. ASSUME ReadBodyFails PROVE Inv'
  <2>1. TypeOK'
    <3>1. stream' \in Seq(Item)
      <4>1. CASE Readable("body") /\ stream' = Tail(stream)
        BY <4>1, StreamStaysOrdered DEF Inv, Readable
      <4>2. CASE UNCHANGED stream
        BY <4>2 DEF Inv, TypeOK
      <4>3. QED
        BY <1>8, <4>1, <4>2 DEF ReadBodyFails
    <3>2. QED
      BY <1>8, <3>1 DEF Inv, TypeOK, ReadBodyFails
  <2>2. ReadInOrder'
    <3>1. /\ loop = "body" /\ loop' = "refuse" /\ cur \in Requests
          /\ hErr'[cur] = "body" /\ UNCHANGED <<sent, cur, outer, writes>>
      BY <1>8 DEF Inv, TypeOK, ReadInOrder, ReadBodyFails
    <3>2. CASE Readable("body") /\ stream' = Tail(stream)
      BY <3>1, <3>2, StreamStaysOrdered DEF Inv, ReadInOrder, Untouched, Readable
    <3>3. CASE UNCHANGED stream
      BY <3>1, <3>3 DEF Inv, TypeOK, ReadInOrder, Untouched
    <3>4. QED
      BY <1>8, <3>2, <3>3 DEF ReadBodyFails
  <2>3. SenderHolds'
    BY <1>8 DEF Inv, TypeOK, SenderHolds, Refusing, TimedOut, Responding,
        ReadBodyFails, Readable, AtEnd
  <2>4. ErrorSet'
    BY <1>8 DEF Inv, TypeOK, ErrorSet, OkMeansReturned, ReadBodyFails,
        Readable, AtEnd
  <2>5. (HandedOver /\ AnswersWritten /\ AnsweredOnce /\ WaitGroupCounts)'
    BY <1>8 DEF Inv, HandedOver, AnswersWritten, AnsweredOnce,
        WaitGroupCounts, Running, ReadBodyFails
  <2>6. QED
    BY <2>1, <2>2, <2>3, <2>4, <2>5 DEF Inv
<1>9. ASSUME CloseConn PROVE Inv'
  <2>1. TypeOK'
    BY <1>9 DEF Inv, TypeOK, CloseConn
  <2>2. ReadInOrder'
    BY <1>9 DEF Inv, TypeOK, ReadInOrder, Untouched, CloseConn
  <2>3. SenderHolds'
    BY <1>9 DEF Inv, TypeOK, SenderHolds, Refusing, TimedOut, Responding,
        CloseConn
  <2>4. WaitGroupCounts'
    <3>1. Running' = Running
      BY <1>9 DEF Running, CloseConn
    <3>2. Running = {}
      BY <1>9, FS_EmptySet DEF Inv, WaitGroupCounts, CloseConn
    <3>3. QED
      BY <1>9, <3>1, <3>2 DEF Inv, WaitGroupCounts, CloseConn
  <2>5. (HandedOver /\ ErrorSet /\ AnswersWritten /\ AnsweredOnce)'
    BY <1>9 DEF Inv, HandedOver, ErrorSet, OkMeansReturned, AnswersWritten,
        AnsweredOnce, CloseConn
  <2>6. QED
    BY <2>1, <2>2, <2>3, <2>4, <2>5 DEF Inv
<1>10. ASSUME NEW r \in Requests, MethodReturns(r) PROVE Inv'
  <2>1. TypeOK'
    BY <1>10 DEF Inv, TypeOK, MethodReturns
  <2>2. HandedOver'
    BY <1>10 DEF Inv, TypeOK, HandedOver, MethodReturns
  <2>3. SenderHolds'
    BY <1>10 DEF Inv, TypeOK, SenderHolds, Refusing, TimedOut, Responding,
        MethodReturns
  <2>4. ErrorSet'
    BY <1>10 DEF Inv, TypeOK, ErrorSet, OkMeansReturned, MethodReturns
  <2>5. (ReadInOrder /\ AnswersWritten /\ AnsweredOnce /\ WaitGroupCounts)'
    BY <1>10 DEF Inv, ReadInOrder, Untouched, AnswersWritten, AnsweredOnce,
        WaitGroupCounts, Running, MethodReturns
  <2>6. QED
    BY <2>1, <2>2, <2>3, <2>4, <2>5 DEF Inv
<1>11. ASSUME NEW r \in Requests, Called(r) PROVE Inv'
  <2>1. TypeOK'
    BY <1>11 DEF Inv, TypeOK, Called, Receiving
  <2>2. ReadInOrder'
    BY <1>11 DEF Inv, TypeOK, ReadInOrder, Untouched, Called, Receiving
  <2>3. HandedOver'
    BY <1>11 DEF Inv, TypeOK, HandedOver, Called, Receiving
  <2>4. SenderHolds'
    BY <1>11 DEF Inv, TypeOK, SenderHolds, Refusing, TimedOut, Responding,
        Called, Receiving
  <2>5. ErrorSet'
    BY <1>11 DEF Inv, TypeOK, ErrorSet, OkMeansReturned, Called, Receiving
  <2>6. WaitGroupCounts'
    BY <1>11, NoneStartsOrEnds DEF Inv, TypeOK, Called, Receiving
  <2>7. (AnswersWritten /\ AnsweredOnce)'
    BY <1>11 DEF Inv, AnswersWritten, AnsweredOnce, Called
  <2>8. QED
    BY <2>1, <2>2, <2>3, <2>4, <2>5, <2>6, <2>7 DEF Inv
<1>12. ASSUME NEW r \in Requests, TimeOut(r) PROVE Inv'
  <2>1. TypeOK'
    BY <1>12 DEF Inv, TypeOK, TimeOut, Armed, TimeoutError
  <2>2. ReadInOrder'
    BY <1>12 DEF Inv, TypeOK, ReadInOrder, Untouched, TimeOut, Armed,
        TimeoutError
  <2>3. HandedOver'
    BY <1>12 DEF Inv, TypeOK, HandedOver, TimeOut, Armed, TimeoutError
  <2>4. SenderHolds'
    BY <1>12 DEF Inv, TypeOK, SenderHolds, Refusing, TimedOut, Responding,
        TimeOut, Armed, TimeoutError
  <2>5. ErrorSet'
    BY <1>12 DEF Inv, TypeOK, ErrorSet, OkMeansReturned, TimeOut, Armed,
        TimeoutError
  <2>6. WaitGroupCounts'
    BY <1>12, NoneStartsOrEnds DEF Inv, TypeOK, TimeOut
  <2>7. (AnswersWritten /\ AnsweredOnce)'
    BY <1>12 DEF Inv, AnswersWritten, AnsweredOnce, TimeOut
  <2>8. QED
    BY <2>1, <2>2, <2>3, <2>4, <2>5, <2>6, <2>7 DEF Inv
<1>13. ASSUME NEW r \in Requests, Sent(r) PROVE Inv'
  <2>1. TypeOK'
    <3>1. r \in Running
      BY <1>13 DEF Running, Sent
    <3>2. wg' \in Nat
      BY <1>13, <3>1, OneEnds DEF Inv, Sent
    <3>3. QED
      BY <1>13, <3>2 DEF Inv, TypeOK, Sent
  <2>2. ReadInOrder'
    BY <1>13 DEF Inv, TypeOK, ReadInOrder, Untouched, Sent
  <2>3. HandedOver'
    BY <1>13 DEF Inv, TypeOK, HandedOver, Sent
  <2>4. SenderHolds'
    BY <1>13 DEF Inv, TypeOK, SenderHolds, Refusing, TimedOut, Responding,
        Sent
  <2>5. ErrorSet'
    BY <1>13 DEF Inv, TypeOK, ErrorSet, OkMeansReturned, Sent
  <2>6. WaitGroupCounts'
    <3>1. r \in Running
      BY <1>13 DEF Running, Sent
    <3>2. QED
      BY <1>13, <3>1, OneEnds DEF Inv, Sent
  <2>7. (AnswersWritten /\ AnsweredOnce)'
    BY <1>13 DEF Inv, AnswersWritten, AnsweredOnce, Sent
  <2>8. QED
    BY <2>1, <2>2, <2>3, <2>4, <2>5, <2>6, <2>7 DEF Inv
<1>14. ASSUME NEW r \in Requests, LockSending(r) PROVE Inv'
  <2>1. TypeOK'
    BY <1>14 DEF Inv, TypeOK, LockSending, Refusing, TimedOut, Responding
  <2>2. SenderHolds'
    BY <1>14 DEF Inv, TypeOK, SenderHolds, Refusing, TimedOut, Responding,
        LockSending
  <2>3. (ReadInOrder /\ HandedOver /\ ErrorSet /\ AnswersWritten /\
        AnsweredOnce /\ WaitGroupCounts)'
    BY <1>14 DEF Inv, ReadInOrder, Untouched, HandedOver, ErrorSet,
        OkMeansReturned, AnswersWritten, AnsweredOnce, WaitGroupCounts,
        Running, LockSending
  <2>4. QED
    BY <2>1, <2>2, <2>3 DEF Inv
<1>15. ASSUME NEW r \in Requests, Respond(r) PROVE Inv'
  <2>1. TypeOK'
    <3>1. CASE TimedOut(r) /\ wg' = wg - 1 /\ outer' = [outer EXCEPT ![r] = "done"] /\ UNCHANGED <<loop, inner>>
      <4>1. r \in Running
        BY <3>1 DEF Running, TimedOut
      <4>2. wg' \in Nat
        BY <3>1, <4>1, OneEnds DEF Inv
      <4>3. QED
        BY <1>15, <3>1, <4>2 DEF Inv, TypeOK, Respond, OwnHeader, Unlock
    <3>2. CASE UNCHANGED wg
      BY <1>15, <3>2 DEF Inv, TypeOK, Respond, OwnHeader, Unlock, DoneCounting
    <3>3. QED
      BY <1>15, <3>1, <3>2 DEF Respond, Unlock, DoneCounting
  <2>2. ReadInOrder'
    BY <1>15 DEF Inv, TypeOK, ReadInOrder, Untouched, HandedOver, Respond,
        OwnHeader, Unlock, Refusing, TimedOut, Responding, DoneCounting
  <2>3. HandedOver'
    BY <1>15 DEF Inv, TypeOK, HandedOver, ReadInOrder, Untouched, Respond,
        OwnHeader, Unlock, Refusing, TimedOut, Responding, DoneCounting
  <2>4. SenderHolds'
    BY <1>15 DEF Inv, TypeOK, SenderHolds, Refusing, TimedOut, Responding,
        Respond, OwnHeader, Unlock, DoneCounting
  <2>5. ErrorSet'
    BY <1>15 DEF Inv, TypeOK, ErrorSet, OkMeansReturned, ReadInOrder,
        Untouched, Respond, OwnHeader, Unlock, Refusing, TimedOut, Responding,
        DoneCounting
  <2>6. AnswersWritten'
    BY <1>15 DEF Inv, TypeOK, AnswersWritten, Respond, OwnHeader, Unlock,
        Refusing, TimedOut, Responding, DoneCounting
  <2>7. AnsweredOnce'
    BY <1>15 DEF Inv, TypeOK, AnsweredOnce, ReadInOrder, Untouched,
        HandedOver, Respond, OwnHeader, Unlock, Refusing, TimedOut,
        Responding, DoneCounting
  <2>8. WaitGroupCounts'
    <3>1. CASE TimedOut(r) /\ wg' = wg - 1 /\ outer' = [outer EXCEPT ![r] = "done"] /\ UNCHANGED <<loop, inner>>
      <4>1. r \in Running
        BY <3>1 DEF Running, TimedOut
      <4>2. QED
        BY <3>1, <4>1, OneEnds DEF Inv
    <3>2. CASE UNCHANGED <<outer, wg>> /\ loop' \in {"header", loop}
      BY <3>2, NoneStartsOrEnds DEF Inv
    <3>3. QED
      BY <1>15, <3>1, <3>2 DEF Respond, Unlock, DoneCounting
  <2>9. QED
    BY <2>1, <2>2, <2>3, <2>4, <2>5, <2>6, <2>7, <2>8 DEF Inv
<1>16. ASSUME NEW r \in Requests, RespondLost(r) PROVE Inv'
  <2>1. TypeOK'
    <3>1. CASE TimedOut(r) /\ wg' = wg - 1 /\ outer' = [outer EXCEPT ![r] = "done"] /\ UNCHANGED <<loop, inner>>
      <4>1. r \in Running
        BY <3>1 DEF Running, TimedOut
      <4>2. wg' \in Nat
        BY <3>1, <4>1, OneEnds DEF Inv
      <4>3. QED
        BY <1>16, <3>1, <4>2 DEF Inv, TypeOK, RespondLost, Unlock
    <3>2. CASE UNCHANGED wg
      BY <1>16, <3>2 DEF Inv, TypeOK, RespondLost, Unlock, DoneCounting
    <3>3. QED
      BY <1>16, <3>1, <3>2 DEF RespondLost, Unlock, DoneCounting
  <2>2. ReadInOrder'
    BY <1>16 DEF Inv, TypeOK, ReadInOrder, Untouched, HandedOver, RespondLost,
        Unlock, Refusing, TimedOut, Responding, DoneCounting
  <2>3. HandedOver'
    BY <1>16 DEF Inv, TypeOK, HandedOver, ReadInOrder, Untouched, RespondLost,
        Unlock, Refusing, TimedOut, Responding, DoneCounting
  <2>4. SenderHolds'
    BY <1>16 DEF Inv, TypeOK, SenderHolds, Refusing, TimedOut, Responding,
        RespondLost, Unlock, DoneCounting
  <2>5. ErrorSet'
    BY <1>16 DEF Inv, TypeOK, ErrorSet, OkMeansReturned, ReadInOrder,
        Untouched, RespondLost, Unlock, Refusing, TimedOut, Responding,
        DoneCounting
  <2>6. AnswersWritten'
    BY <1>16 DEF Inv, TypeOK, AnswersWritten, RespondLost, Unlock, Refusing,
        TimedOut, Responding, DoneCounting
  <2>7. AnsweredOnce'
    BY <1>16 DEF Inv, TypeOK, AnsweredOnce, ReadInOrder, Untouched,
        HandedOver, RespondLost, Unlock, Refusing, TimedOut, Responding,
        DoneCounting
  <2>8. WaitGroupCounts'
    <3>1. CASE TimedOut(r) /\ wg' = wg - 1 /\ outer' = [outer EXCEPT ![r] = "done"] /\ UNCHANGED <<loop, inner>>
      <4>1. r \in Running
        BY <3>1 DEF Running, TimedOut
      <4>2. QED
        BY <3>1, <4>1, OneEnds DEF Inv
    <3>2. CASE UNCHANGED <<outer, wg>> /\ loop' \in {"header", loop}
      BY <3>2, NoneStartsOrEnds DEF Inv
    <3>3. QED
      BY <1>16, <3>1, <3>2 DEF RespondLost, Unlock, DoneCounting
  <2>9. QED
    BY <2>1, <2>2, <2>3, <2>4, <2>5, <2>6, <2>7, <2>8 DEF Inv
<1>17. CASE UNCHANGED vars
  BY <1>17 DEF Inv, vars, TypeOK, ReadInOrder, Untouched, HandedOver,
      SenderHolds, Refusing, TimedOut, Responding, ErrorSet, OkMeansReturned,
      WaitGroupCounts, Running, AnswersWritten, AnsweredOnce
<1>18. QED
  BY <1>1, <1>2, <1>3, <1>4, <1>5, <1>6, <1>7, <1>8, <1>9, <1>10, <1>11,
      <1>12, <1>13, <1>14, <1>15, <1>16, <1>17 DEF Next, Loop, Handler,
      Sender, Ended

(* Inv holds in every reachable state.                                      *)
THEOREM Invariance == Spec => []Inv
<1>1. Init => Inv
  BY InvInit
<1>2. Inv /\ [Next]_vars => Inv'
  BY InvStep
<1>3. QED
  BY <1>1, <1>2, PTL DEF Spec

(* Every variable keeps its type; the WaitGroup's counter never becomes     *)
(* negative, which would panic.                                             *)
THEOREM TypeCorrect == Spec => []TypeOK
<1>1. Inv => TypeOK
  BY DEF Inv
<1>2. QED
  BY <1>1, Invariance, PTL

(* Loop, timer and method between them write at most one response.          *)
THEOREM OneResponse == Spec => []AnsweredOnce
<1>1. Inv => AnsweredOnce
  BY DEF Inv
<1>2. QED
  BY <1>1, Invariance, PTL

(* A response without an error belongs to a method that succeeded in time.  *)
THEOREM OkIsOk == Spec => []OkMeansReturned
<1>1. Inv => OkMeansReturned
  BY DEF Inv, ErrorSet
<1>2. QED
  BY <1>1, Invariance, PTL

(* The server closes the connection only after its last handler has ended   *)
(* with its response written.                                               *)
THEOREM ClosesLast == Spec => []NoneLeftAtClose
<1>1. Inv => NoneLeftAtClose
  BY DEF Inv, WaitGroupCounts, Running, HandedOver, NoneLeftAtClose
<1>2. QED
  BY <1>1, Invariance, PTL

-----------------------------------------------------------------------------
(* The loop keeps in step with the stream: a header that is decoded leaves  *)
(* its body next, and after a refusal whose body stays no header is decoded.*)
LEMMA PairedInvariance == Spec => []Paired
<1>1. Init => Paired
  BY DEF Init, Paired, OwnArguments
<1>2. Inv /\ Paired /\ [Next]_vars => Paired'
  <2> SUFFICES ASSUME Inv, Paired, [Next]_vars PROVE Paired'
    OBVIOUS
  <2> USE DEF Inv, TypeOK
  <2>1. ASSUME UNCHANGED <<stream, cur>>, conn' = "open" => conn = "open",
               loop' = "body" => loop = "body"
        PROVE  Paired'
    BY <2>1 DEF Paired, OwnArguments
  <2>2. ASSUME stream # << >>, stream' = Tail(stream), conn' = conn,
               loop' = "body" => Head(stream).part = "header" /\ cur' = Head(stream).req
        PROVE  Paired'
    <3>1. /\ Head(stream) = stream[1] /\ 1 \in DOMAIN stream
          /\ stream' \in Seq(Item)
          /\ DOMAIN stream' = 1 .. (Len(stream) - 1) /\ DOMAIN stream = 1 .. Len(stream)
          /\ Len(stream) \in Nat
          /\ \A i \in DOMAIN stream' : stream'[i] = stream[i + 1]
      BY <2>2, TailOfStream
    <3>2. \A i \in DOMAIN stream' : /\ i + 1 \in DOMAIN stream
                                    /\ (i + 1) + 1 \in DOMAIN stream <=> i + 1 \in DOMAIN stream'
      BY <3>1
    <3>3. \A i \in DOMAIN stream' : i + 1 \in DOMAIN stream' => stream'[i + 1] = stream[(i + 1) + 1]
      BY <3>1
    <3>4. 1 + 1 \in DOMAIN stream <=> stream' # << >>
      BY <3>1
    <3>5. stream' # << >> => Head(stream') = stream[1 + 1]
      BY <3>1, <3>4
    <3>6. ASSUME NEW i \in DOMAIN stream', stream'[i].part = "header"
          PROVE  /\ i + 1 \in DOMAIN stream' => stream'[i + 1] = BodyOf(stream'[i].req)
                 /\ conn' = "open" => i + 1 \in DOMAIN stream'
      BY <2>2, <3>1, <3>2, <3>3, <3>6 DEF Paired
    <3>7. loop' = "body" => /\ conn' = "open" => stream' # << >>
                            /\ stream' # << >> => Head(stream') = BodyOf(cur')
      <4>1. SUFFICES ASSUME loop' = "body" PROVE /\ conn' = "open" => stream' # << >>
                                                 /\ stream' # << >> => Head(stream') = BodyOf(cur')
        OBVIOUS
      <4>2. stream[1].part = "header" /\ cur' = stream[1].req
        BY <2>2, <3>1, <4>1
      <4>3. /\ 1 + 1 \in DOMAIN stream => stream[1 + 1] = BodyOf(cur')
            /\ conn = "open" => 1 + 1 \in DOMAIN stream
        BY <3>1, <4>2 DEF Paired
      <4>4. QED
        BY <2>2, <3>4, <3>5, <4>3
    <3>8. OwnArguments'
      BY <3>7 DEF OwnArguments, BodyOf
    <3>9. \A i \in DOMAIN stream' : stream'[i].part = "header" =>
            /\ i + 1 \in DOMAIN stream' => stream'[i + 1] = BodyOf(stream'[i].req)
            /\ conn' = "open" => i + 1 \in DOMAIN stream'
      BY <3>6
    <3>10. QED
      BY <3>7, <3>8, <3>9 DEF Paired, BodyOf
  <2>3. ASSUME NEW r \in Requests, ClientSends(r) PROVE Paired'
    <3> DEFINE n == Len(stream)
    <3>1. /\ DOMAIN stream' = 1 .. (n + 2) /\ DOMAIN stream = 1 .. n /\ n \in Nat
          /\ \A i \in DOMAIN stream : stream'[i] = stream[i]
          /\ stream'[n + 1] = HeaderOf(r) /\ stream'[n + 2] = BodyOf(r)
      BY <2>3 DEF ClientSends
    <3>2. stream' # << >> /\ (stream # << >> => Head(stream') = Head(stream))
      BY <2>3, <3>1 DEF ClientSends
    <3>3. conn = "open" /\ UNCHANGED <<loop, cur, conn>>
      BY <2>3 DEF ClientSends
    <3> HIDE DEF n
    <3>4. ASSUME NEW i \in DOMAIN stream', stream'[i].part = "header"
          PROVE  i + 1 \in DOMAIN stream' /\ stream'[i + 1] = BodyOf(stream'[i].req)
      <4>1. CASE i \in DOMAIN stream
        <5>1. i + 1 \in DOMAIN stream
          BY <3>1, <3>3, <3>4, <4>1 DEF Paired
        <5>2. QED
          BY <3>1, <3>4, <4>1, <5>1 DEF Paired
      <4>2. CASE i = n + 1
        <5>1. i + 1 = n + 2
          BY <3>1, <4>2
        <5>2. QED
          BY <3>1, <4>2, <5>1 DEF HeaderOf
      <4>3. i # n + 2
        BY <3>1, <3>4 DEF BodyOf
      <4>4. QED
        BY <3>1, <4>1, <4>2, <4>3
    <3>5. QED
      BY <3>2, <3>3, <3>4 DEF Paired, OwnArguments, BodyOf
  <2>4. CASE ClientLeaves
    <3>1. PICK n \in 0 .. Len(stream) : stream' = SubSeq(stream, 1, n)
      BY <2>4 DEF ClientLeaves
    <3>2. /\ conn' = "eof" /\ UNCHANGED <<loop, cur>>
          /\ DOMAIN stream' \subseteq DOMAIN stream
          /\ \A i \in DOMAIN stream' : stream'[i] = stream[i]
      BY <2>4, <3>1, PrefixOfStream DEF ClientLeaves
    <3>3. stream' # << >> => stream # << >> /\ Head(stream') = Head(stream)
      BY <3>1
    <3>4. QED
      BY <3>2, <3>3 DEF Paired, OwnArguments, BodyOf
  <2>5. CASE Loop
    <3>1. CASE ReadHeader \/ ReadUnknown
      BY <3>1, <2>2 DEF ReadHeader, ReadUnknown, Readable
    <3>2. CASE Handle \/ ReadBodyFails
      BY <3>2, <2>1, <2>2 DEF Handle, ReadBodyFails, Readable
    <3>3. CASE ReadHeaderFails \/ CloseConn
      BY <3>3, <2>1 DEF ReadHeaderFails, CloseConn
    <3>4. QED
      BY <2>5, <3>1, <3>2, <3>3 DEF Loop
  <2>6. ASSUME NEW r \in Requests, MethodReturns(r) \/ Handler(r) \/ Sender(r) PROVE Paired'
    <3>1. UNCHANGED <<stream, cur>> /\ (conn' = "open" => conn = "open") /\ (loop' = "body" => loop = "body")
      BY <2>6 DEF MethodReturns, Handler, Called, TimeOut, Sent, Sender, LockSending, Respond,
         RespondLost, Unlock, loopVars
    <3>2. QED
      BY <3>1, <2>1
  <2>7. CASE ClientReads \/ Ended \/ UNCHANGED vars
    BY <2>7, <2>1 DEF ClientReads, Ended, vars, loopVars
  <2>8. QED
    BY <2>3, <2>4, <2>5, <2>6, <2>7 DEF Next
<1>3. QED
  BY <1>1, <1>2, Invariance, PTL DEF Spec

(* A method is called with the arguments of its own request.                *)
THEOREM ArgumentsNotMixed == Spec => []OwnArguments
<1>1. Paired => OwnArguments
  BY DEF Paired
<1>2. QED
  BY <1>1, PairedInvariance, PTL

(* The server never waits for itself: every wait ends with somebody who can *)
(* go on, the client, or a service method without a HandleTimeout.          *)
THEOREM NoEndlessWaits == Spec => []WaitsEnd
<1>1. Inv /\ Paired => WaitsEnd
  <2> SUFFICES ASSUME Inv, Paired PROVE WaitsEnd
    OBVIOUS
  <2> USE DEF Inv, TypeOK
  <2> DEFINE Full == conn = "open" /\ outbox = OutCap
             CanSend(r) == Full \/ SenderGoes(r) \/ (sending # NoRequest /\ SenderGoes(sending))
  <2>1. conn # "open" \/ outbox < OutCap \/ Full
    BY OutCapAssumption
  <2>2. ASSUME NEW r \in Requests, Refusing(r) \/ TimedOut(r) \/ Responding(r) PROVE CanSend(r)
    BY <2>1, <2>2 DEF SenderGoes
  <2>3. stream # << >> => Head(stream).part \in Parts
    BY TailOfStream DEF Item
  <2>4. loop \in {"header", "body"} =>
          \/ Readable(loop) \/ AtEnd
          \/ loop = "header" /\ (Readable("body") \/ (conn = "open" /\ stream = << >>))
    BY <2>3 DEF Readable, AtEnd, Parts, Paired, OwnArguments, BodyOf
  <2>5. loop = "refuse" => CanSend(cur)
    BY <2>2 DEF ReadInOrder, Refusing
  <2>6. loop = "wait" => wg = 0 \/ \E r \in Requests : outer[r] \notin {"none", "done"}
    BY FS_EmptySet DEF WaitGroupCounts, Running
  <2>7. ASSUME NEW r \in Requests, outer[r] \notin {"none", "done"}
        PROVE  \/ HandlerGoes(r)
               \/ (TimedOut(r) \/ Responding(r)) /\ CanSend(r)
               \/ ~Armed /\ inner[r] = "call"
    <3>1. TimedOut(r) \/ Responding(r) => CanSend(r)
      BY <2>2
    <3> HIDE DEF CanSend
    <3>2. QED
      BY <2>7, <3>1 DEF HandedOver, HandlerGoes, TimedOut, Responding
  <2>8. QED
    BY <2>4, <2>5, <2>6, <2>7 DEF WaitsEnd
<1>2. QED
  BY <1>1, Invariance, PairedInvariance, PTL

-----------------------------------------------------------------------------
(* The requests whose headers are in a stream, as the stream changes.       *)

LEMMA HeadersTail ==
  ASSUME NEW s \in Seq(Item), s # << >>
  PROVE  HeadersIn(s) = HeadersIn(Tail(s))
                          \cup (IF Head(s).part = "header" THEN {Head(s).req} ELSE {})
<1> DEFINE t == Tail(s)
           here == IF s[1].part = "header" THEN {s[1].req} ELSE {}
<1>1. \A i \in DOMAIN t : t[i] = s[i + 1] /\ i + 1 \in DOMAIN s
  BY TailOfStream
<1>2. \A i \in DOMAIN s : i = 1 \/ (i - 1 \in DOMAIN t /\ t[i - 1] = s[i])
  BY TailOfStream
<1>3. 1 \in DOMAIN s /\ Head(s) = s[1]
  BY TailOfStream
<1> HIDE DEF t
<1>4. HeadersIn(t) \cup here \subseteq HeadersIn(s)
  BY <1>1, <1>3 DEF HeadersIn
<1>5. HeadersIn(s) \subseteq HeadersIn(t) \cup here
  BY <1>2 DEF HeadersIn
<1>6. QED
  BY <1>3, <1>4, <1>5 DEF t

LEMMA HeadersAppend ==
  ASSUME NEW s \in Seq(Item), NEW r \in Requests
  PROVE  HeadersIn(s \o <<HeaderOf(r), BodyOf(r)>>) = HeadersIn(s) \cup {r}
<1> DEFINE t == s \o <<HeaderOf(r), BodyOf(r)>>
           n == Len(s)
<1>1. /\ DOMAIN t = DOMAIN s \cup {n + 1, n + 2}
      /\ DOMAIN s = 1 .. n /\ n \in Nat
      /\ \A i \in DOMAIN s : t[i] = s[i]
      /\ t[n + 1] = HeaderOf(r) /\ t[n + 2] = BodyOf(r)
  OBVIOUS
<1> HIDE DEF t, n
<1>2. HeadersIn(t) = HeadersIn(s) \cup {r}
  BY <1>1 DEF HeadersIn, HeaderOf, BodyOf
<1>3. QED
  BY <1>2 DEF t

LEMMA HeadersPrefix ==
  ASSUME NEW s \in Seq(Item), NEW n \in 0 .. Len(s)
  PROVE  HeadersIn(SubSeq(s, 1, n)) \subseteq HeadersIn(s)
BY PrefixOfStream DEF HeadersIn

-----------------------------------------------------------------------------
(* What the client sees of the server: requests not read, requests read and *)
(* not answered, answers.                                                   *)
Unread == HeadersIn(stream)
Served == {r \in Taken : writes[r] = 0}
PeerStep == [Peer!Next]_(Peer!vars)

(* Most steps change nothing the client sees.                               *)
LEMMA Invisible ==
  ASSUME Unread' = Unread, Served' = Served, UNCHANGED answers
  PROVE  PeerStep
BY DEF PeerStep, Unread, Served, Peer!vars

(* A step that only forgets requests is a loss.                             *)
LEMMA Losing ==
  ASSUME Unread' \subseteq Unread, Served' \subseteq Served, UNCHANGED answers
  PROVE  PeerStep
BY DEF PeerStep, Unread, Served, Peer!Next, Peer!Lose

(* Reading a header, of a known or an unknown method, is the peer's Read.   *)
LEMMA Reading ==
  ASSUME Inv, Inv', loop = "header", Readable("header"),
         NEW r, r = Head(stream).req, cur' = r, stream' = Tail(stream),
         loop' \in {"body", "refuse"}, UNCHANGED <<outer, writes, answers>>
  PROVE  PeerStep
<1>1. r \in Requests /\ stream \in Seq(Item) /\ stream # << >> /\ Head(stream).part = "header"
  BY TailOfStream DEF Inv, TypeOK, Readable, Item
<1>2. Unread = Unread' \cup {r}
  BY <1>1, HeadersTail DEF Unread
<1>3. r \notin Unread'
  BY <1>1 DEF Inv, ReadInOrder, Unread, HeadersIn
<1>4. writes[r] = 0
  BY <1>1 DEF Inv, ReadInOrder, Untouched
<1>5. Served' = Served \cup {r}
  BY <1>1, <1>4 DEF Served, Taken
<1>6. Peer!Read(r)
  BY <1>2, <1>3, <1>5 DEF Unread, Served, Peer!Read
<1>7. \E q \in Unread : Peer!Read(q)
  BY <1>2, <1>6
<1>8. QED
  BY <1>7 DEF PeerStep, Peer!Next, Unread

(* Whoever writes a response takes its request out of the served ones.      *)
LEMMA Writing ==
  ASSUME Inv, NEW r \in Requests, sending = r, Unlock(r)
  PROVE  r \in Served /\ Served' = Served \ {r} /\ Unread' = Unread
<1>1. r # NoRequest /\ (Refusing(r) \/ TimedOut(r) \/ Responding(r))
  BY RequestAssumption DEF Inv, SenderHolds
<1>2. writes[r] = 0
  <2>1. CASE Refusing(r)
    BY <2>1 DEF Inv, ReadInOrder, Untouched, Refusing
  <2>2. CASE TimedOut(r)
    BY <2>2 DEF Inv, HandedOver, TimedOut
  <2>3. CASE Responding(r)
    BY <2>3 DEF Inv, TypeOK, HandedOver, Responding
  <2>4. QED
    BY <1>1, <2>1, <2>2, <2>3
<1>3. r \in Taken
  BY <1>1 DEF Inv, TypeOK, HandedOver, Taken, Refusing, TimedOut, Responding
<1>4. writes' = [writes EXCEPT ![r] = 1] /\ UNCHANGED <<stream, cur>>
  BY <1>2 DEF Inv, TypeOK, Unlock
<1>5. \A q \in Requests \ {r} : q \in Taken' <=> q \in Taken
  BY <1>4 DEF Inv, TypeOK, Unlock, Taken, Refusing
<1>6. QED
  BY <1>2, <1>3, <1>4, <1>5 DEF Inv, TypeOK, Served, Taken, Unread

(* Every step of the server is a step of the peer, or none.                 *)
LEMMA StepImplements == Inv /\ Inv' /\ [Next]_vars => PeerStep
<1> SUFFICES ASSUME Inv, Inv', [Next]_vars PROVE PeerStep
  OBVIOUS
<1> USE RequestAssumption DEF handlerVars, loopVars
<1>1. ASSUME NEW r \in Requests, ClientSends(r) PROVE PeerStep
  <2>1. Unread' = Unread \cup {r} /\ Served' = Served /\ UNCHANGED answers
    BY <1>1, HeadersAppend DEF Inv, TypeOK, ClientSends, Unread, Served, Taken
  <2>2. r \notin sent /\ writes[r] = 0 /\ outer[r] = "none"
    BY <1>1 DEF Inv, ReadInOrder, Untouched, ClientSends
  <2>3. r \notin Unread
    BY <2>2 DEF Inv, ReadInOrder, Unread, HeadersIn
  <2>4. r \notin Served
    BY <2>2 DEF Inv, ReadInOrder, Served, Taken
  <2>5. r \notin Peer!Answered
    BY <2>2 DEF Inv, AnswersWritten, Peer!Answered
  <2>6. Peer!Send(r)
    BY <2>1, <2>3, <2>4, <2>5 DEF Unread, Served, Peer!Send
  <2>7. \E q \in Unread' : Peer!Send(q)
    BY <2>1, <2>6
  <2>8. QED
    BY <2>7 DEF PeerStep, Peer!Next, Unread
<1>2. CASE ClientReads
  BY <1>2, Invisible DEF ClientReads, Unread, Served, Taken
<1>3. CASE ClientLeaves
  <2>1. PICK n \in 0 .. Len(stream) : stream' = SubSeq(stream, 1, n)
    BY <1>3 DEF ClientLeaves
  <2>2. Unread' \subseteq Unread
    BY <2>1, HeadersPrefix DEF Inv, TypeOK, Unread
  <2>3. QED
    BY <1>3, <2>2, Losing DEF ClientLeaves, Served, Taken
<1>4. CASE ReadHeader
  BY <1>4, Reading DEF ReadHeader
<1>5. CASE ReadUnknown
  BY <1>5, Reading DEF ReadUnknown
<1>6. CASE ReadHeaderFails
  BY <1>6, Invisible DEF ReadHeaderFails, Unread, Served, Taken
<1>7. CASE Handle
  <2>1. Unread' = Unread
    <3>1. /\ stream \in Seq(Item) /\ stream # << >> /\ stream' = Tail(stream)
          /\ Head(stream).part # "header"
      BY <1>7 DEF Inv, TypeOK, Handle, Readable
    <3>2. QED
      BY <3>1, HeadersTail DEF Unread
  <2>2. Taken' = Taken
    BY <1>7 DEF Inv, TypeOK, ReadInOrder, Untouched, Handle, Taken
  <2>3. QED
    BY <1>7, <2>1, <2>2, Invisible DEF Handle, Served
<1>8. CASE ReadBodyFails
  <2>1. Unread' = Unread
    <3>1. CASE Readable("body") /\ stream' = Tail(stream)
      BY <3>1, HeadersTail DEF Inv, TypeOK, Readable, Unread
    <3>2. CASE UNCHANGED stream
      BY <3>2 DEF Unread
    <3>3. QED
      BY <1>8, <3>1, <3>2 DEF ReadBodyFails
  <2>2. Taken' = Taken
    BY <1>8 DEF ReadBodyFails, Taken
  <2>3. QED
    BY <1>8, <2>1, <2>2, Invisible DEF ReadBodyFails, Served
<1>9. CASE CloseConn
  BY <1>9, Invisible DEF CloseConn, Unread, Served, Taken
<1>10. ASSUME NEW r \in Requests, MethodReturns(r) PROVE PeerStep
  BY <1>10, Invisible DEF MethodReturns, Unread, Served, Taken
<1>11. ASSUME NEW r \in Requests, Handler(r) PROVE PeerStep
  <2>1. UNCHANGED <<stream, loop, cur, writes, answers>>
    BY <1>11 DEF Handler, Called, TimeOut, Sent
  <2>2. \A q \in Requests : writes[q] = 0 => (q \in Taken' <=> q \in Taken)
    BY <1>11, <2>1 DEF Inv, TypeOK, HandedOver, Handler, Called, Receiving, TimeOut,
                       Sent, Taken
  <2>3. Served' = Served
    BY <2>1, <2>2 DEF Served, Taken
  <2>4. QED
    BY <2>1, <2>3, Invisible DEF Unread
<1>12. ASSUME NEW r \in Requests, LockSending(r) PROVE PeerStep
  BY <1>12, Invisible DEF LockSending, Unread, Served, Taken
<1>13. ASSUME NEW r \in Requests, Respond(r) PROVE PeerStep
  <2>1. r \in Served /\ Served' = Served \ {r} /\ Unread' = Unread
    BY <1>13, Writing DEF Respond
  <2>2. PICK kind \in Errors : answers' = answers \cup {[req |-> r, kind |-> kind]}
    BY <1>13 DEF Inv, TypeOK, Respond, OwnHeader
  <2>3. Peer!Answer(r, kind)
    BY <2>1, <2>2 DEF Unread, Served, Peer!Answer
  <2>4. \E q \in Served, k \in Errors : Peer!Answer(q, k)
    BY <2>1, <2>3
  <2>5. QED
    BY <2>4 DEF PeerStep, Peer!Next, Served
<1>14. ASSUME NEW r \in Requests, RespondLost(r) PROVE PeerStep
  <2>1. Served' = Served \ {r} /\ Unread' = Unread
    BY <1>14, Writing DEF RespondLost
  <2>2. QED
    BY <1>14, <2>1, Losing DEF RespondLost
<1>15. CASE UNCHANGED vars
  BY <1>15, Invisible DEF vars, Unread, Served, Taken
<1>16. QED
  BY <1>1, <1>2, <1>3, <1>4, <1>5, <1>6, <1>7, <1>8, <1>9, <1>10, <1>11, <1>12, <1>13,
     <1>14, <1>15 DEF Next, Loop, Sender, Ended

(* The server implements the peer RpcClient is verified against: it answers *)
(* only what it has read, and at most once.                                 *)
THEOREM PeerImplemented == Spec => ImplementsPeer
<1>1. Init => Peer!Init
  BY DEF Init, Peer!Init, HeadersIn, Taken
<1>2. Inv /\ Inv' /\ [Next]_vars => [Peer!Next]_(Peer!vars)
  BY StepImplements DEF PeerStep
<1>3. QED
  BY <1>1, <1>2, Invariance, PTL DEF Spec, Peer!Spec, ImplementsPeer
=============================================================================
