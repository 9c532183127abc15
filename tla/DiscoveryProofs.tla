--------------------------- MODULE DiscoveryProofs ---------------------------
(***************************************************************************)
(* Safety of Discovery with its Registry, for any servers, users, periods, *)
(* timeouts, delays and lists: the inductive invariant Inv of Discovery is *)
(* preserved by every action, and the properties the run checks follow.    *)
(***************************************************************************)
EXTENDS Discovery, SequenceTheorems, TLAPS

(* A remainder is an index ...                                              *)
LEMMA Remainder ==
  ASSUME NEW n \in Nat \ {0}, NEW i \in Nat
  PROVE  i % n \in 0..(n - 1) /\ i \div n \in Int /\ i = n * (i \div n) + (i % n)
  BY SMT

(* ... that the equation of division determines ...                         *)
LEMMA RemainderUnique ==
  ASSUME NEW n \in Nat \ {0}, NEW q1 \in Int, NEW q2 \in Int,
         NEW r1 \in 0..(n - 1), NEW r2 \in 0..(n - 1), n * q1 + r1 = n * q2 + r2
  PROVE  r1 = r2
  BY SMTT(30)

(* ... and the index after it follows it, or is the first again.            *)
LEMMA NextRemainder ==
  ASSUME NEW n \in Nat \ {0}, NEW i \in Nat
  PROVE  /\ (i + 1) % n = IF (i % n) + 1 = n THEN 0 ELSE (i % n) + 1
         /\ ((i + 1) % n) % n = (i + 1) % n
<1> DEFINE q == i \div n  p == i % n  r == IF p + 1 = n THEN 0 ELSE p + 1
           Q == IF p + 1 = n THEN q + 1 ELSE q
<1>1. p \in 0..(n - 1) /\ q \in Int /\ i = n * q + p
  BY Remainder
<1>2. i + 1 \in Nat /\ r \in 0..(n - 1) /\ Q \in Int
  BY <1>1
<1>3. i + 1 = n * Q + r
  BY <1>1, SMT
<1>4. /\ (i + 1) % n \in 0..(n - 1) /\ (i + 1) \div n \in Int
      /\ i + 1 = n * ((i + 1) \div n) + ((i + 1) % n)
  BY <1>2, Remainder
<1>5. (i + 1) % n = r
  <2> HIDE DEF r, Q
  <2> QED
    BY <1>2, <1>3, <1>4, RemainderUnique
<1>6. r % n = r
  <2>1. r \in Nat /\ r = n * 0 + r
    BY <1>2
  <2>2. /\ r % n \in 0..(n - 1) /\ r \div n \in Int
        /\ r = n * (r \div n) + (r % n)
    BY <2>1, Remainder
  <2> HIDE DEF r
  <2>3. QED
    BY <1>2, <2>1, <2>2, RemainderUnique
<1>7. QED
  BY <1>5, <1>6

-----------------------------------------------------------------------------
(* The initial states satisfy the inductive invariant.                      *)
LEMMA InvInit == Init => Inv
<1> SUFFICES ASSUME Init PROVE Inv
  OBVIOUS
<1> USE DEF Init, RegistryInit
<1>1. TypeOK
  BY TimeoutAssumption, MaxTimeAssumption, UpdateTimeoutAssumption, FirstIndexAssumption,
     NoneUserAssumption DEF TypeOK, RegistryTypeOK, Time
<1>2. BeatsInTime /\ HeardBefore
  BY TimeoutAssumption DEF BeatsInTime, HeardBefore
<1>3. AnswerInTime /\ ListInTime /\ CheckedInTime
  BY UpdateTimeoutAssumption DEF AnswerInTime, ListInTime, CheckedInTime, ToSet
<1>4. TurnsFollowList
  BY DEF TurnsFollowList, IsInjective
<1>5. QED
  BY <1>1, <1>2, <1>3, <1>4 DEF Inv

(* A beat that arrives, or does not, is right for the registry.             *)
LEMMA RegistryStep ==
  ASSUME Inv, UNCHANGED discVars, NEW a \in Addrs, Heartbeat(a) \/ Beat(a) \/ Crash(a)
  PROVE  Inv'
<1> USE DEF Inv
<1>1. now' = now /\ now \in Int /\ now \in Time
  BY MaxTimeAssumption
  DEF Heartbeat, Beat, Crash, BeatSent, BeatFailed, TypeOK, RegistryTypeOK, Time
<1>2. PutServer(a) \/ UNCHANGED <<start, heard>>
  BY DEF Heartbeat, Beat, Crash, BeatSent, BeatFailed
<1>3. /\ start' \in [Addrs -> Time \cup {None}] /\ heard' \in [Addrs -> Int]
      /\ \A b \in Addrs : heard[b] <= heard'[b] /\ heard'[b] <= now
  <2>1. CASE PutServer(a)
    BY <1>1, <2>1 DEF PutServer, TypeOK, RegistryTypeOK, HeardBefore
  <2>2. CASE UNCHANGED <<start, heard>>
    BY <1>1, <2>2 DEF TypeOK, RegistryTypeOK, HeardBefore
  <2>3. QED
    BY <1>2, <2>1, <2>2
<1>4. \A b \in Addrs : heard[b] \in Int /\ heard'[b] \in Int
  BY <1>3 DEF TypeOK, RegistryTypeOK
<1>5. TypeOK'
  <2>1. NextBeat \in Nat
    BY <1>1, PeriodAssumption, MaxTimeAssumption DEF NextBeat, Time
  <2>2. loop \in [Addrs -> {"off", "running", "over"}] /\ due \in [Addrs -> Nat]
    BY DEF TypeOK, RegistryTypeOK
  <2>3. loop' \in [Addrs -> {"off", "running", "over"}] /\ due' \in [Addrs -> Nat]
    BY <2>1, <2>2 DEF Heartbeat, Beat, Crash, BeatSent, BeatFailed
  <2>4. QED
    BY <1>1, <1>3, <2>3 DEF TypeOK, RegistryTypeOK, discVars, listVars, answerVars, userVars
<1>6. BeatsInTime'
  <2>1. CASE BeatSent(a)
    BY <1>1, <2>1, PeriodAssumption, NoneAssumption
    DEF BeatSent, PutServer, NextBeat, TypeOK, RegistryTypeOK, BeatsInTime
  <2>2. CASE BeatFailed(a)
    BY <1>1, <2>2 DEF BeatFailed, PutServer, TypeOK, RegistryTypeOK, BeatsInTime
  <2>3. CASE Crash(a)
    BY <1>1, <2>3 DEF Crash, TypeOK, RegistryTypeOK, BeatsInTime
  <2>4. QED
    BY <2>1, <2>2, <2>3 DEF Heartbeat, Beat
<1>7. HeardBefore'
  <2>1. CASE PutServer(a)
    BY <1>1, <2>1 DEF PutServer, TypeOK, RegistryTypeOK, HeardBefore
  <2>2. CASE UNCHANGED <<start, heard>>
    BY <1>1, <2>2 DEF HeardBefore
  <2>3. QED
    BY <1>2, <2>1, <2>2
<1>8. AnswerInTime'
  BY <1>1, <1>3, <1>4, TimeoutAssumption
  DEF TypeOK, RegistryTypeOK, Time, AnswerInTime, HeardInTime, discVars, answerVars, userVars
<1>9. ListInTime'
  <2>1. servers' = servers /\ lastUpdate' = lastUpdate /\ lastUpdate \in Int /\ servers \in Seq(Addrs)
    BY DEF discVars, listVars, TypeOK
  <2>2. ToSet(servers) \subseteq Addrs
    BY <2>1 DEF ToSet
  <2>3. QED
    BY <1>1, <1>3, <1>4, <2>1, <2>2, TimeoutAssumption, MaxDelayAssumption DEF ListInTime, HeardInTime
<1>10. CheckedInTime' /\ TurnsFollowList'
  BY <1>1 DEF CheckedInTime, TurnsFollowList, Back, discVars, listVars, userVars
<1>11. QED
  BY <1>5, <1>6, <1>7, <1>8, <1>9, <1>10

(* Time passes up to the next beat and the last moment of an answer.        *)
LEMMA TickStep ==
  ASSUME Inv, Tick, InTime, UNCHANGED discVars
  PROVE  Inv'
<1> USE DEF Inv
<1>1. now' = now + 1 /\ now \in Int /\ now' \in Time
  BY MaxTimeAssumption DEF Tick, TypeOK, RegistryTypeOK, Time
<1>2. TypeOK'
  BY <1>1 DEF Tick, TypeOK, RegistryTypeOK, discVars, listVars, answerVars, userVars
<1>3. BeatsInTime'
  BY <1>1 DEF Tick, TypeOK, RegistryTypeOK, BeatsInTime
<1>4. HeardBefore'
  BY <1>1 DEF Tick, TypeOK, RegistryTypeOK, HeardBefore
<1>5. AnswerInTime'
  BY <1>1, MaxDelayAssumption
  DEF Tick, InTime, TypeOK, Time, AnswerInTime, HeardInTime, discVars, answerVars, userVars
<1>6. ListInTime' /\ CheckedInTime'
  BY <1>1
  DEF Tick, TypeOK, Time, ListInTime, CheckedInTime, HeardInTime, discVars, listVars, userVars
<1>7. TurnsFollowList'
  BY DEF TurnsFollowList, Back, discVars, listVars
<1>8. QED
  BY <1>2, <1>3, <1>4, <1>5, <1>6, <1>7

-----------------------------------------------------------------------------
(* What a user does that leaves the list alone is right for the list.       *)
LEMMA ListStays ==
  ASSUME Inv, UNCHANGED <<now, heard, listVars>>
  PROVE  ListInTime' /\ TurnsFollowList'
  BY DEF Inv, ListInTime, HeardInTime, TurnsFollowList, Back, listVars

(* A new list starts the turns afresh, the same list lets them go on.       *)
LEMMA NewList ==
  ASSUME Inv, NEW S \in SUBSET Addrs, ListBecomes(Sorted[S])
  PROVE  /\ TurnsFollowList'
         /\ servers' \in Seq(Addrs) /\ turns' \in Seq(Addrs) /\ index' \in Nat
         /\ ToSet(servers') = S
<1> USE DEF Inv, ListBecomes
<1>1. servers' = Sorted[S] /\ servers' \in Seq(Addrs) /\ ToSet(servers') = S /\ IsInjective(servers')
  BY SortedAssumption
<1>2. turns' \in Seq(Addrs) /\ index' \in Nat
  BY DEF TypeOK
<1>3. TurnsFollowList'
  <2>1. CASE Sorted[S] = servers
    BY <2>1 DEF TurnsFollowList, Back
  <2>2. CASE Sorted[S] # servers
    BY <1>1, <2>2 DEF TurnsFollowList
  <2>3. QED
    BY <2>1, <2>2
<1>4. QED
  BY <1>1, <1>2, <1>3

(* Calls, and what Refresh does before it has an answer.                    *)
LEMMA CallStep ==
  ASSUME Inv, NEW u \in Users, NEW m \in Modes, Call(u, m)
  PROVE  Inv'
<1> USE DEF Inv, Call, Goto
<1>1. TypeOK'
  BY DEF TypeOK, RegistryTypeOK, regVars, listVars, answerVars
<1>2. BeatsInTime' /\ HeardBefore'
  BY DEF BeatsInTime, HeardBefore, regVars
<1>3. AnswerInTime' /\ CheckedInTime'
  BY DEF AnswerInTime, CheckedInTime, HeardInTime, TypeOK, regVars, listVars, answerVars
<1>4. QED
  BY <1>1, <1>2, <1>3, ListStays DEF regVars

LEMMA SkipStep ==
  ASSUME Inv, NEW u \in Users, RefreshSkipped(u)
  PROVE  Inv'
<1> USE DEF Inv, RefreshSkipped, Refreshed, Goto
<1>1. TypeOK'
  BY DEF TypeOK, RegistryTypeOK, regVars, listVars, answerVars
<1>2. BeatsInTime' /\ HeardBefore'
  BY DEF BeatsInTime, HeardBefore, regVars
<1>3. AnswerInTime'
  BY DEF AnswerInTime, HeardInTime, TypeOK, regVars, answerVars
<1>4. CheckedInTime'
  BY UpdateTimeoutAssumption, MaxTimeAssumption
  DEF CheckedInTime, Fresh, TypeOK, RegistryTypeOK, Time, regVars, listVars
<1>5. QED
  BY <1>1, <1>2, <1>3, <1>4, ListStays DEF regVars

LEMMA AskStep ==
  ASSUME Inv, NEW u \in Users, RefreshAsks(u)
  PROVE  Inv'
<1> USE DEF Inv, RefreshAsks, Goto
<1>1. TypeOK'
  BY NoneUserAssumption DEF TypeOK, RegistryTypeOK, regVars, listVars, answerVars
<1>2. BeatsInTime' /\ HeardBefore'
  BY DEF BeatsInTime, HeardBefore, regVars
<1>3. AnswerInTime' /\ CheckedInTime'
  BY DEF AnswerInTime, CheckedInTime, HeardInTime, TypeOK, regVars, listVars, answerVars
<1>4. QED
  BY <1>1, <1>2, <1>3, ListStays DEF regVars

(* Who is in the answer is alive, and who is deleted does not beat.         *)
LEMMA AnswerStep ==
  ASSUME Inv, NEW u \in Users, RegistryAnswers(u)
  PROVE  Inv'
<1> USE DEF Inv, RegistryAnswers, Expire, Goto
<1>1. now \in Time /\ now \in Int
  BY MaxTimeAssumption DEF TypeOK, RegistryTypeOK, Time
<1>2. TypeOK'
  BY <1>1, NoneAssumption, NoneUserAssumption
  DEF TypeOK, RegistryTypeOK, AliveServers, listVars
<1>3. BeatsInTime'
  BY <1>1, PeriodAssumption, TimeoutAssumption, MaxTimeAssumption
  DEF BeatsInTime, Alive, TypeOK, RegistryTypeOK, Time
<1>4. HeardBefore'
  BY DEF HeardBefore
<1>5. AnswerInTime'
  <2>1. \A a \in AliveServers : HeardInTime(a, now)
    BY <1>1, TimeoutAssumption, MaxTimeAssumption
    DEF AliveServers, Alive, HeardInTime, HeardBefore, TypeOK, RegistryTypeOK, Time
  <2>2. \A v \in Users : pc'[v] = "answered" => v = u
    BY DEF TypeOK
  <2>3. QED
    BY <1>1, <2>1, <2>2, MaxDelayAssumption DEF AnswerInTime, HeardInTime
<1>6. CheckedInTime'
  BY DEF CheckedInTime, TypeOK, listVars
<1>7. QED
  BY <1>2, <1>3, <1>4, <1>5, <1>6, ListStays

(* The answer becomes the list.                                             *)
LEMMA DoneStep ==
  ASSUME Inv, NEW u \in Users, RefreshDone(u)
  PROVE  Inv'
<1> USE DEF Inv, RefreshDone, Refreshed, AnswerIsOver, Goto
<1>1. now \in Time /\ now \in Int /\ answeredAt \in Int
  BY MaxTimeAssumption DEF TypeOK, RegistryTypeOK, Time
<1>2. /\ TurnsFollowList'
      /\ servers' \in Seq(Addrs) /\ turns' \in Seq(Addrs) /\ index' \in Nat
      /\ ToSet(servers') = answer /\ answer \in SUBSET Addrs
  BY NewList DEF TypeOK
<1>3. \A v \in Users : pc'[v] \notin {"asking", "answered"}
  BY DEF TypeOK
<1>4. TypeOK'
  BY <1>1, <1>2, <1>3, NoneUserAssumption, MaxTimeAssumption
  DEF TypeOK, RegistryTypeOK, ListBecomes, regVars, Time
<1>5. BeatsInTime' /\ HeardBefore'
  BY DEF BeatsInTime, HeardBefore, regVars
<1>6. AnswerInTime'
  BY <1>3 DEF AnswerInTime
<1>7. ListInTime'
  BY <1>1, <1>2, TimeoutAssumption, MaxDelayAssumption
  DEF ListInTime, AnswerInTime, HeardInTime, ListBecomes, TypeOK, RegistryTypeOK, regVars
<1>8. CheckedInTime'
  BY <1>1, UpdateTimeoutAssumption, MaxTimeAssumption
  DEF CheckedInTime, ListBecomes, TypeOK, Time, regVars
<1>9. QED
  BY <1>2, <1>4, <1>5, <1>6, <1>7, <1>8

LEMMA FailStep ==
  ASSUME Inv, NEW u \in Users, RefreshFails(u)
  PROVE  Inv'
<1> USE DEF Inv, RefreshFails, Return, AnswerIsOver, Goto
<1>1. \A v \in Users : pc'[v] \notin {"asking", "answered"}
  BY DEF TypeOK
<1>2. TypeOK'
  BY <1>1, MaxTimeAssumption, NoneUserAssumption DEF TypeOK, RegistryTypeOK, regVars, listVars, Time
<1>3. BeatsInTime' /\ HeardBefore'
  BY DEF BeatsInTime, HeardBefore, regVars
<1>4. AnswerInTime' /\ CheckedInTime'
  BY <1>1 DEF AnswerInTime, CheckedInTime, TypeOK, regVars, listVars
<1>5. QED
  BY <1>2, <1>3, <1>4, ListStays DEF regVars

-----------------------------------------------------------------------------
(* A choice that leaves the list and its index alone.                       *)
LEMMA ChoiceStep ==
  ASSUME Inv, NEW u \in Users, Ready(u), Return(u), UNCHANGED <<regVars, listVars, mu, answerVars>>
  PROVE  Inv'
<1> USE DEF Inv, Ready, Return, Goto
<1>1. TypeOK'
  <2>1. /\ pc' \in [Users -> {"idle", "refresh", "asking", "answered", "choose"}]
        /\ mode' \in [Users -> Modes \cup {None}]
        /\ pc'[u] = "idle" /\ \A v \in Users \ {u} : pc'[v] = pc[v]
    <3>1. pc \in [Users -> {"idle", "refresh", "asking", "answered", "choose"}]
      BY DEF TypeOK
    <3>2. mode \in [Users -> Modes \cup {None}]
      BY DEF TypeOK
    <3>3. QED
      BY <3>1, <3>2
  <2>2. 0 \in Time
    BY MaxTimeAssumption DEF Time
  <2>3. checked' \in [Users -> Time]
    BY <2>2 DEF TypeOK
  <2>4. QED
    BY <2>1, <2>3 DEF TypeOK, RegistryTypeOK, regVars, listVars, answerVars
<1>2. BeatsInTime' /\ HeardBefore'
  BY DEF BeatsInTime, HeardBefore, regVars
<1>3. AnswerInTime' /\ CheckedInTime'
  BY DEF AnswerInTime, CheckedInTime, HeardInTime, TypeOK, regVars, listVars, answerVars
<1>4. QED
  BY <1>1, <1>2, <1>3, ListStays DEF regVars

(* Latest drops the oldest of too many.                                     *)
LEMMA LatestIs ==
  ASSUME NEW seq \in Seq(Addrs), NEW n \in Nat \ {0}, Len(seq) <= n + 1
  PROVE  /\ Latest(seq, n) \in Seq(Addrs)
         /\ Len(Latest(seq, n)) = IF Len(seq) > n THEN n ELSE Len(seq)
         /\ \A i \in DOMAIN Latest(seq, n) :
              Latest(seq, n)[i] = seq[IF Len(seq) > n THEN i + 1 ELSE i]
<1> DEFINE first == IF Len(seq) > n THEN Len(seq) - n + 1 ELSE 1
<1>1. Len(seq) \in Nat /\ first \in 1..(Len(seq) + 1)
  OBVIOUS
<1>2. Len(seq) > n => first = 2 /\ Len(seq) = n + 1
  BY <1>1
<1>3. Latest(seq, n) = SubSeq(seq, first, Len(seq))
  BY DEF Latest
<1>4. Latest(seq, n) \in Seq(Addrs) /\ Len(Latest(seq, n)) = Len(seq) - first + 1
  <2> HIDE DEF first
  <2>1. QED
    BY <1>1, <1>3, SubSeqProperties
<1>5. \A i \in 1..(Len(seq) - first + 1) : Latest(seq, n)[i] = seq[first + i - 1]
  <2> HIDE DEF first
  <2>1. QED
    BY <1>1, <1>3, SubSeqProperties
<1>6. CASE Len(seq) > n
  BY <1>2, <1>4, <1>5, <1>6
<1>7. CASE ~(Len(seq) > n)
  BY <1>1, <1>4, <1>5, <1>7
<1>8. QED
  BY <1>6, <1>7

(* The pick is the one at the new index less one, and the earlier ones move *)
(* back by one.                                                             *)
LEMMA TurnStep ==
  ASSUME Inv, NEW u \in Users, NEW s \in Addrs, RoundRobinSelect(u, s)
  PROVE  TurnsFollowList' /\ turns' \in Seq(Addrs) /\ index' \in Nat
<1> USE DEF Inv
<1> DEFINE n == Len(servers)  all == Append(turns, s)
<1>1. /\ n \in Nat \ {0} /\ index \in Nat /\ turns \in Seq(Addrs) /\ servers \in Seq(Addrs)
      /\ Len(turns) \in Nat /\ Len(turns) <= n
  BY DEF RoundRobinSelect, TypeOK, TurnsFollowList
<1>2. /\ s = servers[(index % n) + 1] /\ index' = (index + 1) % n
      /\ turns' = Latest(all, n) /\ servers' = servers
  BY DEF RoundRobinSelect, NextIndex
<1>3. /\ index % n \in 0..(n - 1) /\ (index + 1) % n \in 0..(n - 1)
      /\ index' % n = IF (index % n) + 1 = n THEN 0 ELSE (index % n) + 1
  <2> HIDE DEF n
  <2>1. index + 1 \in Nat
    BY <1>1
  <2>2. index % n \in 0..(n - 1) /\ (index + 1) % n \in 0..(n - 1)
    BY <1>1, <2>1, Remainder
  <2>3. /\ (index + 1) % n = IF (index % n) + 1 = n THEN 0 ELSE (index % n) + 1
        /\ ((index + 1) % n) % n = (index + 1) % n
    BY <1>1, NextRemainder
  <2>4. QED
    BY <1>2, <2>2, <2>3
<1>4. /\ all \in Seq(Addrs) /\ Len(all) = Len(turns) + 1 /\ all[Len(all)] = s
      /\ \A i \in DOMAIN turns : all[i] = turns[i]
      /\ DOMAIN turns = 1..Len(turns)
  BY <1>1
<1>5. /\ turns' \in Seq(Addrs)
      /\ Len(turns') = IF Len(all) > n THEN n ELSE Len(all)
      /\ \A i \in DOMAIN turns' : turns'[i] = all[IF Len(all) > n THEN i + 1 ELSE i]
      /\ DOMAIN turns' = 1..Len(turns')
  <2> HIDE DEF n, all
  <2>1. Len(all) <= n + 1
    BY <1>1, <1>4
  <2>2. QED
    BY <1>1, <1>2, <1>4, <2>1, LatestIs
<1>6. ASSUME NEW i \in DOMAIN turns' PROVE turns'[i] = servers[Back(i)']
  <2> DEFINE j == IF Len(all) > n THEN i + 1 ELSE i
             p == index % n
             back == p - (Len(turns) + 1 - j)
             q == index' % n
             back1 == q - (Len(turns') + 1 - i)
  <2>1. j \in 1..Len(all) /\ i \in Nat /\ turns'[i] = all[j]
    BY <1>1, <1>4, <1>5
  <2>2. Len(turns) = n => j >= 2
    BY <1>1, <1>4, <1>5
  <2>3. Len(turns') - i = Len(turns) + 1 - j /\ Len(turns') \in Nat
    BY <1>1, <1>4, <1>5, <2>1
  <2>4. p \in 0..(n - 1) /\ q \in 0..(n - 1) /\ q = IF p + 1 = n THEN 0 ELSE p + 1
    BY <1>1, <1>3
  <2>5. /\ Back(i)' = 1 + IF back1 < 0 THEN back1 + n ELSE back1
        /\ Back(j) = 1 + IF back < 0 THEN back + n ELSE back
    BY <1>2 DEF Back
  <2> HIDE DEF j, p, q, n
  <2>6. CASE j = Len(all)
    <3>1. Back(i)' = p + 1
      BY <1>1, <1>4, <2>1, <2>3, <2>4, <2>5, <2>6
    <3>2. QED
      BY <1>2, <1>4, <2>1, <2>6, <3>1 DEF p
  <2>7. CASE j # Len(all)
    <3>1. j \in DOMAIN turns
      BY <1>1, <1>4, <2>1, <2>7
    <3>2. turns'[i] = servers[Back(j)]
      BY <1>4, <2>1, <3>1 DEF TurnsFollowList
    <3>3. Back(i)' = Back(j)
      <4> DEFINE L == Len(turns)
      <4>1. j \in 1..L /\ L \in Nat /\ L <= n /\ n \in Nat
        BY <1>1, <1>4, <3>1 DEF n
      <4>2. back1 = q - 1 - (L + 1 - j)
        BY <2>1, <2>3, <2>4
      <4> HIDE DEF L
      <4>3. QED
        BY <2>4, <2>5, <2>2, <4>1, <4>2 DEF L
    <3>4. QED
      BY <3>2, <3>3
  <2>8. QED
    BY <2>6, <2>7
<1>7. IsInjective(servers') /\ Len(turns') <= Len(servers')
  BY <1>1, <1>2, <1>4, <1>5 DEF TurnsFollowList
<1>8. QED
  BY <1>1, <1>2, <1>3, <1>5, <1>6, <1>7 DEF TurnsFollowList

LEMMA RoundRobinStep ==
  ASSUME Inv, NEW u \in Users, NEW s \in Addrs, RoundRobinSelect(u, s)
  PROVE  Inv'
<1> USE DEF Inv, RoundRobinSelect, Ready, Return, Goto
<1>1. TypeOK'
  <2>1. /\ pc' \in [Users -> {"idle", "refresh", "asking", "answered", "choose"}]
        /\ mode' \in [Users -> Modes \cup {None}]
        /\ pc'[u] = "idle" /\ \A v \in Users \ {u} : pc'[v] = pc[v]
    <3>1. pc \in [Users -> {"idle", "refresh", "asking", "answered", "choose"}]
      BY DEF TypeOK
    <3>2. mode \in [Users -> Modes \cup {None}]
      BY DEF TypeOK
    <3>3. QED
      BY <3>1, <3>2
  <2>2. 0 \in Time
    BY MaxTimeAssumption DEF Time
  <2>3. checked' \in [Users -> Time]
    BY <2>2 DEF TypeOK
  <2>4. turns' \in Seq(Addrs) /\ index' \in Nat
    BY TurnStep
  <2>5. QED
    BY <2>1, <2>3, <2>4 DEF TypeOK, RegistryTypeOK, regVars, answerVars
<1>2. BeatsInTime' /\ HeardBefore'
  BY DEF BeatsInTime, HeardBefore, regVars
<1>3. AnswerInTime' /\ CheckedInTime'
  BY DEF AnswerInTime, CheckedInTime, HeardInTime, TypeOK, regVars, answerVars
<1>4. ListInTime'
  BY DEF ListInTime, HeardInTime, regVars
<1>5. QED
  BY <1>1, <1>2, <1>3, <1>4, TurnStep

(* Update says that who it lists is there.                                  *)
LEMMA UpdateStep ==
  ASSUME Inv, NEW S \in SUBSET Addrs, Update(S)
  PROVE  Inv'
<1> USE DEF Inv, Update
<1>1. now \in Int /\ answeredAt \in Int
  BY MaxTimeAssumption DEF TypeOK, RegistryTypeOK, Time
<1>2. /\ TurnsFollowList'
      /\ servers' \in Seq(Addrs) /\ turns' \in Seq(Addrs) /\ index' \in Nat
      /\ ToSet(servers') = S
  BY NewList
<1>3. \A a \in Addrs : heard[a] \in Int /\ heard'[a] \in Int /\ heard[a] <= heard'[a] /\ heard'[a] <= now
  BY <1>1 DEF HeardBefore, TypeOK, RegistryTypeOK
<1>4. TypeOK'
  BY <1>1, <1>2, <1>3 DEF TypeOK, RegistryTypeOK, ListBecomes, answerVars, userVars
<1>5. BeatsInTime'
  BY DEF BeatsInTime
<1>6. HeardBefore'
  BY <1>1, <1>3, MaxTimeAssumption DEF HeardBefore, TypeOK, RegistryTypeOK, Time
<1>7. AnswerInTime'
  BY <1>1, <1>3, TimeoutAssumption DEF AnswerInTime, HeardInTime, TypeOK, answerVars, userVars
<1>8. ListInTime'
  BY <1>1, <1>2, <1>3, TimeoutAssumption, MaxDelayAssumption
  DEF ListInTime, HeardInTime, ListBecomes
<1>9. CheckedInTime'
  BY <1>1, UpdateTimeoutAssumption, MaxTimeAssumption
  DEF CheckedInTime, ListBecomes, TypeOK, Time, userVars
<1>10. QED
  BY <1>2, <1>4, <1>5, <1>6, <1>7, <1>8, <1>9

-----------------------------------------------------------------------------
(* Every step preserves the inductive invariant.                            *)
LEMMA InvNext == Inv /\ [Next]_vars => Inv'
<1> SUFFICES ASSUME Inv, [Next]_vars PROVE Inv'
  OBVIOUS
<1>1. CASE (\E a \in Addrs : Heartbeat(a) \/ Beat(a) \/ Crash(a)) /\ UNCHANGED discVars
  BY <1>1, RegistryStep
<1>2. CASE Tick /\ InTime /\ UNCHANGED discVars
  BY <1>2, TickStep
<1>3. ASSUME NEW u \in Users, \E m \in Modes : Call(u, m) PROVE Inv'
  BY <1>3, CallStep
<1>4. ASSUME NEW u \in Users, Refresh(u) PROVE Inv'
  BY <1>4, SkipStep, AskStep, AnswerStep, DoneStep, FailStep DEF Refresh
<1>5. ASSUME NEW u \in Users, NoServers(u) PROVE Inv'
  BY <1>5, ChoiceStep DEF NoServers
<1>6. ASSUME NEW u \in Users, NEW s \in Addrs, RandomSelect(u, s) PROVE Inv'
  BY <1>6, ChoiceStep DEF RandomSelect
<1>7. ASSUME NEW u \in Users, NEW s \in Addrs, RoundRobinSelect(u, s) PROVE Inv'
  BY <1>7, RoundRobinStep
<1>8. ASSUME NEW u \in Users, NEW S \in SUBSET Addrs, GetAll(u, S) PROVE Inv'
  BY <1>8, ChoiceStep DEF GetAll
<1>9. ASSUME NEW S \in ByHand, Update(S) PROVE Inv'
  BY <1>9, ByHandAssumption, UpdateStep
<1>10. CASE UNCHANGED vars
  BY <1>10
  DEF vars, regVars, discVars, listVars, answerVars, userVars, Inv, TypeOK, RegistryTypeOK,
      BeatsInTime, HeardBefore, AnswerInTime, ListInTime, CheckedInTime, HeardInTime,
      TurnsFollowList, Back
<1>11. QED
  BY <1>1, <1>2, <1>3, <1>4, <1>5, <1>6, <1>7, <1>8, <1>9, <1>10 DEF Next

(* For any servers, users, times and lists, the invariant holds: servers,   *)
(* registry, answer under way and list are each as old as their timeouts    *)
(* allow.                                                                   *)
THEOREM Invariance == Spec => []Inv
<1>1. QED
  BY InvInit, InvNext, PTL DEF Spec

(* The variables of registry and discovery keep their types, and the mutex  *)
(* of the discovery is held exactly while the registry is asked.            *)
THEOREM TypeCorrect == Spec => []TypeOK
<1>1. Inv => TypeOK
  BY DEF Inv
<1>2. QED
  BY <1>1, Invariance, PTL

(* A server whose heartbeats succeed is never expired by the registry.      *)
THEOREM BeatingStaysListed == Spec => []HeartbeatKeepsListed
<1>1. Inv => HeartbeatKeepsListed
  BY PeriodAssumption, TimeoutAssumption, MaxTimeAssumption
  DEF Inv, BeatsInTime, HeartbeatKeepsListed, Alive, TypeOK, RegistryTypeOK, Time
<1>2. QED
  BY <1>1, Invariance, PTL

(* What a choice gives is in the list.                                      *)
LEMMA GivenIsListed ==
  ASSUME Inv, NEW u \in Users, NEW s \in Addrs, Gives(u, s)
  PROVE  pc[u] = "choose" /\ s \in ToSet(servers)
<1>1. pc[u] = "choose"
  BY DEF Gives, RandomSelect, RoundRobinSelect, GetAll, Ready
<1>2. CASE RoundRobinSelect(u, s)
  <2>1. Len(servers) \in Nat \ {0} /\ index \in Nat /\ DOMAIN servers = 1..Len(servers)
    BY <1>2 DEF RoundRobinSelect, Inv, TypeOK
  <2>2. (index % Len(servers)) + 1 \in DOMAIN servers
    BY <2>1, Remainder
  <2>3. QED
    BY <1>1, <1>2, <2>2 DEF RoundRobinSelect, ToSet
<1>3. QED
  BY <1>1, <1>2 DEF Gives, RandomSelect, GetAll

(* A server that is gone is not given any more once the timeouts are over.  *)
THEOREM GoneIsForgotten == Spec => DeadForgotten
<1>1. Inv /\ [Next]_vars =>
        [Timeout = 0 \/ \A u \in Users : \A s \in Addrs :
           Gives(u, s) => checked[u] <= heard[s] + (Timeout - 1) + MaxDelay + (UpdateTimeout - 1)]_vars
  <2> SUFFICES ASSUME Inv, Timeout # 0, NEW u \in Users, NEW s \in Addrs, Gives(u, s)
               PROVE  checked[u] <= heard[s] + (Timeout - 1) + MaxDelay + (UpdateTimeout - 1)
    OBVIOUS
  <2>1. pc[u] = "choose" /\ s \in ToSet(servers)
    BY GivenIsListed
  <2>2. /\ lastUpdate - MaxDelay <= heard[s] + (Timeout - 1)
        /\ checked[u] <= lastUpdate + (UpdateTimeout - 1)
    BY <2>1 DEF Inv, ListInTime, CheckedInTime, HeardInTime
  <2>3. lastUpdate \in Int /\ heard[s] \in Int /\ checked[u] \in Int
    BY MaxTimeAssumption DEF Inv, TypeOK, RegistryTypeOK, Time
  <2>4. QED
    BY <2>2, <2>3, TimeoutAssumption, MaxDelayAssumption, UpdateTimeoutAssumption
<1>2. QED
  BY <1>1, Invariance, PTL DEF Spec, DeadForgotten

(* Round robin hands out every server once before it hands out one again.   *)
THEOREM RoundRobinTakesTurns == Spec => []RoundRobinFair
<1>1. Inv => RoundRobinFair
  <2> SUFFICES ASSUME Inv, NEW i \in DOMAIN turns, NEW j \in DOMAIN turns, turns[i] = turns[j]
               PROVE  i = j
    BY DEF RoundRobinFair, IsInjective
  <2> DEFINE n == Len(servers)
  <2>1. /\ index \in Nat /\ Len(turns) \in Nat /\ n \in Nat /\ Len(turns) <= n
        /\ DOMAIN turns = 1..Len(turns) /\ DOMAIN servers = 1..n
    BY DEF Inv, TypeOK, TurnsFollowList
  <2> DEFINE p == index % n
             L == Len(turns)
             back(k) == p - (L + 1 - k)
  <2>2. n \in Nat \ {0}
    BY <2>1
  <2>3. p \in 0..(n - 1)
    <3> HIDE DEF n
    <3>1. QED
      BY <2>1, <2>2, Remainder
  <2>4. /\ Back(i) = 1 + IF back(i) < 0 THEN back(i) + n ELSE back(i)
        /\ Back(j) = 1 + IF back(j) < 0 THEN back(j) + n ELSE back(j)
    BY DEF Back
  <2> HIDE DEF p, n, L
  <2>5. Back(i) \in DOMAIN servers /\ Back(j) \in DOMAIN servers
    <3>1. i \in 1..L /\ j \in 1..L /\ L \in Nat /\ L <= n /\ n \in Nat
      BY <2>1 DEF L, n
    <3>2. DOMAIN servers = 1..n
      BY <2>1 DEF n
    <3>3. Back(i) \in 1..n
      BY <3>1, <2>2, <2>3, <2>4
    <3>4. Back(j) \in 1..n
      BY <3>1, <2>2, <2>3, <2>4
    <3>5. QED
      BY <3>2, <3>3, <3>4
  <2>6. Back(i) = Back(j)
    BY <2>5 DEF Inv, TurnsFollowList, IsInjective
  <2>7. i \in 1..L /\ j \in 1..L /\ L \in Nat /\ L <= n
    BY <2>1 DEF L, n
  <2>8. QED
    BY <2>2, <2>3, <2>4, <2>6, <2>7
<1>2. QED
  BY <1>1, Invariance, PTL
==============================================================================
