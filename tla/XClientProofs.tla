---------------------------- MODULE XClientProofs ----------------------------
(***************************************************************************)
(* Safety of XClient for any operations, servers and Clients: the inductive*)
(* invariant Inv of XClient is preserved by every action, and the          *)
(* properties the runs check follow from it.                               *)
(***************************************************************************)
EXTENDS XClient, TLAPS

(* A goroutine is an operation and a server.                                *)
LEMMA Pairs ==
  /\ \A g \in Goroutines : g[1] \in Ops /\ g[2] \in Servers /\ g = <<g[1], g[2]>>
  /\ \A o \in Ops, s \in Servers : <<o, s>> \in Goroutines
  BY DEF Goroutines

(* The initial states satisfy the inductive invariant.                      *)
LEMMA InvInit == Init => Inv
<1> SUFFICES ASSUME Init PROVE Inv
  OBVIOUS
<1> USE NoneAssumption DEF Init
<1>1. TypeOK
  BY DEF TypeOK, Errors
<1>2. NoClientLost /\ CachedInUse /\ Dialling
  BY DEF NoClientLost, CachedInUse, Dialling
<1>3. Ran /\ Outcomes /\ CauseReported /\ Merged
  BY Pairs DEF Ran, Outcomes, CauseReported, Merged
<1>4. QED
  BY <1>1, <1>2, <1>3 DEF Inv

(* Merged is about the goroutines that are done: a step that neither merges *)
(* nor starts an operation does not disturb it.                             *)
LEMMA MergedStays ==
  /\ TypeOK /\ Merged /\ UNCHANGED <<servers, e, reply>>
  /\ \A o \in Ops : ctx'[o] = "own" => ctx[o] = "own"
  /\ \A g \in Goroutines : pc'[g] = "done" <=> pc[g] = "done"
  /\ \A g \in Goroutines : pc[g] = "done" => err'[g] = err[g]
  => Merged'
<1> SUFFICES ASSUME TypeOK, Merged, UNCHANGED <<servers, e, reply>>,
                    \A o \in Ops : ctx'[o] = "own" => ctx[o] = "own",
                    \A g \in Goroutines : pc'[g] = "done" <=> pc[g] = "done",
                    \A g \in Goroutines : pc[g] = "done" => err'[g] = err[g],
                    NEW o \in Ops
             PROVE  /\ ctx'[o] = "own" => e[o] # None
                    /\ e[o] # None =>
                         \E s \in servers[o] :
                           pc'[<<o, s>>] = "done" /\ err'[<<o, s>>] # "ok"
                    /\ reply[o] \in Servers =>
                         /\ reply[o] \in servers[o] /\ pc'[<<o, reply[o]>>] = "done"
                         /\ err'[<<o, reply[o]>>] = "ok"
                    /\ \A s \in servers[o] : pc'[<<o, s>>] = "done" =>
                         IF err'[<<o, s>>] = "ok" THEN reply[o] # None ELSE e[o] # None
  BY DEF Merged
<1>1. \A s \in Servers : /\ pc'[<<o, s>>] = "done" <=> pc[<<o, s>>] = "done"
                         /\ pc[<<o, s>>] = "done" => err'[<<o, s>>] = err[<<o, s>>]
  BY Pairs
<1>2. servers[o] \subseteq Servers
  BY DEF TypeOK
<1>3. QED
  BY <1>1, <1>2 DEF Merged

(* Every step preserves the inductive invariant, action by action.          *)
LEMMA InvStep == Inv /\ [Next]_vars => Inv'
<1> SUFFICES ASSUME Inv, [Next]_vars PROVE Inv'
  OBVIOUS
<1> USE NoneAssumption, Pairs DEF Errors
<1>1. ASSUME NEW o \in Ops, NEW S \in SUBSET Servers, NEW r \in {None, Unwanted},
             Broadcast(o, S, r)
      PROVE  Inv'
  <2>1. TypeOK'
    BY <1>1 DEF Inv, TypeOK, Broadcast, poolVars
  <2>2. NoClientLost'
    BY <1>1 DEF Inv, NoClientLost, Broadcast, poolVars
  <2>3. CachedInUse'
    BY <1>1 DEF Inv, CachedInUse, Broadcast, poolVars
  <2>4. Dialling'
    BY <1>1 DEF Inv, Dialling, Broadcast, poolVars
  <2>5. Ran'
    BY <1>1 DEF Inv, TypeOK, Ran, Broadcast
  <2>6. Outcomes'
    BY <1>1 DEF Inv, Outcomes, Ran, Broadcast
  <2>7. CauseReported'
    BY <1>1 DEF Inv, CauseReported, Broadcast
  <2>8. Merged'
    <3>1. /\ servers' = [servers EXCEPT ![o] = S] /\ reply' = [reply EXCEPT ![o] = r]
          /\ UNCHANGED <<ctx, e, err>> /\ e[o] = None /\ servers[o] = {}
          /\ \A g \in Goroutines : pc'[g] = "done" => pc[g] = "done"
          /\ \A g \in Goroutines : g[1] # o => pc'[g] = pc[g]
      <4>1. state[o] = "idle"
        BY <1>1 DEF Broadcast
      <4>2. e[o] = None /\ servers[o] = {}
        BY <4>1 DEF Inv, Ran
      <4>3. \A g \in Goroutines :
              pc'[g] = IF g[1] = o /\ g[2] \in S THEN "dial" ELSE pc[g]
        BY <1>1 DEF Broadcast
      <4>4. QED
        BY <1>1, <4>2, <4>3 DEF Broadcast
    <3>2. ASSUME NEW p \in Ops, p # o
          PROVE  /\ servers'[p] = servers[p] /\ reply'[p] = reply[p]
                 /\ \A s \in Servers : pc'[<<p, s>>] = pc[<<p, s>>]
      BY <3>1, <3>2 DEF Inv
    <3>3. /\ servers'[o] = S /\ reply'[o] \notin Servers
          /\ \A s \in S : pc'[<<o, s>>] # "done"
      <4>1. \A s \in Servers : pc[<<o, s>>] = "idle"
        BY <3>1 DEF Inv, Ran
      <4>2. QED
        BY <3>1, <4>1 DEF Inv, TypeOK
    <3>4. UNCHANGED <<ctx, e, err>>
      BY <3>1
    <3>5. ASSUME NEW p \in Ops
          PROVE  /\ ctx'[p] = "own" => e'[p] # None
                 /\ e'[p] # None => \E s \in servers'[p] :
                      pc'[<<p, s>>] = "done" /\ err'[<<p, s>>] # "ok"
                 /\ reply'[p] \in Servers =>
                      /\ reply'[p] \in servers'[p] /\ pc'[<<p, reply'[p]>>] = "done"
                      /\ err'[<<p, reply'[p]>>] = "ok"
                 /\ \A s \in servers'[p] : pc'[<<p, s>>] = "done" =>
                      IF err'[<<p, s>>] = "ok" THEN reply'[p] # None ELSE e'[p] # None
      <4>1. CASE p = o
        BY <4>1, <3>1, <3>3, <3>4 DEF Inv, Merged
      <4>2. CASE p # o
        <5>1. servers[p] \subseteq Servers
          BY DEF Inv, TypeOK
        <5>2. QED
          BY <4>2, <3>2, <3>4, <5>1 DEF Inv, Merged
      <4>3. QED
        BY <4>1, <4>2
    <3>6. QED
      BY <3>5 DEF Merged
  <2>9. QED
    BY <2>1, <2>2, <2>3, <2>4, <2>5, <2>6, <2>7, <2>8 DEF Inv
<1>2. ASSUME NEW o \in Ops, UserCancels(o) PROVE Inv'
  <2>1. TypeOK'
    BY <1>2 DEF Inv, TypeOK, UserCancels, poolVars
  <2>2. NoClientLost'
    BY <1>2 DEF Inv, NoClientLost, UserCancels, poolVars
  <2>3. CachedInUse'
    BY <1>2 DEF Inv, CachedInUse, UserCancels, poolVars
  <2>4. Dialling'
    BY <1>2 DEF Inv, Dialling, UserCancels, poolVars
  <2>5. Ran'
    BY <1>2 DEF Inv, Ran, UserCancels
  <2>6. Outcomes'
    BY <1>2 DEF Inv, Outcomes, UserCancels
  <2>7. CauseReported'
    BY <1>2 DEF Inv, CauseReported, UserCancels
  <2>8. Merged'
    BY <1>2, MergedStays DEF Inv, UserCancels
  <2>9. QED
    BY <2>1, <2>2, <2>3, <2>4, <2>5, <2>6, <2>7, <2>8 DEF Inv
<1>3. ASSUME NEW o \in Ops, Return(o) PROVE Inv'
  <2>1. TypeOK'
    BY <1>3 DEF Inv, TypeOK, Return, poolVars
  <2>2. NoClientLost'
    BY <1>3 DEF Inv, NoClientLost, Return, poolVars
  <2>3. CachedInUse'
    BY <1>3 DEF Inv, CachedInUse, Return, poolVars
  <2>4. Dialling'
    BY <1>3 DEF Inv, Dialling, Return, poolVars
  <2>5. Ran'
    BY <1>3 DEF Inv, Ran, Return, AllAreDone
  <2>6. Outcomes'
    BY <1>3 DEF Inv, Outcomes, Return
  <2>7. CauseReported'
    BY <1>3 DEF Inv, CauseReported, Return
  <2>8. Merged'
    BY <1>3, MergedStays DEF Inv, Return
  <2>9. QED
    BY <2>1, <2>2, <2>3, <2>4, <2>5, <2>6, <2>7, <2>8 DEF Inv
<1>4. ASSUME NEW g \in Goroutines, Cached(g) PROVE Inv'
  <2>1. TypeOK'
    BY <1>4 DEF Inv, TypeOK, Cached, Goto, poolVars, opVars
  <2>2. NoClientLost'
    BY <1>4 DEF Inv, NoClientLost, Cached, poolVars
  <2>3. CachedInUse'
    BY <1>4 DEF Inv, CachedInUse, Cached, poolVars
  <2>4. Dialling'
    BY <1>4 DEF Inv, Dialling, Cached, Goto
  <2>5. Ran'
    BY <1>4 DEF Inv, Ran, Cached, Goto, opVars
  <2>6. Outcomes'
    BY <1>4 DEF Inv, TypeOK, Outcomes, Cached, IsAvailable, Goto, opVars
  <2>7. CauseReported'
    BY <1>4 DEF Inv, CauseReported, Cached, opVars
  <2>8. Merged'
    BY <1>4, MergedStays DEF Inv, Cached, Goto, opVars
  <2>9. QED
    BY <2>1, <2>2, <2>3, <2>4, <2>5, <2>6, <2>7, <2>8 DEF Inv
<1>5. ASSUME NEW g \in Goroutines, StartDial(g) PROVE Inv'
  <2>1. TypeOK'
    BY <1>5 DEF Inv, TypeOK, StartDial, Closed, Goto, opVars
  <2>2. NoClientLost'
    BY <1>5 DEF Inv, TypeOK, NoClientLost, StartDial, Closed
  <2>3. CachedInUse'
    BY <1>5 DEF Inv, TypeOK, CachedInUse, NoClientLost, StartDial, Closed
  <2>4. Dialling'
    BY <1>5 DEF Inv, TypeOK, Dialling, StartDial, Goto
  <2>5. Ran'
    BY <1>5 DEF Inv, Ran, StartDial, Goto, opVars
  <2>6. Outcomes'
    BY <1>5 DEF Inv, Outcomes, StartDial, Goto, opVars
  <2>7. CauseReported'
    BY <1>5 DEF Inv, CauseReported, StartDial, opVars
  <2>8. Merged'
    BY <1>5, MergedStays DEF Inv, StartDial, Goto, opVars
  <2>9. QED
    BY <2>1, <2>2, <2>3, <2>4, <2>5, <2>6, <2>7, <2>8 DEF Inv
<1>6. ASSUME NEW g \in Goroutines, Dialled(g) PROVE Inv'
  <2>1. TypeOK'
    BY <1>6 DEF Inv, TypeOK, Dialled, Goto, opVars
  <2>2. NoClientLost'
    BY <1>6 DEF Inv, TypeOK, NoClientLost, Dialling, CachedInUse, Dialled
  <2>3. CachedInUse'
    BY <1>6 DEF Inv, TypeOK, CachedInUse, Dialled
  <2>4. Dialling'
    BY <1>6 DEF Inv, TypeOK, Dialling, Dialled, Goto
  <2>5. Ran'
    BY <1>6 DEF Inv, Ran, Dialled, Goto, opVars
  <2>6. Outcomes'
    BY <1>6 DEF Inv, TypeOK, Outcomes, Dialled, Goto, opVars
  <2>7. CauseReported'
    BY <1>6 DEF Inv, CauseReported, Dialled, opVars
  <2>8. Merged'
    BY <1>6, MergedStays DEF Inv, Dialled, Goto, opVars
  <2>9. QED
    BY <2>1, <2>2, <2>3, <2>4, <2>5, <2>6, <2>7, <2>8 DEF Inv
<1>7. ASSUME NEW g \in Goroutines, NotDialled(g) PROVE Inv'
  <2>1. TypeOK'
    BY <1>7 DEF Inv, TypeOK, NotDialled, Came, Goto, opVars
  <2>2. NoClientLost'
    BY <1>7 DEF Inv, NoClientLost, NotDialled
  <2>3. CachedInUse'
    BY <1>7 DEF Inv, CachedInUse, NotDialled
  <2>4. Dialling'
    BY <1>7 DEF Inv, TypeOK, Dialling, NotDialled, Came, Goto
  <2>5. Ran'
    BY <1>7 DEF Inv, Ran, NotDialled, Came, Goto, opVars
  <2>6. Outcomes'
    BY <1>7 DEF Inv, TypeOK, Outcomes, NotDialled, Came, Goto, opVars
  <2>7. CauseReported'
    BY <1>7 DEF Inv, CauseReported, NotDialled, opVars
  <2>8. Merged'
    BY <1>7, MergedStays DEF Inv, NotDialled, Came, Goto, opVars
  <2>9. QED
    BY <2>1, <2>2, <2>3, <2>4, <2>5, <2>6, <2>7, <2>8 DEF Inv
<1>8. ASSUME NEW g \in Goroutines, Ended(g) PROVE Inv'
  <2>1. TypeOK'
    BY <1>8 DEF Inv, TypeOK, Ended, Came, Goto, poolVars, opVars
  <2>2. NoClientLost'
    BY <1>8 DEF Inv, NoClientLost, Ended, poolVars
  <2>3. CachedInUse'
    BY <1>8 DEF Inv, CachedInUse, Ended, poolVars
  <2>4. Dialling'
    BY <1>8 DEF Inv, Dialling, Ended, Came, Goto, poolVars
  <2>5. Ran'
    BY <1>8 DEF Inv, Ran, Ended, Came, Goto, opVars
  <2>6. Outcomes'
    BY <1>8 DEF Inv, TypeOK, Outcomes, Ended, Came, Goto, opVars
  <2>7. CauseReported'
    BY <1>8 DEF Inv, CauseReported, Ended, opVars
  <2>8. Merged'
    BY <1>8, MergedStays DEF Inv, Ended, Came, Goto, opVars
  <2>9. QED
    BY <2>1, <2>2, <2>3, <2>4, <2>5, <2>6, <2>7, <2>8 DEF Inv
<1>9. ASSUME NEW g \in Goroutines, Cancelled(g) PROVE Inv'
  <2>1. TypeOK'
    BY <1>9 DEF Inv, TypeOK, Cancelled, Came, Goto, poolVars, opVars
  <2>2. NoClientLost'
    BY <1>9 DEF Inv, NoClientLost, Cancelled, poolVars
  <2>3. CachedInUse'
    BY <1>9 DEF Inv, CachedInUse, Cancelled, poolVars
  <2>4. Dialling'
    BY <1>9 DEF Inv, Dialling, Cancelled, Came, Goto, poolVars
  <2>5. Ran'
    BY <1>9 DEF Inv, Ran, Cancelled, ContextDone, Came, Goto, opVars
  <2>6. Outcomes'
    BY <1>9 DEF Inv, TypeOK, Outcomes, Cancelled, ContextDone, Came, Goto, opVars
  <2>7. CauseReported'
    BY <1>9 DEF Inv, CauseReported, Cancelled, opVars
  <2>8. Merged'
    BY <1>9, MergedStays DEF Inv, Cancelled, ContextDone, Came, Goto, opVars
  <2>9. QED
    BY <2>1, <2>2, <2>3, <2>4, <2>5, <2>6, <2>7, <2>8 DEF Inv
<1>10. ASSUME NEW g \in Goroutines, Merge(g) PROVE Inv'
  <2>1. TypeOK'
    BY <1>10 DEF Inv, TypeOK, Merge, FirstError, FirstReply, Goto, poolVars
  <2>2. NoClientLost'
    BY <1>10 DEF Inv, NoClientLost, Merge, poolVars
  <2>3. CachedInUse'
    BY <1>10 DEF Inv, CachedInUse, Merge, poolVars
  <2>4. Dialling'
    BY <1>10 DEF Inv, Dialling, Merge, Goto, poolVars
  <2>5. Ran'
    <3>1. \A x \in Goroutines : pc'[x] = IF x = g THEN "done" ELSE pc[x]
      BY <1>10 DEF Inv, TypeOK, Merge, Goto
    <3>2. g[1] \in Ops /\ g[2] \in Servers /\ pc[<<g[1], g[2]>>] = "merge"
      BY <1>10 DEF Merge
    <3>3. g[2] \in servers[g[1]] /\ state[g[1]] # "idle"
      BY <3>2 DEF Inv, Ran
    <3>4. UNCHANGED <<state, servers>> /\ \A o \in Ops : o # g[1] => e'[o] = e[o]
      BY <1>10 DEF Inv, TypeOK, Merge
    <3>5. ASSUME NEW o \in Ops, NEW s \in Servers
          PROVE  /\ pc'[<<o, s>>] # "idle" <=> s \in servers[o]
                 /\ state[o] = "returned" /\ s \in servers[o] => pc'[<<o, s>>] = "done"
      BY <3>1, <3>2, <3>3, <3>4 DEF Inv, Ran
    <3>6. ASSUME NEW o \in Ops, state[o] = "idle" PROVE servers[o] = {} /\ e'[o] = None
      BY <3>3, <3>4, <3>6 DEF Inv, Ran
    <3>7. QED
      BY <3>4, <3>5, <3>6 DEF Ran
  <2>6. Outcomes'
    BY <1>10 DEF Inv, TypeOK, Outcomes, Merge, Goto
  <2>7. CauseReported'
    <3>1. ASSUME NEW o \in Ops, e'[o] = "cancelled" PROVE ctx'[o] = "user"
      <4>1. CASE e'[o] = e[o]
        <5>1. ctx[o] = "user"
          BY <4>1, <3>1 DEF Inv, CauseReported
        <5>2. QED
          BY <5>1, <1>10 DEF Inv, TypeOK, Merge
      <4>2. CASE e'[o] # e[o]
        <5>1. o = g[1] /\ err[g] = "cancelled" /\ e[o] = None
          BY <4>2, <3>1, <1>10 DEF Inv, TypeOK, Merge, FirstError
        <5>2. ctx[o] # "live" /\ ctx[o] # "own"
          BY <5>1 DEF Inv, Outcomes, Merged
        <5>3. QED
          BY <5>1, <5>2, <1>10 DEF Inv, TypeOK, Merge
      <4>3. QED
        BY <4>1, <4>2
    <3>2. QED
      BY <3>1 DEF CauseReported
  <2>8. Merged'
    <3> DEFINE p == g[1]
               t == g[2]
    <3>1. /\ p \in Ops /\ t \in Servers /\ g = <<p, t>> /\ t \in servers[p]
          /\ err[g] # None /\ pc[g] = "merge"
      BY <1>10 DEF Inv, Ran, Outcomes, Merge
    <3>2. UNCHANGED <<servers, err>>
          /\ \A x \in Goroutines : pc'[x] = IF x = g THEN "done" ELSE pc[x]
      BY <1>10 DEF Inv, TypeOK, Merge, Goto
    <3>3. /\ e'[p] = IF err[g] # "ok" /\ e[p] = None THEN err[g] ELSE e[p]
          /\ ctx'[p] = "own" => ctx[p] = "own" \/ e'[p] # None
          /\ reply'[p] = IF err[g] = "ok" /\ reply[p] = None THEN t ELSE reply[p]
          /\ \A o \in Ops \ {p} : e'[o] = e[o] /\ ctx'[o] = ctx[o] /\ reply'[o] = reply[o]
      BY <1>10, <3>1 DEF Inv, TypeOK, Merge, FirstError, FirstReply
    <3> HIDE DEF p, t
    <3>4. ASSUME NEW o \in Ops
          PROVE  /\ ctx'[o] = "own" => e'[o] # None
                 /\ e'[o] # None => \E s \in servers[o] :
                      pc'[<<o, s>>] = "done" /\ err[<<o, s>>] # "ok"
                 /\ reply'[o] \in Servers =>
                      /\ reply'[o] \in servers[o] /\ pc'[<<o, reply'[o]>>] = "done"
                      /\ err[<<o, reply'[o]>>] = "ok"
                 /\ \A s \in servers[o] : pc'[<<o, s>>] = "done" =>
                      IF err[<<o, s>>] = "ok" THEN reply'[o] # None ELSE e'[o] # None
      <4>1. servers[o] \subseteq Servers
        BY DEF Inv, TypeOK
      <4>2. CASE o = p
        <5>1. ctx'[o] = "own" => e'[o] # None
          BY <4>2, <3>1, <3>3 DEF Inv, Merged
        <5>2. ASSUME e'[o] # None
              PROVE  \E s \in servers[o] : pc'[<<o, s>>] = "done" /\ err[<<o, s>>] # "ok"
          <6>1. CASE e[o] = None
            BY <6>1, <5>2, <4>2, <3>1, <3>2, <3>3
          <6>2. CASE e[o] # None
            <7>1. PICK s \in servers[o] : pc[<<o, s>>] = "done" /\ err[<<o, s>>] # "ok"
              BY <6>2 DEF Inv, Merged
            <7>2. pc'[<<o, s>>] = "done"
              BY <7>1, <4>1, <3>2
            <7>3. QED
              BY <7>1, <7>2
          <6>3. QED
            BY <6>1, <6>2
        <5>3. reply'[o] \in Servers =>
                /\ reply'[o] \in servers[o] /\ pc'[<<o, reply'[o]>>] = "done"
                /\ err[<<o, reply'[o]>>] = "ok"
          BY <4>1, <4>2, <3>1, <3>2, <3>3 DEF Inv, Merged
        <5>4. ASSUME NEW s \in servers[o], pc'[<<o, s>>] = "done"
              PROVE  IF err[<<o, s>>] = "ok" THEN reply'[o] # None ELSE e'[o] # None
          <6>1. CASE s = t
            BY <6>1, <4>2, <3>1, <3>3
          <6>2. CASE s # t
            <7>1. pc[<<o, s>>] = "done"
              BY <6>2, <5>4, <4>1, <3>1, <3>2
            <7>2. IF err[<<o, s>>] = "ok" THEN reply[o] # None ELSE e[o] # None
              BY <7>1 DEF Inv, Merged
            <7>3. QED
              BY <7>2, <4>2, <3>1, <3>3
          <6>3. QED
            BY <6>1, <6>2
        <5>5. QED
          BY <5>1, <5>2, <5>3, <5>4
      <4>3. CASE o # p
        <5>1. \A s \in Servers : pc'[<<o, s>>] = pc[<<o, s>>]
          BY <4>3, <3>1, <3>2
        <5>2. QED
          BY <4>1, <4>3, <5>1, <3>3 DEF Inv, Merged
      <4>4. QED
        BY <4>2, <4>3
    <3>5. QED
      BY <3>2, <3>4 DEF Merged
  <2>9. QED
    BY <2>1, <2>2, <2>3, <2>4, <2>5, <2>6, <2>7, <2>8 DEF Inv
<1>11. ASSUME NEW g \in Goroutines, Sent(g) PROVE Inv'
  <2>1. TypeOK'
    BY <1>11 DEF Inv, TypeOK, Sent, Goto, poolVars, opVars
  <2>2. NoClientLost'
    BY <1>11 DEF Inv, NoClientLost, Sent, poolVars
  <2>3. CachedInUse'
    BY <1>11 DEF Inv, CachedInUse, Sent, poolVars
  <2>4. Dialling'
    BY <1>11 DEF Inv, Dialling, Sent, Goto, poolVars
  <2>5. Ran'
    BY <1>11 DEF Inv, Ran, Sent, Goto, opVars
  <2>6. Outcomes'
    BY <1>11 DEF Inv, Outcomes, Sent, Goto, opVars
  <2>7. CauseReported'
    BY <1>11 DEF Inv, CauseReported, Sent, opVars
  <2>8. Merged'
    BY <1>11, MergedStays DEF Inv, Sent, Goto, opVars
  <2>9. QED
    BY <2>1, <2>2, <2>3, <2>4, <2>5, <2>6, <2>7, <2>8 DEF Inv
<1>12. ASSUME NEW g \in Goroutines, Answered(g) PROVE Inv'
  <2>1. TypeOK'
    BY <1>12 DEF Inv, TypeOK, Answered, Came, Goto, poolVars, opVars
  <2>2. NoClientLost'
    BY <1>12 DEF Inv, NoClientLost, Answered, poolVars
  <2>3. CachedInUse'
    BY <1>12 DEF Inv, CachedInUse, Answered, poolVars
  <2>4. Dialling'
    BY <1>12 DEF Inv, Dialling, Answered, Came, Goto, poolVars
  <2>5. Ran'
    <3>1. \A x \in Goroutines : pc'[x] = IF x = g THEN "merge" ELSE pc[x]
      BY <1>12 DEF Inv, TypeOK, Answered, Came, Goto
    <3>2. UNCHANGED <<state, servers, e>> /\ pc[g] = "wait"
      BY <1>12 DEF Answered, opVars
    <3>3. ASSUME NEW o \in Ops, NEW s \in Servers
          PROVE  /\ pc'[<<o, s>>] # "idle" <=> pc[<<o, s>>] # "idle"
                 /\ pc[<<o, s>>] = "done" => pc'[<<o, s>>] = "done"
      BY <3>1, <3>2
    <3>4. QED
      BY <3>2, <3>3 DEF Inv, Ran
  <2>6. Outcomes'
    BY <1>12 DEF Inv, TypeOK, Outcomes, Answered, Came, Goto, opVars
  <2>7. CauseReported'
    BY <1>12 DEF Inv, CauseReported, Answered, opVars
  <2>8. Merged'
    BY <1>12, MergedStays DEF Inv, Answered, Came, Goto, opVars
  <2>9. QED
    BY <2>1, <2>2, <2>3, <2>4, <2>5, <2>6, <2>7, <2>8 DEF Inv
<1>13. ASSUME Close PROVE Inv'
  <2>1. TypeOK'
    BY <1>13 DEF Inv, TypeOK, Close, opVars
  <2>2. NoClientLost'
    BY <1>13 DEF Inv, NoClientLost, Close
  <2>3. CachedInUse'
    BY <1>13 DEF Inv, CachedInUse, Close
  <2>4. Dialling'
    BY <1>13 DEF Inv, Dialling, Close
  <2>5. Ran'
    BY <1>13 DEF Inv, Ran, Close, opVars
  <2>6. Outcomes'
    BY <1>13 DEF Inv, Outcomes, Close, opVars
  <2>7. CauseReported'
    BY <1>13 DEF Inv, CauseReported, Close, opVars
  <2>8. Merged'
    BY <1>13, MergedStays DEF Inv, Close, opVars
  <2>9. QED
    BY <2>1, <2>2, <2>3, <2>4, <2>5, <2>6, <2>7, <2>8 DEF Inv
<1>14. ASSUME NEW c \in Clients, Break(c) PROVE Inv'
  <2>1. TypeOK'
    BY <1>14 DEF Inv, TypeOK, Break, opVars
  <2>2. NoClientLost'
    BY <1>14 DEF Inv, NoClientLost, Break
  <2>3. CachedInUse'
    BY <1>14 DEF Inv, CachedInUse, Break
  <2>4. Dialling'
    BY <1>14 DEF Inv, Dialling, Break
  <2>5. Ran'
    BY <1>14 DEF Inv, Ran, Break, opVars
  <2>6. Outcomes'
    BY <1>14 DEF Inv, Outcomes, Break, opVars
  <2>7. CauseReported'
    BY <1>14 DEF Inv, CauseReported, Break, opVars
  <2>8. Merged'
    BY <1>14, MergedStays DEF Inv, Break, opVars
  <2>9. QED
    BY <2>1, <2>2, <2>3, <2>4, <2>5, <2>6, <2>7, <2>8 DEF Inv
<1>15. CASE UNCHANGED vars
  <2>1. TypeOK' /\ NoClientLost' /\ CachedInUse' /\ Dialling'
    BY <1>15 DEF Inv, vars, poolVars, TypeOK, NoClientLost, CachedInUse, Dialling,
        opVars
  <2>2. Ran' /\ Outcomes' /\ CauseReported'
    BY <1>15 DEF Inv, vars, opVars, Ran, Outcomes, CauseReported
  <2>3. Merged'
    BY <1>15, MergedStays DEF Inv, vars, opVars
  <2>4. QED
    BY <2>1, <2>2, <2>3 DEF Inv
<1>16. QED
  BY <1>1, <1>2, <1>3, <1>4, <1>5, <1>6, <1>7, <1>8, <1>9, <1>10, <1>11, <1>12,
      <1>13, <1>14, <1>15 DEF Next, Step, Call

(* Inv holds in every reachable state.                                      *)
THEOREM Invariance == Spec => []Inv
<1>1. Init => Inv
  BY InvInit
<1>2. Inv /\ [Next]_vars => Inv'
  BY InvStep
<1>3. QED
  BY <1>1, <1>2, PTL DEF Spec

(* Every variable keeps its type.                                           *)
THEOREM TypeCorrect == Spec => []TypeOK
<1>1. Inv => TypeOK
  BY DEF Inv
<1>2. QED
  BY <1>1, Invariance, PTL

(* Every Client that may still hold a connection can be found in the cache, *)
(* and under one server only.                                               *)
THEOREM ClientsKept == Spec => []NoClientLost
<1>1. Inv => NoClientLost
  BY DEF Inv
<1>2. QED
  BY <1>1, Invariance, PTL

(* Broadcast never reports its own cancel.                                  *)
THEOREM TrueCause == Spec => []CauseReported
<1>1. Inv => CauseReported
  BY DEF Inv
<1>2. QED
  BY <1>1, Invariance, PTL

(* What Broadcast returns is the result of all its calls.                   *)
THEOREM ReturnsResultOfAll == Spec => []ResultOfAll
<1>1. Inv => ResultOfAll
  <2> SUFFICES ASSUME Inv, NEW o \in Ops, state[o] = "returned"
               PROVE  /\ e[o] = None <=> \A s \in servers[o] : err[<<o, s>>] = "ok"
                      /\ reply[o] \in Servers =>
                           reply[o] \in servers[o] /\ err[<<o, reply[o]>>] = "ok"
                      /\ reply[o] = None => \A s \in servers[o] : err[<<o, s>>] # "ok"
    BY DEF ResultOfAll
  <2>1. \A s \in servers[o] : pc[<<o, s>>] = "done"
    BY DEF Inv, TypeOK, Ran
  <2>2. QED
    BY <2>1 DEF Inv, Merged
<1>2. QED
  BY <1>1, Invariance, PTL

(* The result is set once, and not after it has been returned.              *)
THEOREM SetOnce == Spec => ResultSetOnce
<1> DEFINE Kept ==
      \A o \in Ops : state[o] # "idle" =>
        /\ e[o] # None \/ state[o] = "returned" => e'[o] = e[o]
        /\ reply[o] # None \/ state[o] = "returned" => reply'[o] = reply[o]
<1>1. Inv /\ [Next]_vars => [Kept]_vars
  <2> SUFFICES ASSUME Inv, Next PROVE Kept
    OBVIOUS
  <2>1. CASE UNCHANGED <<e, reply>>
    BY <2>1
  <2>2. ASSUME NEW o \in Ops, NEW S \in SUBSET Servers, NEW r, Broadcast(o, S, r)
        PROVE  Kept
    BY <2>2 DEF Broadcast, Inv
  <2>3. ASSUME NEW g \in Goroutines, Merge(g) PROVE Kept
    <3>1. g[1] \in Ops /\ g[2] \in servers[g[1]] /\ state[g[1]] # "returned"
      <4>1. g[1] \in Ops /\ g[2] \in Servers /\ pc[<<g[1], g[2]>>] = "merge"
        BY <2>3, Pairs DEF Merge
      <4>2. QED
        BY <4>1 DEF Inv, Ran
    <3>2. \A o \in Ops : o # g[1] => e'[o] = e[o] /\ reply'[o] = reply[o]
      BY <2>3 DEF Inv, TypeOK, Merge, FirstReply
    <3>3. /\ e[g[1]] # None => e'[g[1]] = e[g[1]]
          /\ reply[g[1]] # None => reply'[g[1]] = reply[g[1]]
      BY <2>3, <3>1 DEF Inv, Merge, FirstError, FirstReply
    <3>4. QED
      BY <3>1, <3>2, <3>3
  <2>4. QED
    BY <2>1, <2>2, <2>3 DEF Next, Step, Call, UserCancels, Return, Cached,
        StartDial, Dialled, NotDialled, Ended, Cancelled, Sent, Answered, Close,
        Break, opVars
<1>2. QED
  BY <1>1, Invariance, PTL DEF Spec, ResultSetOnce

(* Every path out of a dial releases mu.                                    *)
LEMMA HeldInvariance == Spec => []HeldToDial
<1>1. Init => HeldToDial
  BY DEF Init, HeldToDial
<1>2. Inv /\ HeldToDial /\ [Next]_vars => HeldToDial'
  <2> SUFFICES ASSUME Inv, HeldToDial, [Next]_vars PROVE HeldToDial'
    OBVIOUS
  <2> USE NoneAssumption DEF Inv, TypeOK, HeldToDial
  <2>1. ASSUME NEW g \in Goroutines, NEW label, pc' = [pc EXCEPT ![g] = label],
               pc[g] # "dialing", UNCHANGED mu
        PROVE  HeldToDial'
    BY <2>1
  <2>2. ASSUME NEW g \in Goroutines, Step(g) \/ Sent(g) \/ Answered(g) PROVE HeldToDial'
    <3>1. CASE Cached(g) \/ Ended(g) \/ Cancelled(g) \/ Merge(g) \/ Sent(g) \/ Answered(g)
      BY <3>1, <2>1 DEF Cached, Ended, Cancelled, ContextDone, Merge, Sent, Answered, Came, Goto,
         poolVars
    <3>2. CASE StartDial(g)
      BY <3>2 DEF StartDial, Goto
    <3>3. CASE Dialled(g) \/ NotDialled(g)
      BY <3>3 DEF Dialled, NotDialled
    <3>4. QED
      BY <2>2, <3>1, <3>2, <3>3 DEF Step
  <2>3. ASSUME NEW o \in Ops, NEW S, NEW r, Broadcast(o, S, r) PROVE HeldToDial'
    <3>1. mu # None => mu[1] # o
      BY <2>3, Pairs DEF Broadcast, Ran
    <3>2. QED
      BY <2>3, <3>1 DEF Broadcast, poolVars
  <2>4. ASSUME UNCHANGED <<pc, mu>> PROVE HeldToDial'
    BY <2>4
  <2>5. QED
    BY <2>2, <2>3, <2>4 DEF Next, Call, UserCancels, Return, Close, Break, vars, poolVars
<1>3. QED
  BY <1>1, <1>2, Invariance, PTL DEF Spec

(* Whoever is under way goes on, waits for a dial that goes on, or waits for*)
(* its own server.                                                          *)
THEOREM NoEndlessWaits == Spec => []WaitsEnd
<1>1. Inv /\ HeldToDial => WaitsEnd
  BY DEF Inv, TypeOK, HeldToDial, WaitsEnd, Goes, ContextDone
<1>2. QED
  BY <1>1, Invariance, HeldInvariance, PTL
==============================================================================
