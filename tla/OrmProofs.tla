------------------------------- MODULE OrmProofs -------------------------------
(***************************************************************************)
(* Safety of OrmEngine, for any goroutines, models, columns, calls and     *)
(* transactions: the inductive invariant Inv is preserved by every action, *)
(* and the properties the run checks follow.                               *)
(*                                                                         *)
(* What a step does to the database is one of a few things (DbStep),       *)
(* whatever the action; what is said of the database, and of the other     *)
(* goroutines, follows from that alone.  An action is then looked at for   *)
(* its own goroutine only.                                                 *)
(***************************************************************************)
EXTENDS OrmEngine, TLAPS

DbTypes ==
  /\ tables \in [Tables -> Schemas] /\ applied \subseteq Ids
  /\ txState \in [Txs -> {"unused", "open", "over"}]
  /\ touched \in [Txs -> BOOLEAN]
  /\ view \in [Txs -> [Tables -> Schemas]] /\ made \in [Txs -> SUBSET Ids]
  /\ tx \in [Procs -> Txs \cup {None}]

OwnTypes ==
  /\ pc \in [Procs -> {"new", "idle", "before", "after", "finish", "returned"} \cup InMigrate]
  /\ refTable \in [Procs -> Models \cup {None}]
  /\ clause \in [Procs -> Nat]
  /\ call \in [Procs -> Nat]
  /\ verb \in [Procs -> Verbs]
  /\ aim \in [Procs -> Models \cup {None}]
  /\ chained \in [Procs -> BOOLEAN]
  /\ hooked \in [Procs -> BOOLEAN]
  /\ aborted \in [Procs -> SUBSET Nat]
  /\ role \in [Procs -> {"none", "session"} \cup Transactional]
  /\ exit \in [Procs -> {"none", "nil", "error", "panic"}]
  /\ outcome \in [Procs -> {"none", "ok", "error", "panic"}]
  /\ addCols \in [Procs -> SUBSET Columns]
  /\ delCols \in [Procs -> SUBSET Columns]

LEMMA Types == TypeOK <=> DbTypes /\ OwnTypes
  BY DEF TypeOK, DbTypes, OwnTypes

(* A statement of a session drops tables and makes whole ones.              *)
Statements(old, new) ==
  new[Tmp] = old[Tmp] /\ \A m \in Models : new[m] \in {old[m], NoTable, Created}

Executes(q) ==
  /\ Id(q) \in Ids
  /\ \E ch \in SUBSET {Id(q)}, ts \in [Tables -> Schemas] :
       /\ DbExec(tx[q], ch, ts)
       /\ ch = {} => ts = Seen(tx[q])
       /\ \/ role[q] = "migrate" /\ tx[q] # None
          \/ Statements(Seen(tx[q]), ts)

Commits(q) ==
  /\ tx[q] # None /\ DbCommit(tx[q])
  /\ role[q] = "migrate" => pc[q] = "finish" /\ exit[q] = "nil"

DbStep(q) ==
  \/ UNCHANGED dbVars /\ (tx' = tx \/ tx' = [tx EXCEPT ![q] = None])
  \/ \E t \in Txs : DbBegin(t) /\ tx' = [tx EXCEPT ![q] = t]
  \/ tx' = tx /\ Executes(q)
  \/ tx' = tx /\ Commits(q)
  \/ tx' = tx /\ tx[q] # None /\ DbRollback(tx[q])

(* The others stay where they are.                                          *)
OwnStep(q) ==
  \A p \in Procs \ {q} :
    /\ pc'[p] = pc[p] /\ refTable'[p] = refTable[p] /\ clause'[p] = clause[p]
    /\ call'[p] = call[p] /\ verb'[p] = verb[p] /\ aim'[p] = aim[p]
    /\ chained'[p] = chained[p] /\ hooked'[p] = hooked[p] /\ aborted'[p] = aborted[p]
    /\ role'[p] = role[p] /\ exit'[p] = exit[p] /\ outcome'[p] = outcome[p]
    /\ addCols'[p] = addCols[p] /\ delCols'[p] = delCols[p]

-----------------------------------------------------------------------------
(* The database.                                                            *)

LEMMA DbTyped ==
  ASSUME DbTypes, NEW q \in Procs, DbStep(q)
  PROVE  DbTypes'
<1> USE TxsAssumption DEF DbTypes
<1>1. CASE UNCHANGED dbVars /\ (tx' = tx \/ tx' = [tx EXCEPT ![q] = None])
  BY <1>1 DEF dbVars, txVars
<1>2. CASE \E t \in Txs : DbBegin(t) /\ tx' = [tx EXCEPT ![q] = t]
  BY <1>2 DEF DbBegin
<1>3. CASE tx' = tx /\ Executes(q)
  <2>1. PICK ch \in SUBSET {Id(q)}, ts \in [Tables -> Schemas] : DbExec(tx[q], ch, ts)
    BY <1>3 DEF Executes
  <2>2. Id(q) \in Ids /\ ch \subseteq Ids
    BY <1>3 DEF Executes
  <2>3. CASE tx[q] = None
    BY <1>3, <2>1, <2>2, <2>3 DEF DbExec, txVars
  <2>4. CASE tx[q] # None
    <3>1. tx[q] \in Txs
      BY <2>4
    <3>2. view' = [view EXCEPT ![tx[q]] = ts] /\ made' = [made EXCEPT ![tx[q]] = @ \cup ch]
          /\ touched' = [touched EXCEPT ![tx[q]] = TRUE] /\ UNCHANGED <<tables, applied, txState>>
      BY <2>1, <2>4 DEF DbExec
    <3>3. made' \in [Txs -> SUBSET Ids]
      BY <2>2, <3>1, <3>2
    <3>4. QED
      BY <1>3, <3>1, <3>2, <3>3
  <2>5. QED
    BY <2>3, <2>4
<1>4. CASE tx' = tx /\ Commits(q)
  BY <1>4 DEF Commits, DbCommit
<1>5. CASE tx' = tx /\ tx[q] # None /\ DbRollback(tx[q])
  BY <1>5 DEF DbRollback
<1>6. QED
  BY <1>1, <1>2, <1>3, <1>4, <1>5 DEF DbStep

(* What a step of q does not reach: a transaction of somebody else; and     *)
(* nothing is committed under one that is open and has read.                *)
LEMMA Undisturbed ==
  ASSUME DbTypes, Owned, NEW q \in Procs, DbStep(q), NEW t \in Txs, tx[q] # t
  PROVE  /\ touched'[t] = touched[t] /\ view'[t] = view[t] /\ made'[t] = made[t]
         /\ txState[t] # "unused" => txState'[t] = txState[t]
         /\ txState'[t] = "unused" => txState[t] = "unused"
         /\ Open(t) /\ touched[t] => tables' = tables
<1> USE TxsAssumption DEF DbTypes
<1>1. CASE UNCHANGED dbVars /\ (tx' = tx \/ tx' = [tx EXCEPT ![q] = None])
  BY <1>1 DEF dbVars, txVars
<1>2. CASE \E u \in Txs : DbBegin(u) /\ tx' = [tx EXCEPT ![q] = u]
  BY <1>2 DEF DbBegin
<1>3. CASE tx' = tx /\ Executes(q)
  <2>1. PICK ch \in SUBSET {Id(q)}, ts \in [Tables -> Schemas] :
          DbExec(tx[q], ch, ts) /\ (ch = {} => ts = Seen(tx[q]))
    BY <1>3 DEF Executes
  <2>2. CASE tx[q] = None
    <3>1. ch # {} => ~(Open(t) /\ touched[t])
      BY <2>1, <2>2 DEF DbExec, Writable, Readers
    <3>2. ch = {} => tables' = tables
      BY <2>1, <2>2 DEF DbExec, Seen
    <3>3. QED
      BY <2>1, <2>2, <3>1, <3>2 DEF DbExec, txVars
  <2>3. CASE tx[q] # None
    BY <2>1, <2>3 DEF DbExec
  <2>4. QED
    BY <2>2, <2>3
<1>4. CASE tx' = tx /\ Commits(q)
  BY <1>4 DEF Commits, DbCommit, Readers
<1>5. CASE tx' = tx /\ tx[q] # None /\ DbRollback(tx[q])
  BY <1>5 DEF DbRollback
<1>6. QED
  BY <1>1, <1>2, <1>3, <1>4, <1>5 DEF DbStep

(* What it adds to the database was made outside of any transaction, or in  *)
(* the one of q, which then is over.                                        *)
LEMMA Taken ==
  ASSUME DbTypes, Marked, NEW q \in Procs, DbStep(q)
  PROVE  /\ applied \subseteq applied'
         /\ \A x \in applied' \ applied :
              x.tx = tx[q] /\ (x.tx # None => txState'[x.tx] = "over" /\ x \in made[x.tx])
<1> USE TxsAssumption DEF DbTypes
<1>1. CASE UNCHANGED dbVars /\ (tx' = tx \/ tx' = [tx EXCEPT ![q] = None])
  BY <1>1 DEF dbVars, txVars
<1>2. CASE \E u \in Txs : DbBegin(u) /\ tx' = [tx EXCEPT ![q] = u]
  BY <1>2 DEF DbBegin
<1>3. CASE tx' = tx /\ Executes(q)
  BY <1>3 DEF Executes, DbExec, Id
<1>4. CASE tx' = tx /\ Commits(q)
  BY <1>4 DEF Commits, DbCommit, Marked
<1>5. CASE tx' = tx /\ tx[q] # None /\ DbRollback(tx[q])
  BY <1>5 DEF DbRollback
<1>6. QED
  BY <1>1, <1>2, <1>3, <1>4, <1>5 DEF DbStep

(* What becomes of the transaction of q itself.                             *)
LEMMA OfOwn ==
  ASSUME DbTypes, Owned, NEW q \in Procs, DbStep(q), NEW t \in Txs, tx[q] = t
  PROVE  /\ txState'[t] \in {txState[t], "over"}
         /\ \/ touched'[t] = touched[t] /\ view'[t] = view[t] /\ made'[t] = made[t]
            \/ /\ touched'[t] /\ tables' = tables
               /\ \E ch \in SUBSET {Id(q)} :
                    made'[t] = made[t] \cup ch /\ (ch = {} => view'[t] = Seen(t))
               /\ role[q] = "migrate" \/ Statements(Seen(t), view'[t])
         /\ tables' # tables => txState'[t] = "over"
<1> USE TxsAssumption DEF DbTypes
<1>1. CASE UNCHANGED dbVars /\ (tx' = tx \/ tx' = [tx EXCEPT ![q] = None])
  BY <1>1 DEF dbVars, txVars
<1>2. CASE \E u \in Txs : DbBegin(u) /\ tx' = [tx EXCEPT ![q] = u]
  BY <1>2 DEF DbBegin, Owned
<1>3. CASE tx' = tx /\ Executes(q)
  BY <1>3 DEF Executes, DbExec
<1>4. CASE tx' = tx /\ Commits(q)
  BY <1>4 DEF Commits, DbCommit
<1>5. CASE tx' = tx /\ tx[q] # None /\ DbRollback(tx[q])
  BY <1>5 DEF DbRollback
<1>6. QED
  BY <1>1, <1>2, <1>3, <1>4, <1>5 DEF DbStep

LEMMA DbInvariants ==
  ASSUME DbTypes, Owned, Isolated, Marked, NEW q \in Procs, DbStep(q)
  PROVE  Owned' /\ Isolated' /\ Marked'
<1> USE TxsAssumption
<1>t. DbTypes'
  BY DbTyped
<1>1. Owned'
  <2>1. CASE \E t \in Txs : DbBegin(t) /\ tx' = [tx EXCEPT ![q] = t]
    BY <2>1 DEF Owned, DbTypes, DbBegin
  <2>2. CASE tx' = tx \/ tx' = [tx EXCEPT ![q] = None]
    <3>1. \A t \in Txs : txState[t] # "unused" => txState'[t] # "unused"
      BY Undisturbed, OfOwn, <1>t DEF DbTypes
    <3>2. QED
      BY <2>2, <3>1 DEF Owned, DbTypes
  <2>3. QED
    BY <2>1, <2>2 DEF DbStep
<1>2. Isolated'
  <2> SUFFICES ASSUME NEW t \in Txs
               PROVE  /\ txState'[t] = "unused" => ~touched'[t]
                      /\ made'[t] # {} => touched'[t]
                      /\ Open(t)' /\ touched'[t] /\ made'[t] = {} => view'[t] = tables'
    BY DEF Isolated
  <2>1. CASE tx[q] = t
    <3>1. txState[t] # "unused"
      BY <2>1 DEF Owned
    <3>2. Isolated!(t)
      BY DEF Isolated
    <3>3. QED
      BY <2>1, <3>1, <3>2, OfOwn DEF DbTypes, Open, Seen
  <2>2. CASE tx[q] # t
    BY <2>2, Undisturbed DEF Isolated, Open
  <2>3. QED
    BY <2>1, <2>2
<1>3. Marked'
  <2>1. \A t \in Txs : \A x \in made'[t] : x.tx = t
    <3> SUFFICES ASSUME NEW t \in Txs, NEW x \in made'[t] PROVE x.tx = t
      OBVIOUS
    <3>1. CASE tx[q] = t
      BY <3>1, OfOwn DEF Id, Marked
    <3>2. CASE tx[q] # t
      BY <3>2, Undisturbed DEF Marked
    <3>3. QED
      BY <3>1, <3>2
  <2>2. \A t \in Txs : txState[t] = "over" => txState'[t] = "over"
    BY Undisturbed, OfOwn DEF DbTypes
  <2>3. \A x \in applied' : x.tx # None => txState'[x.tx] = "over"
    <3> SUFFICES ASSUME NEW x \in applied', x.tx # None PROVE txState'[x.tx] = "over"
      OBVIOUS
    <3>1. x.tx \in Txs
      BY <1>t DEF DbTypes, Ids
    <3>2. CASE x \in applied
      BY <2>2, <3>1, <3>2 DEF Marked
    <3>3. CASE x \notin applied
      BY <3>3, Taken
    <3>4. QED
      BY <3>2, <3>3
  <2>4. QED
    BY <2>1, <2>3 DEF Marked
<1>4. QED
  BY <1>1, <1>2, <1>3

LEMMA TablesKept ==
  ASSUME DbTypes, Owned, Isolated, Whole, NEW q \in Procs, Placed(q),
         role[q] = "migrate" /\ pc[q] # "returned" => Migrates(q, tx[q]),
         DbStep(q), OwnStep(q), role[q] = "migrate" => role'[q] = "migrate" /\ tx' = tx
  PROVE  /\ tables'[Tmp] = NoTable /\ \A m \in Models : Keeps(tables[m], tables'[m])
         /\ Whole'
<1> USE TxsAssumption
<1>t. Tmp \in Tables \ Models /\ Models \subseteq Tables /\ Migrated \in Models
  BY MigratedAssumption, ModelsAssumption
<1>s. \A old, new \in [Tables -> Schemas] :
        old[Tmp] = NoTable /\ Statements(old, new) =>
          new[Tmp] = NoTable /\ \A m \in Models : Keeps(old[m], new[m])
  BY <1>t DEF Statements, Keeps, Created
<1>1. tables'[Tmp] = NoTable /\ \A m \in Models : Keeps(tables[m], tables'[m])
  <2>1. CASE tables' = tables
    BY <2>1 DEF Whole, Keeps
  <2>2. CASE tables' # tables /\ tx' = tx /\ Executes(q)
    <3>1. tx[q] = None /\ Statements(tables, tables') /\ tables' \in [Tables -> Schemas]
      BY <2>2 DEF Executes, DbExec, Seen
    <3>2. QED
      BY <1>s, <3>1 DEF Whole, DbTypes
  <2>3. CASE tables' # tables /\ tx' = tx /\ Commits(q)
    <3> DEFINE t == tx[q]
    <3>1. t \in Txs /\ Open(t) /\ touched[t] /\ made[t] # {} /\ tables' = view[t]
      BY <2>3 DEF Commits, DbCommit, DbTypes, Isolated
    <3>2. CASE role[q] = "migrate"
      <4>1. pc[q] = "finish" /\ exit[q] = "nil"
        BY <2>3, <3>2 DEF Commits
      <4>2. Elsewhere(t) /\ Keeps(tables[Migrated], view[t][Migrated])
        BY <3>1, <3>2, <4>1 DEF Migrates
      <4>3. \A m \in Models : Keeps(tables[m], view[t][m])
        BY <1>t, <4>2 DEF Elsewhere, Keeps
      <4>4. QED
        BY <1>t, <3>1, <4>2, <4>3 DEF Elsewhere, Whole
    <3>3. CASE role[q] # "migrate"
      BY <3>1, <3>3 DEF Whole, Owned
    <3>4. QED
      BY <3>2, <3>3
  <2>4. QED
    BY <2>1, <2>2, <2>3 DEF DbStep, dbVars, DbBegin, DbRollback
<1>2. ASSUME NEW t \in Txs, Open(t)', touched'[t]
      PROVE  \/ \E p \in Procs : tx'[p] = t /\ role'[p] = "migrate"
             \/ view'[t][Tmp] = NoTable /\ \A m \in Models : Keeps(tables'[m], view'[t][m])
  <2>1. CASE tx[q] # t
    <3>1. Open(t) /\ touched[t] /\ tables' = tables /\ view'[t] = view[t]
      BY <1>2, <2>1, Undisturbed DEF Open, Isolated, DbTypes
    <3>2. ASSUME NEW p \in Procs, tx[p] = t, role[p] = "migrate"
          PROVE  tx'[p] = t /\ role'[p] = "migrate"
      BY <2>1, <3>2 DEF OwnStep, DbStep, DbTypes
    <3>3. QED
      BY <3>1, <3>2 DEF Whole
  <2>2. CASE tx[q] = t /\ role[q] = "migrate"
    BY <2>2
  <2>3. CASE tx[q] = t /\ role[q] # "migrate"
    <3>1. Open(t) /\ tables' = tables
      BY <1>2, <2>3, OfOwn DEF Open, DbTypes
    <3>2. Seen(t)[Tmp] = NoTable /\ \A m \in Models : Keeps(tables[m], Seen(t)[m])
      BY <2>3, <3>1 DEF Whole, Owned, Seen, Keeps
    <3>3. CASE touched'[t] = touched[t] /\ view'[t] = view[t]
      BY <1>2, <2>3, <3>1, <3>2, <3>3 DEF Seen
    <3>4. CASE Statements(Seen(t), view'[t])
      BY <1>t, <3>1, <3>2, <3>4 DEF Statements, Keeps, Created
    <3>5. QED
      BY <2>3, <3>3, <3>4, OfOwn
  <2>4. QED
    BY <2>1, <2>2, <2>3
<1>3. QED
  BY <1>1, <1>2 DEF Whole

(* The other goroutines are where they were.                                *)
LEMMA OthersKept ==
  ASSUME DbTypes, Owned, Isolated, Marked, NEW q \in Procs, DbStep(q), OwnStep(q),
         NEW p \in Procs, p # q, Follows(p)
  PROVE  Follows(p)'
<1> USE TxsAssumption
<1>1. tx'[p] = tx[p]
  BY DEF DbStep, DbTypes
<1>2. /\ pc'[p] = pc[p] /\ role'[p] = role[p] /\ exit'[p] = exit[p] /\ outcome'[p] = outcome[p]
      /\ addCols'[p] = addCols[p] /\ delCols'[p] = delCols[p]
  BY DEF OwnStep
<1>3. Chains(p)'
  BY DEF Follows, Chains, TableOf, OwnStep
<1>4. CASE tx[p] = None
  BY <1>1, <1>2, <1>3, <1>4 DEF Follows, Placed, Told, Made, Transactional
<1>5. CASE tx[p] # None
  <2> DEFINE t == tx[p]
  <2>1. t \in Txs /\ txState[t] # "unused" /\ tx[q] # t
    BY <1>5 DEF DbTypes, Owned
  <2>2. /\ touched'[t] = touched[t] /\ view'[t] = view[t] /\ made'[t] = made[t]
        /\ txState'[t] = txState[t]
        /\ Open(t) /\ touched[t] => tables' = tables
    BY <2>1, Undisturbed
  <2>3. Placed(p)'
    BY <1>1, <1>2, <2>2 DEF Follows, Placed, Open
  <2>4. Told(p)'
    <3>1. Made(p) = made[t] /\ Made(p)' = made[t]
      BY <1>1, <1>5, <2>2 DEF Made
    <3>2. \A x \in made[t] : x.tx = t
      BY <2>1 DEF Marked
    <3>3. applied \subseteq applied' /\ made[t] \cap applied' \subseteq applied
      BY <2>1, <3>2, Taken
    <3>4. QED
      BY <1>1, <1>2, <2>2, <3>1, <3>3 DEF Follows, Told
  <2>5. ASSUME role[p] = "migrate", pc[p] # "returned" PROVE Migrates(p, t)'
    <3>1. Open(t) /\ Migrates(p, t)
      BY <2>5, <1>5 DEF Follows, Placed, Transactional
    <3>2. made[t] # {} => touched[t]
      BY <2>1 DEF Isolated
    <3>3. touched[t] => tables' = tables
      BY <2>2, <3>1
    <3>4. pc[p] \in {"addColumns", "swap"} => Compared(p, t)'
      BY <1>1, <1>2, <2>2, <3>1, <3>3 DEF Migrates, Compared, Elsewhere
    <3>5. QED
      BY <1>1, <1>2, <2>2, <3>1, <3>2, <3>3, <3>4 DEF Migrates, Elsewhere
  <2>6. QED
    BY <1>1, <1>2, <1>3, <2>3, <2>4, <2>5 DEF Follows
<1>6. QED
  BY <1>4, <1>5

-----------------------------------------------------------------------------
(* The goroutine itself.                                                    *)

(* What an action of q is looked at for.                                    *)
Turn(q) ==
  /\ OwnTypes' /\ OwnStep(q) /\ DbStep(q)
  /\ role[q] = "migrate" => role'[q] = "migrate" /\ tx' = tx
  /\ Placed(q)' /\ Chains(q)'
  /\ pc'[q] = "returned" => Told(q)'
  /\ role'[q] = "migrate" /\ pc'[q] # "returned" => Migrates(q, tx[q])'

(* The tables of a statement.                                               *)
LEMMA TableTypes ==
  /\ Created \in Columned /\ NoTable \in Schemas /\ Columned \subseteq Schemas
  /\ \A ts \in [Tables -> Schemas], m \in Models, s \in Schemas :
       [ts EXCEPT ![m] = s] \in [Tables -> Schemas]
<1>1. Created \in [Fields -> {"full", "null"}]
  BY DEF Created
<1>2. QED
  BY <1>1, FieldsAssumption, ModelsAssumption DEF Columned, Schemas

LEMMA SeenTyped ==
  ASSUME DbTypes, NEW q \in Procs
  PROVE  Seen(tx[q]) \in [Tables -> Schemas]
  BY DEF DbTypes, Seen

LEMMA IdTyped ==
  ASSUME TypeOK, NEW q \in Procs
  PROVE  Id(q) \in Ids
  BY DEF TypeOK, Id, Ids

LEMMA SessionExecutes ==
  ASSUME TypeOK, NEW q \in Procs, NEW v, NEW m, m \in Models \/ v \notin {"CREATE", "DROP"},
         Succeeds(q, v, m)
  PROVE  Executes(q)
<1> DEFINE old == Seen(tx[q])  ts == After(old, v, m)
<1>1. DbExec(tx[q], Changes(q, v), ts)
  BY DEF Succeeds, DB
<1>2. old \in [Tables -> Schemas]
  BY SeenTyped, Types
<1>3. ts \in [Tables -> Schemas] /\ Statements(old, ts)
  <2>1. CASE v \notin {"CREATE", "DROP"}
    BY <1>2, <2>1 DEF After, Statements
  <2>2. CASE v \in {"CREATE", "DROP"}
    BY <1>2, <2>2, TableTypes, ModelsAssumption, MigratedAssumption DEF After, Statements
  <2>3. QED
    BY <2>1, <2>2
<1>4. Changes(q, v) \in SUBSET {Id(q)} /\ (Changes(q, v) = {} => ts = old)
  BY DEF Changes, Reads, After
<1>5. QED
  BY <1>1, <1>3, <1>4, IdTyped DEF Executes

(* What the steps of a call of a session leave alone.                       *)
LEMMA CallsTurn ==
  ASSUME TypeOK, NEW q \in Procs, role[q] \in {"session", "transaction"},
         UNCHANGED engineVars, tx' = tx, UNCHANGED dbVars \/ Executes(q),
         OwnTypes', OwnStep(q), Placed(q), Chains(q)',
         pc[q] \in {"idle", "before", "after"}, pc'[q] \in {"idle", "before", "after"}
  PROVE  Turn(q)
<1>1. DbTypes /\ OwnTypes
  BY Types
<1>2. DbStep(q)
  BY DEF DbStep
<1>3. role' = role /\ outcome' = outcome /\ exit' = exit
  BY DEF engineVars
<1>4. Placed(q)'
  <2>1. ASSUME role[q] = "transaction" PROVE tx[q] # None /\ Open(tx[q]) /\ tx[q] \in Txs
    BY <1>1, <2>1 DEF Placed, Transactional, DbTypes
  <2>2. role[q] = "transaction" => Open(tx[q])'
    BY <2>1 DEF dbVars, txVars, Executes, DbExec, Open
  <2>3. QED
    BY <1>3, <2>1, <2>2 DEF Placed, Transactional
<1>5. QED
  BY <1>2, <1>3, <1>4 DEF Turn

LEMMA ModelTurn ==
  ASSUME TypeOK, NEW q \in Procs, Follows(q), role[q] \in {"session", "transaction"},
         NEW m \in Models, Model(q, m), UNCHANGED engineVars
  PROVE  Turn(q)
<1>1. DbTypes /\ OwnTypes /\ Placed(q) /\ Chains(q)
  BY Types DEF Follows
<1>2. pc[q] = "idle" /\ refTable' = [refTable EXCEPT ![q] = m]
      /\ UNCHANGED <<dbVars, pc, tx, clause, callVars, role, exit, outcome, addCols, delCols>>
  BY DEF Model, engineVars
<1>3. OwnTypes'
  BY <1>1, <1>2 DEF OwnTypes, callVars
<1>4. OwnStep(q)
  BY <1>1, <1>2 DEF OwnStep, OwnTypes, callVars
<1>5. Chains(q)'
  BY <1>1, <1>2 DEF Chains, OwnTypes, callVars
<1>6. QED
  BY <1>1, <1>2, <1>3, <1>4, <1>5, CallsTurn

LEMMA WhereTurn ==
  ASSUME TypeOK, NEW q \in Procs, Follows(q), role[q] \in {"session", "transaction"},
         Where(q), UNCHANGED engineVars
  PROVE  Turn(q)
<1>1. DbTypes /\ OwnTypes /\ Placed(q) /\ Chains(q)
  BY Types DEF Follows
<1>2. /\ pc[q] = "idle" /\ clause' = [clause EXCEPT ![q] = call[q] + 1]
      /\ chained' = [chained EXCEPT ![q] = TRUE]
      /\ UNCHANGED <<dbVars, pc, tx, refTable, call, verb, aim, hooked, aborted,
                     role, exit, outcome, addCols, delCols>>
  BY DEF Where, engineVars
<1>3. OwnTypes'
  BY <1>1, <1>2 DEF OwnTypes
<1>4. OwnStep(q)
  BY <1>1, <1>2 DEF OwnStep, OwnTypes
<1>5. Chains(q)'
  BY <1>1, <1>2 DEF Chains, OwnTypes
<1>6. QED
  BY <1>1, <1>2, <1>3, <1>4, <1>5, CallsTurn

LEMMA CallTurn ==
  ASSUME TypeOK, NEW q \in Procs, Follows(q), role[q] \in {"session", "transaction"},
         NEW v \in Verbs, NEW m \in Models, Call(q, v, m), UNCHANGED engineVars
  PROVE  Turn(q)
<1>1. DbTypes /\ OwnTypes /\ Placed(q) /\ Chains(q)
  BY Types DEF Follows
<1>2. /\ pc[q] = "idle" /\ pc' = [pc EXCEPT ![q] = "before"]
      /\ call' = [call EXCEPT ![q] = @ + 1] /\ verb' = [verb EXCEPT ![q] = v]
      /\ aim' = [aim EXCEPT ![q] = IF v \in OfValue THEN m ELSE refTable[q]]
      /\ UNCHANGED <<dbVars, tx, refTable, clause, chained, hooked, aborted,
                     role, exit, outcome, addCols, delCols>>
      /\ refTable[q] # None \/ v = "RAW"
  BY DEF Call, HasModel, Goto, engineVars
<1>3. OwnTypes'
  BY <1>1, <1>2 DEF OwnTypes
<1>4. OwnStep(q)
  BY <1>1, <1>2 DEF OwnStep, OwnTypes
<1>5. Chains(q)'
  BY <1>1, <1>2 DEF Chains, OwnTypes, TableOf
<1>6. QED
  BY <1>1, <1>2, <1>3, <1>4, <1>5, CallsTurn DEF OwnTypes

LEMMA HookTurn ==
  ASSUME TypeOK, NEW q \in Procs, Follows(q), role[q] \in {"session", "transaction"},
         NEW v \in {"INSERT", "COUNT"}, NEW m \in Models, Hook(q, v, m), UNCHANGED engineVars
  PROVE  Turn(q)
<1>1. DbTypes /\ OwnTypes /\ Placed(q) /\ Chains(q)
  BY Types DEF Follows
<1>2. /\ pc[q] \in {"before", "after"} /\ hooked' = [hooked EXCEPT ![q] = TRUE]
      /\ refTable' = [refTable EXCEPT ![q] = m] /\ clause' = [clause EXCEPT ![q] = 0]
      /\ aborted' = [aborted EXCEPT ![q] = {}]
      /\ UNCHANGED <<pc, tx, call, verb, aim, chained, role, exit, outcome, addCols, delCols>>
  BY DEF Hook, Clear, engineVars
<1>3. UNCHANGED dbVars \/ Executes(q)
  BY <1>1, SessionExecutes DEF Hook, DbFails
<1>4. OwnTypes'
  BY <1>1, <1>2 DEF OwnTypes
<1>5. OwnStep(q)
  BY <1>1, <1>2 DEF OwnStep, OwnTypes
<1>6. Chains(q)'
  BY <1>1, <1>2 DEF Chains, OwnTypes
<1>7. QED
  BY <1>1, <1>2, <1>3, <1>4, <1>5, <1>6, CallsTurn

LEMMA RunTurn ==
  ASSUME TypeOK, NEW q \in Procs, Follows(q), role[q] \in {"session", "transaction"},
         Run(q), UNCHANGED engineVars
  PROVE  Turn(q)
<1>1. DbTypes /\ OwnTypes /\ Placed(q) /\ Chains(q)
  BY Types DEF Follows
<1>2. PICK ok \in BOOLEAN : Ends(q, ok) /\ (UNCHANGED dbVars \/ Executes(q))
  <2>1. CASE Succeeds(q, verb[q], Statement(q).table) /\ Ends(q, TRUE)
    <3>1. verb[q] \in {"CREATE", "DROP"} => Statement(q).table \in Models
      BY <1>1 DEF Statement, TableOf, OfValue, Chains
    <3>2. QED
      BY <1>1, <2>1, <3>1, SessionExecutes
  <2>2. CASE DbFails /\ Ends(q, FALSE)
    BY <2>2 DEF DbFails
  <2>3. QED
    BY <2>1, <2>2 DEF Run
<1>3. /\ pc[q] = "before"
      /\ refTable' = [refTable EXCEPT ![q] = IF verb[q] \in OfValue THEN aim[q] ELSE @]
      /\ clause' = [clause EXCEPT ![q] = 0]
      /\ verb' = [verb EXCEPT ![q] = "RAW"] /\ aim' = [aim EXCEPT ![q] = None]
      /\ chained' = [chained EXCEPT ![q] = FALSE] /\ aborted' = [aborted EXCEPT ![q] = {}]
      /\ UNCHANGED <<tx, call, role, exit, outcome, addCols, delCols>>
      /\ \E l \in {"after", "idle"} : pc' = [pc EXCEPT ![q] = l]
      /\ \E h \in BOOLEAN : hooked' = [hooked EXCEPT ![q] = h]
  <2>1. \/ pc' = [pc EXCEPT ![q] = "after"] /\ hooked' = hooked
        \/ pc' = [pc EXCEPT ![q] = "idle"] /\ hooked' = [hooked EXCEPT ![q] = FALSE]
    <3>1. CASE ok /\ verb[q] \in Hooked
      BY <1>2, <3>1 DEF Ends, Goto
    <3>2. CASE ~(ok /\ verb[q] \in Hooked)
      BY <1>2, <3>2 DEF Ends, Goto
    <3>3. QED
      BY <3>1, <3>2
  <2>2. hooked' = hooked => hooked' = [hooked EXCEPT ![q] = hooked[q]] /\ hooked[q] \in BOOLEAN
    BY <1>1 DEF OwnTypes
  <2>3. QED
    BY <1>2, <2>1, <2>2 DEF Run, Ends, Clear, Forgets, engineVars
<1>4. OwnTypes'
  <2>1. "RAW" \in Verbs
    BY DEF Verbs
  <2>2. QED
    BY <1>1, <1>3, <2>1 DEF OwnTypes
<1>5. OwnStep(q)
  BY <1>1, <1>3 DEF OwnStep, OwnTypes
<1>6. Chains(q)'
  BY <1>1, <1>3 DEF Chains, OwnTypes
<1>7. QED
  BY <1>1, <1>2, <1>3, <1>4, <1>5, <1>6, CallsTurn DEF OwnTypes

LEMMA ReturnsTurn ==
  ASSUME TypeOK, NEW q \in Procs, Follows(q), role[q] \in {"session", "transaction"},
         Returns(q), UNCHANGED engineVars
  PROVE  Turn(q)
<1>1. DbTypes /\ OwnTypes /\ Placed(q) /\ Chains(q)
  BY Types DEF Follows
<1>2. /\ pc[q] = "after" /\ pc' = [pc EXCEPT ![q] = "idle"]
      /\ hooked' = [hooked EXCEPT ![q] = FALSE]
      /\ UNCHANGED <<dbVars, tx, refTable, clause, call, verb, aim, chained, aborted,
                     role, exit, outcome, addCols, delCols>>
  BY DEF Returns, Goto, engineVars
<1>3. OwnTypes'
  BY <1>1, <1>2 DEF OwnTypes
<1>4. OwnStep(q)
  BY <1>1, <1>2 DEF OwnStep, OwnTypes
<1>5. Chains(q)'
  BY <1>1, <1>2 DEF Chains, OwnTypes
<1>6. QED
  BY <1>1, <1>2, <1>3, <1>4, <1>5, CallsTurn DEF OwnTypes

(* A panic, whoever recovers from it.                                       *)
LEMMA PanicKeeps ==
  ASSUME TypeOK, NEW q \in Procs, Follows(q), NEW v \in Verbs,
         NEW next \in {"idle", "finish"}, Panics(q, v, next)
  PROVE  /\ pc[q] \in {"idle", "before", "after"} /\ pc' = [pc EXCEPT ![q] = next]
         /\ UNCHANGED <<dbVars, tx, refTable, clause>>
         /\ call' \in [Procs -> Nat] /\ verb' \in [Procs -> Verbs]
         /\ aim' \in [Procs -> Models \cup {None}] /\ chained' \in [Procs -> BOOLEAN]
         /\ hooked' \in [Procs -> BOOLEAN] /\ aborted' \in [Procs -> SUBSET Nat]
         /\ \A p \in Procs \ {q} :
              /\ call'[p] = call[p] /\ verb'[p] = verb[p] /\ aim'[p] = aim[p]
              /\ chained'[p] = chained[p] /\ hooked'[p] = hooked[p] /\ aborted'[p] = aborted[p]
         /\ Chains(q)'
<1>1. OwnTypes /\ Chains(q)
  BY Types DEF Follows
<1>2. /\ pc' = [pc EXCEPT ![q] = next]
      /\ verb' = [verb EXCEPT ![q] = "RAW"] /\ aim' = [aim EXCEPT ![q] = None]
      /\ chained' = [chained EXCEPT ![q] = FALSE] /\ hooked' = [hooked EXCEPT ![q] = FALSE]
      /\ UNCHANGED <<dbVars, tx, refTable, clause>>
  BY DEF Panics, Forgets, Goto
<1>3. "RAW" \in Verbs
  BY DEF Verbs
<1>4. CASE pc[q] = "idle" /\ call' = [call EXCEPT ![q] = @ + 1]
           /\ aborted' = [aborted EXCEPT ![q] = @ \cup {call[q] + 1}]
  BY <1>1, <1>2, <1>3, <1>4 DEF OwnTypes, Chains
<1>5. CASE pc[q] = "before" /\ aborted' = [aborted EXCEPT ![q] = @ \cup {call[q]}]
           /\ UNCHANGED call
  BY <1>1, <1>2, <1>3, <1>5 DEF OwnTypes, Chains
<1>6. CASE pc[q] = "after" /\ UNCHANGED <<call, aborted>>
  BY <1>1, <1>2, <1>3, <1>6 DEF OwnTypes, Chains
<1>7. QED
  BY <1>4, <1>5, <1>6 DEF Panics

LEMMA RecoversTurn ==
  ASSUME TypeOK, NEW q \in Procs, Follows(q), Recovers(q)
  PROVE  Turn(q)
<1>1. DbTypes /\ OwnTypes /\ Placed(q)
  BY Types DEF Follows
<1>2. PICK v \in Verbs : Panics(q, v, "idle")
  BY DEF Recovers
<1>3. UNCHANGED <<role, exit, outcome, addCols, delCols>>
  BY DEF Recovers, engineVars
<1>4. OwnTypes' /\ OwnStep(q)
  BY <1>1, <1>2, <1>3, PanicKeeps DEF OwnTypes, OwnStep
<1>5. QED
  BY <1>1, <1>2, <1>4, PanicKeeps, CallsTurn DEF Recovers, OwnTypes

LEMMA FPanicsTurn ==
  ASSUME TypeOK, NEW q \in Procs, Follows(q), FPanics(q)
  PROVE  Turn(q)
<1>1. DbTypes /\ OwnTypes /\ Placed(q)
  BY Types DEF Follows
<1>2. PICK v \in Verbs : Panics(q, v, "finish")
  BY DEF FPanics
<1>3. role[q] = "transaction" /\ exit' = [exit EXCEPT ![q] = "panic"]
      /\ UNCHANGED <<role, outcome, addCols, delCols>>
  BY DEF FPanics
<1>4. OwnTypes' /\ OwnStep(q)
  BY <1>1, <1>2, <1>3, PanicKeeps DEF OwnTypes, OwnStep
<1>5. DbStep(q)
  BY <1>2, PanicKeeps DEF DbStep
<1>6. Placed(q)'
  BY <1>1, <1>2, <1>3, PanicKeeps DEF Placed, OwnTypes, Open, Transactional, dbVars, txVars
<1>7. QED
  BY <1>1, <1>2, <1>3, <1>4, <1>5, <1>6, PanicKeeps DEF Turn, OwnTypes

-----------------------------------------------------------------------------
(* Transaction, and the transactions of a session.                          *)

LEMMA NewSessionTurn ==
  ASSUME TypeOK, NEW q \in Procs, Follows(q), NewSession(q)
  PROVE  Turn(q)
<1>1. DbTypes /\ OwnTypes /\ Placed(q) /\ Chains(q)
  BY Types DEF Follows
<1>2. /\ pc[q] = "new" /\ pc' = [pc EXCEPT ![q] = "idle"] /\ role' = [role EXCEPT ![q] = "session"]
      /\ UNCHANGED <<dbVars, tx, refTable, clause, callVars, exit, outcome, addCols, delCols>>
  BY DEF NewSession, Becomes, Goto
<1>3. OwnTypes' /\ OwnStep(q)
  BY <1>1, <1>2 DEF OwnTypes, OwnStep, callVars
<1>4. DbStep(q)
  BY <1>2 DEF DbStep
<1>5. Placed(q)'
  BY <1>1, <1>2 DEF Placed, OwnTypes, Transactional
<1>6. Chains(q)'
  BY <1>1, <1>2 DEF Chains, OwnTypes, callVars
<1>7. QED
  BY <1>1, <1>2, <1>3, <1>4, <1>5, <1>6 DEF Turn, Placed, OwnTypes

LEMMA UserTransactsTurn ==
  ASSUME TypeOK, NEW q \in Procs, Follows(q), UserTransacts(q)
  PROVE  Turn(q)
<1>1. DbTypes /\ OwnTypes /\ Placed(q) /\ Chains(q)
  BY Types DEF Follows
<1>2. role[q] = "session" /\ pc[q] = "idle"
      /\ UNCHANGED <<pc, refTable, clause, callVars, role, exit, outcome, addCols, delCols>>
  BY DEF UserTransacts, engineVars
<1>3. OwnTypes' /\ OwnStep(q)
  BY <1>1, <1>2 DEF OwnTypes, OwnStep, callVars
<1>4. DbStep(q)
  BY <1>2 DEF UserTransacts, Begin, BeginFails, Commit, CommitFails, Rollback, DbFails,
              DbStep, Commits
<1>5. Placed(q)'
  BY <1>1, <1>2 DEF Placed, Transactional
<1>6. Chains(q)'
  BY <1>1, <1>2 DEF Chains, callVars, TableOf
<1>7. QED
  BY <1>2, <1>3, <1>4, <1>5, <1>6 DEF Turn

(* A Begin that fails ends Transaction and Migrate.                         *)
LEMMA StartFailsTurn ==
  ASSUME TypeOK, NEW q \in Procs, Follows(q), NEW r \in Transactional, Becomes(q, r),
         StartFails(q), UNCHANGED <<refTable, clause, callVars, exit, addCols, delCols>>
  PROVE  Turn(q)
<1>1. DbTypes /\ OwnTypes /\ Placed(q) /\ Chains(q)
  BY Types DEF Follows
<1>2. /\ pc[q] = "new" /\ pc' = [pc EXCEPT ![q] = "returned"] /\ role' = [role EXCEPT ![q] = r]
      /\ outcome' = [outcome EXCEPT ![q] = "error"]
      /\ UNCHANGED dbVars /\ tx' = [tx EXCEPT ![q] = None]
  BY DEF Becomes, StartFails, BeginFails, DbFails, Goto
<1>3. OwnTypes' /\ OwnStep(q)
  BY <1>1, <1>2 DEF OwnTypes, OwnStep, callVars, Transactional
<1>4. DbStep(q)
  BY <1>2 DEF DbStep
<1>5. Placed(q)'
  BY <1>1, <1>2 DEF Placed, OwnTypes, Transactional
<1>6. Chains(q)'
  BY <1>1, <1>2 DEF Chains, OwnTypes, callVars
<1>7. Told(q)'
  BY <1>1, <1>2 DEF Told, Made, OwnTypes, DbTypes
<1>8. QED
  BY <1>1, <1>2, <1>3, <1>4, <1>5, <1>6, <1>7 DEF Turn, Placed, OwnTypes

LEMMA TransactionTurn ==
  ASSUME TypeOK, NEW q \in Procs, Follows(q), Transaction(q)
  PROVE  Turn(q)
<1>1. DbTypes /\ OwnTypes /\ Placed(q) /\ Chains(q)
  BY Types DEF Follows
<1>2. pc[q] = "new" /\ role' = [role EXCEPT ![q] = "transaction"]
      /\ UNCHANGED <<refTable, clause, callVars, exit, addCols, delCols>>
  BY DEF Transaction, Becomes
<1>3. CASE StartFails(q)
  BY <1>2, <1>3, StartFailsTurn DEF Becomes, Transactional
<1>4. CASE (\E t \in Txs : Begin(q, t)) /\ Goto(q, "idle") /\ UNCHANGED outcome
  <2>1. PICK t \in Txs : DbBegin(t) /\ tx' = [tx EXCEPT ![q] = t]
    BY <1>4 DEF Begin
  <2>2. pc' = [pc EXCEPT ![q] = "idle"] /\ outcome' = outcome
    BY <1>4 DEF Goto
  <2>3. OwnTypes' /\ OwnStep(q)
    BY <1>1, <1>2, <2>2 DEF OwnTypes, OwnStep, callVars, Transactional
  <2>4. tx'[q] = t /\ t # None /\ Open(t)'
    BY <1>1, <2>1, TxsAssumption DEF DbTypes, DbBegin, Open
  <2>5. Placed(q)'
    BY <1>1, <1>2, <2>2, <2>4 DEF Placed, OwnTypes, Open
  <2>6. Chains(q)'
    BY <1>1, <1>2, <2>2 DEF Chains, OwnTypes, callVars
  <2>7. QED
    BY <1>1, <1>2, <2>1, <2>2, <2>3, <2>5, <2>6 DEF Turn, DbStep, Placed, OwnTypes
<1>5. QED
  BY <1>3, <1>4 DEF Transaction

LEMMA FReturnsTurn ==
  ASSUME TypeOK, NEW q \in Procs, Follows(q), FReturns(q)
  PROVE  Turn(q)
<1>1. DbTypes /\ OwnTypes /\ Placed(q) /\ Chains(q)
  BY Types DEF Follows
<1>2. PICK how \in {"nil", "error"} : exit' = [exit EXCEPT ![q] = how]
  BY DEF FReturns, Exits
<1>3. /\ role[q] = "transaction" /\ pc[q] = "idle" /\ pc' = [pc EXCEPT ![q] = "finish"]
      /\ UNCHANGED <<dbVars, tx, refTable, clause, callVars, role, outcome, addCols, delCols>>
  BY DEF FReturns, Exits, Goto
<1>4. OwnTypes' /\ OwnStep(q)
  BY <1>1, <1>2, <1>3 DEF OwnTypes, OwnStep, callVars
<1>5. Placed(q)'
  BY <1>1, <1>2, <1>3 DEF Placed, OwnTypes, Open, dbVars, txVars
<1>6. Chains(q)'
  BY <1>1, <1>3 DEF Chains, OwnTypes, callVars
<1>7. QED
  BY <1>1, <1>3, <1>4, <1>5, <1>6 DEF Turn, DbStep, OwnTypes

LEMMA FinishTurn ==
  ASSUME TypeOK, NEW q \in Procs, Follows(q), Finish(q)
  PROVE  Turn(q)
<1>1. DbTypes /\ OwnTypes /\ Placed(q) /\ Chains(q) /\ Told(q)
  BY Types DEF Follows
<1>2. pc[q] = "finish" /\ UNCHANGED <<refTable, clause, callVars, role, exit, addCols, delCols>>
  BY DEF Finish, Deferred
<1>3. /\ role[q] \in Transactional /\ tx[q] \in Txs /\ tx[q] # None /\ Open(tx[q])
      /\ exit[q] \in {"nil", "error", "panic"} /\ outcome[q] = "none"
  BY <1>1, <1>2 DEF Placed, OwnTypes, DbTypes, Transactional
<1>4. \/ exit[q] = "nil" /\ DbCommit(tx[q]) /\ tx' = tx /\ Comes(q, "ok")
      \/ /\ DbRollback(tx[q]) /\ tx' = tx
         /\ \E o \in {"error", "panic"} : Comes(q, o)
  BY <1>3 DEF Finish, MustRollBack, Rollback, CommitFails, Commit
<1>5. /\ tx' = tx /\ txState'[tx[q]] = "over" /\ made' = made
      /\ \E o \in {"ok", "error", "panic"} :
           /\ outcome' = [outcome EXCEPT ![q] = o] /\ pc' = [pc EXCEPT ![q] = "returned"]
           /\ o = "ok" => exit[q] = "nil" /\ made[tx[q]] \subseteq applied'
           /\ o # "ok" => applied' = applied
  BY <1>1, <1>3, <1>4 DEF Comes, Goto, DbCommit, DbRollback, DbTypes
<1>6. OwnTypes' /\ OwnStep(q)
  BY <1>1, <1>2, <1>5 DEF OwnTypes, OwnStep, callVars
<1>7. DbStep(q)
  BY <1>2, <1>3, <1>4 DEF DbStep, Commits
<1>8. Placed(q)'
  BY <1>1, <1>2, <1>5 DEF Placed, OwnTypes, Transactional
<1>9. Chains(q)'
  BY <1>1, <1>2, <1>5 DEF Chains, OwnTypes, callVars
<1>10. Told(q)'
  BY <1>1, <1>2, <1>3, <1>5 DEF Told, Made, OwnTypes
<1>11. QED
  BY <1>1, <1>2, <1>5, <1>6, <1>7, <1>8, <1>9, <1>10 DEF Turn, OwnTypes

-----------------------------------------------------------------------------
(* Migrate.                                                                 *)

LEMMA MigrateTurn ==
  ASSUME TypeOK, Isolated, NEW q \in Procs, Follows(q), Migrate(q)
  PROVE  Turn(q)
<1>1. DbTypes /\ OwnTypes /\ Placed(q) /\ Chains(q)
  BY Types DEF Follows
<1>2. pc[q] = "new" /\ role' = [role EXCEPT ![q] = "migrate"]
      /\ UNCHANGED <<clause, callVars, exit, addCols, delCols>>
  BY DEF Migrate, Becomes
<1>3. CASE StartFails(q) /\ UNCHANGED refTable
  BY <1>2, <1>3, StartFailsTurn DEF Becomes, Transactional
<1>4. CASE /\ \E t \in Txs : Begin(q, t)
           /\ refTable' = [refTable EXCEPT ![q] = Migrated]
           /\ Goto(q, "hasTable") /\ UNCHANGED outcome
  <2>1. PICK t \in Txs : DbBegin(t) /\ tx' = [tx EXCEPT ![q] = t]
    BY <1>4 DEF Begin
  <2>2. /\ pc' = [pc EXCEPT ![q] = "hasTable"] /\ outcome' = outcome
        /\ refTable' = [refTable EXCEPT ![q] = Migrated] /\ Migrated \in Models
    BY <1>4, MigratedAssumption DEF Goto
  <2>3. OwnTypes' /\ OwnStep(q)
    BY <1>1, <1>2, <2>2 DEF OwnTypes, OwnStep, callVars, Transactional, InMigrate
  <2>4. tx'[q] = t /\ t # None /\ Open(t)' /\ ~touched'[t]
    BY <1>1, <2>1, TxsAssumption DEF DbTypes, DbBegin, Open, Isolated
  <2>5. Placed(q)'
    BY <1>1, <1>2, <2>2, <2>4 DEF Placed, OwnTypes, Open, InMigrate
  <2>6. Chains(q)'
    BY <1>1, <1>2, <2>2 DEF Chains, OwnTypes, callVars
  <2>7. Migrates(q, tx[q])'
    BY <1>1, <2>2, <2>4 DEF Migrates, OwnTypes
  <2>8. QED
    BY <1>1, <1>2, <2>1, <2>2, <2>3, <2>5, <2>6, <2>7 DEF Turn, DbStep, Placed, OwnTypes
<1>5. QED
  BY <1>3, <1>4 DEF Migrate

(* Inside f.                                                                *)
MigrateRest == <<tx, refTable, clause, verb, aim, chained, hooked, aborted, role, outcome>>

LEMMA InsideF ==
  ASSUME TypeOK, Isolated, NEW q \in Procs, Follows(q), pc[q] \in InMigrate
  PROVE  /\ role[q] = "migrate" /\ tx[q] \in Txs /\ tx[q] # None /\ Open(tx[q])
         /\ Migrates(q, tx[q]) /\ Now(q) = Seen(tx[q]) /\ Now(q) \in [Tables -> Schemas]
         /\ ~touched[tx[q]] => made[tx[q]] = {}
         /\ made[tx[q]] = {} => Now(q) = tables
         /\ touched[tx[q]] => Now(q) = view[tx[q]]
<1>1. DbTypes /\ OwnTypes /\ Placed(q)
  BY Types DEF Follows
<1>2. role[q] = "migrate" /\ pc[q] # "returned"
  BY <1>1 DEF Placed, InMigrate, OwnTypes, Transactional
<1>3. tx[q] \in Txs /\ tx[q] # None /\ Open(tx[q]) /\ Migrates(q, tx[q])
  BY <1>1, <1>2 DEF Placed, DbTypes, Transactional, Follows
<1>4. QED
  BY <1>1, <1>2, <1>3, SeenTyped DEF Now, DB, Seen, Isolated

LEMMA ExecOfF ==
  ASSUME TypeOK, Isolated, NEW q \in Procs, Follows(q), pc[q] \in InMigrate,
         NEW ts \in [Tables -> Schemas], MigrateExec(q, ts)
  PROVE  /\ Executes(q) /\ call' = [call EXCEPT ![q] = @ + 1]
         /\ tables' = tables /\ touched'[tx[q]] /\ view'[tx[q]] = ts
<1>1. tx[q] \in Txs /\ tx[q] # None /\ role[q] = "migrate"
  BY InsideF
<1>2. DbExec(tx[q], {Id(q)}, ts)
  BY DEF MigrateExec, DB
<1>3. tables' = tables /\ touched'[tx[q]] /\ view'[tx[q]] = ts
  BY <1>1, <1>2 DEF DbExec, TypeOK
<1>4. Executes(q)
  BY <1>1, <1>2, IdTyped DEF Executes
<1>5. QED
  BY <1>3, <1>4 DEF MigrateExec

LEMMA ReadOfF ==
  ASSUME TypeOK, Isolated, NEW q \in Procs, Follows(q), pc[q] \in InMigrate, MigrateReads(q)
  PROVE  /\ Executes(q) /\ UNCHANGED <<call, tables>>
         /\ touched'[tx[q]] /\ view'[tx[q]] = Now(q) /\ made'[tx[q]] = made[tx[q]]
<1>1. tx[q] \in Txs /\ tx[q] # None /\ role[q] = "migrate" /\ Now(q) = Seen(tx[q])
      /\ Now(q) \in [Tables -> Schemas]
  BY InsideF
<1>2. DbExec(tx[q], {}, Now(q))
  BY DEF MigrateReads, DB
<1>3. tables' = tables /\ touched'[tx[q]] /\ view'[tx[q]] = Now(q) /\ made'[tx[q]] = made[tx[q]]
  BY <1>1, <1>2 DEF DbExec, TypeOK
<1>4. Executes(q)
  BY <1>1, <1>2, IdTyped DEF Executes
<1>5. QED
  BY <1>3, <1>4 DEF MigrateReads

LEMMA FTurn ==
  ASSUME TypeOK, Isolated, NEW q \in Procs, Follows(q), pc[q] \in InMigrate,
         UNCHANGED MigrateRest, UNCHANGED dbVars \/ Executes(q),
         NEW l \in InMigrate \cup {"finish"}, pc' = [pc EXCEPT ![q] = l],
         call' = call \/ call' = [call EXCEPT ![q] = @ + 1],
         NEW x \in {"none", "nil", "error", "panic"}, exit' = [exit EXCEPT ![q] = x],
         l = "finish" => x # "none",
         NEW A \in SUBSET Columns, addCols' = [addCols EXCEPT ![q] = A],
         NEW D \in SUBSET Columns, delCols' = [delCols EXCEPT ![q] = D],
         Migrates(q, tx[q])'
  PROVE  Turn(q)
<1>1. DbTypes /\ OwnTypes /\ Placed(q) /\ Chains(q)
  BY Types DEF Follows
<1>2. role[q] = "migrate" /\ tx[q] \in Txs /\ tx[q] # None /\ Open(tx[q])
  BY InsideF
<1>3. UNCHANGED <<tx, refTable, clause, verb, aim, chained, hooked, aborted, role, outcome>>
  BY DEF MigrateRest
<1>4. OwnTypes' /\ OwnStep(q)
  BY <1>1, <1>3 DEF OwnTypes, OwnStep
<1>5. DbStep(q)
  BY <1>3 DEF DbStep
<1>6. Open(tx[q])'
  BY <1>2, <1>3 DEF Open, dbVars, txVars, Executes, DbExec
<1>7. Placed(q)'
  BY <1>1, <1>2, <1>3, <1>6 DEF Placed, OwnTypes, InMigrate, Open
<1>8. Chains(q)'
  BY <1>1, <1>3 DEF Chains, OwnTypes, InMigrate
<1>9. QED
  BY <1>1, <1>3, <1>4, <1>5, <1>7, <1>8 DEF Turn, OwnTypes, InMigrate

LEMMA Same ==
  ASSUME OwnTypes, NEW q \in Procs
  PROVE  /\ exit = [exit EXCEPT ![q] = exit[q]] /\ exit[q] \in {"none", "nil", "error", "panic"}
         /\ addCols = [addCols EXCEPT ![q] = addCols[q]] /\ addCols[q] \in SUBSET Columns
         /\ delCols = [delCols EXCEPT ![q] = delCols[q]] /\ delCols[q] \in SUBSET Columns
         /\ pc = [pc EXCEPT ![q] = pc[q]] /\ DOMAIN pc = Procs
  BY DEF OwnTypes

(* f goes on.                                                               *)
LEMMA FGoesOn ==
  ASSUME TypeOK, Isolated, NEW q \in Procs, Follows(q), pc[q] \in InMigrate,
         UNCHANGED MigrateRest, UNCHANGED exit, UNCHANGED dbVars \/ Executes(q),
         NEW l \in InMigrate, pc' = [pc EXCEPT ![q] = l],
         call' = call \/ call' = [call EXCEPT ![q] = @ + 1],
         NEW A \in SUBSET Columns, addCols' = [addCols EXCEPT ![q] = A],
         NEW D \in SUBSET Columns, delCols' = [delCols EXCEPT ![q] = D],
         Migrates(q, tx[q])'
  PROVE  Turn(q)
<1>1. exit' = [exit EXCEPT ![q] = exit[q]] /\ exit[q] \in {"none", "nil", "error", "panic"}
  BY Types, Same
<1>2. l # "finish" /\ l \in InMigrate \cup {"finish"}
  BY DEF InMigrate
<1>3. QED
  BY <1>1, <1>2, FTurn

LEMMA HasTableTurn ==
  ASSUME TypeOK, Isolated, NEW q \in Procs, Follows(q), HasTable(q), UNCHANGED MigrateRest
  PROVE  Turn(q)
<1> DEFINE t == tx[q]
<1>1. OwnTypes /\ DbTypes /\ pc[q] = "hasTable" /\ pc[q] \in InMigrate
      /\ UNCHANGED <<exit, addCols, delCols, tx>>
  BY Types DEF HasTable, InMigrate, MigrateRest
<1>2. t \in Txs /\ ~touched[t] /\ made[t] = {} /\ Now(q) = tables
  BY <1>1, InsideF DEF Migrates
<1>3. CASE MigrateReads(q) /\ Goto(q, IF Now(q)[Migrated] # NoTable THEN "columns" ELSE "create")
  <2>1. PICK l \in {"columns", "create"} :
          pc' = [pc EXCEPT ![q] = l] /\ (l = "columns" => tables[Migrated] # NoTable)
    BY <1>2, <1>3 DEF Goto
  <2>2. Executes(q) /\ UNCHANGED <<call, tables>> /\ touched'[t] /\ made'[t] = {}
    BY <1>1, <1>2, <1>3, ReadOfF
  <2>3. Migrates(q, tx[q])'
    BY <1>1, <2>1, <2>2, Same DEF Migrates
  <2>4. QED
    BY <1>1, <2>1, <2>2, <2>3, Same, FTurn DEF InMigrate
<1>4. CASE MigrateFails(q) /\ Goto(q, "create")
  <2>1. pc' = [pc EXCEPT ![q] = "create"] /\ UNCHANGED dbVars /\ call' = call
    BY <1>4 DEF MigrateFails, DbFails, Goto
  <2>2. pc'[q] = "create" /\ tx'[q] = t /\ made'[t] = {}
    BY <1>1, <1>2, <2>1, Same DEF dbVars, txVars
  <2>3. Migrates(q, tx[q])'
    BY <2>2 DEF Migrates
  <2>4. QED
    <3>1. addCols' = [addCols EXCEPT ![q] = addCols[q]] /\ delCols' = [delCols EXCEPT ![q] = delCols[q]]
          /\ addCols[q] \in SUBSET Columns /\ delCols[q] \in SUBSET Columns
      BY <1>1, Same
    <3>2. "create" \in InMigrate /\ exit' = exit
      BY <1>1 DEF InMigrate
    <3>3. QED
      BY <1>1, <2>1, <2>3, <3>1, <3>2, FGoesOn
<1>5. QED
  BY <1>3, <1>4 DEF HasTable

(* f ends with an error or a panic.                                         *)
LEMMA FFails ==
  ASSUME TypeOK, Isolated, NEW q \in Procs, Follows(q), pc[q] \in InMigrate,
         UNCHANGED MigrateRest, UNCHANGED <<addCols, delCols>>,
         UNCHANGED dbVars \/ Executes(q), call' = call \/ call' = [call EXCEPT ![q] = @ + 1],
         NEW x \in {"error", "panic"}, Exits(q, x)
  PROVE  Turn(q)
<1>1. OwnTypes
  BY Types
<1>2. pc' = [pc EXCEPT ![q] = "finish"] /\ exit' = [exit EXCEPT ![q] = x]
  BY DEF Exits, Goto
<1>3. Migrates(q, tx[q])'
  BY <1>1, <1>2 DEF Migrates, OwnTypes
<1>4. QED
  BY <1>1, <1>2, <1>3, Same, FTurn

LEMMA CreateTableTurn ==
  ASSUME TypeOK, Isolated, NEW q \in Procs, Follows(q), CreateTable(q), UNCHANGED MigrateRest
  PROVE  Turn(q)
<1> DEFINE t == tx[q]
<1>1. OwnTypes /\ DbTypes /\ pc[q] = "create" /\ pc[q] \in InMigrate
      /\ UNCHANGED <<addCols, delCols, tx>>
  BY Types DEF CreateTable, InMigrate, MigrateRest
<1>2. t \in Txs /\ Now(q) = tables /\ Now(q) \in [Tables -> Schemas]
  BY <1>1, InsideF DEF Migrates
<1>3. CASE /\ Now(q)[Migrated] = NoTable
           /\ MigrateExec(q, [Now(q) EXCEPT ![Migrated] = Created])
           /\ Exits(q, "nil")
  <2> DEFINE ts == [Now(q) EXCEPT ![Migrated] = Created]
  <2>1. ts \in [Tables -> Schemas]
    BY <1>2, TableTypes, MigratedAssumption
  <2>2. Executes(q) /\ call' = [call EXCEPT ![q] = @ + 1] /\ tables' = tables /\ view'[t] = ts
    BY <1>1, <1>3, <2>1, ExecOfF
  <2>3. pc' = [pc EXCEPT ![q] = "finish"] /\ exit' = [exit EXCEPT ![q] = "nil"]
    BY <1>3 DEF Exits, Goto
  <2>4. Elsewhere(t)' /\ Keeps(tables[Migrated], view[t][Migrated])'
    BY <1>1, <1>2, <1>3, <2>2, MigratedAssumption, ModelsAssumption DEF Elsewhere, Keeps, Created
  <2>5. Migrates(q, tx[q])'
    BY <1>1, <2>3, <2>4, Same DEF Migrates
  <2>6. QED
    BY <1>1, <2>2, <2>3, <2>5, Same, FTurn
<1>4. CASE MigrateFails(q) /\ Exits(q, "error")
  BY <1>1, <1>4, FFails DEF MigrateFails, DbFails
<1>5. QED
  BY <1>3, <1>4 DEF CreateTable

LEMMA CompareColumnsTurn ==
  ASSUME TypeOK, Isolated, NEW q \in Procs, Follows(q), CompareColumns(q), UNCHANGED MigrateRest
  PROVE  Turn(q)
<1> DEFINE t == tx[q]  old == tables[Migrated]
<1>1. OwnTypes /\ DbTypes /\ pc[q] = "columns" /\ pc[q] \in InMigrate /\ tx' = tx
  BY Types DEF CompareColumns, InMigrate, MigrateRest
<1>2. /\ t \in Txs /\ made[t] = {} /\ Now(q) = tables /\ old # NoTable
  BY <1>1, InsideF DEF Migrates
<1>3. old \in Columned /\ DOMAIN old \in SUBSET Columns
  <2>1. old \in Columned
    BY <1>1, <1>2, MigratedAssumption, ModelsAssumption DEF DbTypes, Schemas
  <2>2. QED
    BY <2>1 DEF Columned
<1>4. CASE /\ MigrateReads(q)
           /\ addCols' = [addCols EXCEPT ![q] = Fields \ DOMAIN Now(q)[Migrated]]
           /\ delCols' = [delCols EXCEPT ![q] = DOMAIN Now(q)[Migrated] \ Fields]
           /\ Goto(q, "addColumns") /\ UNCHANGED exit
  <2>1. Executes(q) /\ UNCHANGED <<call, tables>> /\ touched'[t] /\ view'[t] = tables
        /\ made'[t] = {}
    BY <1>1, <1>2, <1>4, ReadOfF
  <2>2. pc' = [pc EXCEPT ![q] = "addColumns"]
    BY <1>4 DEF Goto
  <2>3. /\ addCols' = [addCols EXCEPT ![q] = Fields \ DOMAIN old]
        /\ delCols' = [delCols EXCEPT ![q] = DOMAIN old \ Fields]
    BY <1>2, <1>4
  <2>4. pc'[q] = "addColumns" /\ addCols'[q] = Fields \ DOMAIN old
        /\ delCols'[q] = DOMAIN old \ Fields
    BY <1>1, <2>2, <2>3 DEF OwnTypes
  <2>5. Compared(q, t)'
    BY <1>1, <1>2, <1>3, <2>1, <2>4 DEF Compared, Elsewhere
  <2>6. Migrates(q, tx[q])'
    BY <1>1, <2>4, <2>5 DEF Migrates
  <2>7. Fields \ DOMAIN old \in SUBSET Columns /\ DOMAIN old \ Fields \in SUBSET Columns
        /\ "addColumns" \in InMigrate
    BY <1>3, FieldsAssumption DEF InMigrate
  <2>8. QED
    BY <1>1, <1>4, <2>1, <2>2, <2>3, <2>6, <2>7, FGoesOn
<1>5. CASE MigrateFails(q) /\ Exits(q, "panic") /\ UNCHANGED <<addCols, delCols>>
  BY <1>1, <1>5, FFails DEF MigrateFails, DbFails
<1>6. QED
  BY <1>4, <1>5 DEF CompareColumns

LEMMA AddColumnTurn ==
  ASSUME TypeOK, Isolated, NEW q \in Procs, Follows(q), AddColumn(q), UNCHANGED MigrateRest
  PROVE  Turn(q)
<1> DEFINE t == tx[q]  old == tables[Migrated]  new == view[t][Migrated]
<1>1. OwnTypes /\ DbTypes /\ pc[q] = "addColumns" /\ pc[q] \in InMigrate /\ tx' = tx
      /\ delCols' = delCols
  BY Types DEF AddColumn, InMigrate, MigrateRest
<1>2. t \in Txs /\ Compared(q, t) /\ Now(q) = view[t] /\ view[t] \in [Tables -> Schemas]
  BY <1>1, InsideF DEF Migrates, Compared
<1>3. PICK c \in addCols[q] :
        \/ /\ MigrateExec(q, [Now(q) EXCEPT ![Migrated] = Added(@, c)])
           /\ addCols' = [addCols EXCEPT ![q] = @ \ {c}]
           /\ UNCHANGED <<pc, exit>>
        \/ MigrateFails(q) /\ Exits(q, "error") /\ UNCHANGED addCols
  BY DEF AddColumn
<1>4. c \in Fields \ DOMAIN old /\ c \in Columns
  BY <1>2, FieldsAssumption DEF Compared
<1>5. CASE /\ MigrateExec(q, [Now(q) EXCEPT ![Migrated] = Added(@, c)])
           /\ addCols' = [addCols EXCEPT ![q] = @ \ {c}]
           /\ UNCHANGED <<pc, exit>>
  <2> DEFINE wide == Added(new, c)  ts == [view[t] EXCEPT ![Migrated] = wide]
  <2>1. /\ DOMAIN wide = DOMAIN new \cup {c} /\ wide \in Columned
        /\ \A d \in DOMAIN new : d # c => wide[d] = new[d]
    <3>1. PICK C \in SUBSET Columns : new \in [C -> {"full", "null"}]
      BY <1>2 DEF Compared, Columned
    <3>2. wide \in [C \cup {c} -> {"full", "null"}] /\ C \cup {c} \in SUBSET Columns
      BY <1>4, <3>1 DEF Added
    <3>3. wide \in Columned
      BY <3>2 DEF Columned
    <3>4. QED
      BY <3>3 DEF Added
  <2>2. Migrated \in Tables
    BY MigratedAssumption, ModelsAssumption
  <2>3. ts \in [Tables -> Schemas] /\ MigrateExec(q, ts)
    BY <1>2, <1>5, <2>1, <2>2 DEF Schemas
  <2>4. Executes(q) /\ call' = [call EXCEPT ![q] = @ + 1] /\ tables' = tables
        /\ touched'[t] /\ view'[t] = ts
    BY <1>1, <2>3, ExecOfF
  <2>5. pc'[q] = "addColumns" /\ addCols'[q] = addCols[q] \ {c} /\ delCols'[q] = delCols[q]
    BY <1>1, <1>5 DEF OwnTypes
  <2>6. view'[t][Migrated] = wide /\ \A x \in Tables \ {Migrated} : view'[t][x] = view[t][x]
    BY <1>2, <2>2, <2>4
  <2>7. Elsewhere(t)'
    BY <1>1, <1>2, <2>4, <2>6 DEF Compared, Elsewhere
  <2>8. /\ DOMAIN old \subseteq DOMAIN wide /\ \A d \in DOMAIN old : wide[d] = old[d]
        /\ DOMAIN wide = DOMAIN old \cup (Fields \ (addCols[q] \ {c}))
    BY <1>1, <1>2, <1>4, <2>1 DEF Compared
  <2>9. Compared(q, t)'
    BY <1>1, <1>2, <2>1, <2>4, <2>5, <2>6, <2>7, <2>8 DEF Compared
  <2>10. Migrates(q, tx[q])'
    BY <1>1, <2>5, <2>9 DEF Migrates
  <2>11. pc' = [pc EXCEPT ![q] = "addColumns"] /\ "addColumns" \in InMigrate
         /\ addCols' = [addCols EXCEPT ![q] = addCols[q] \ {c}]
         /\ delCols' = [delCols EXCEPT ![q] = delCols[q]]
         /\ addCols[q] \ {c} \in SUBSET Columns /\ delCols[q] \in SUBSET Columns
    BY <1>1, <1>5 DEF OwnTypes, InMigrate
  <2>12. QED
    BY <1>1, <1>5, <2>4, <2>10, <2>11, FGoesOn
<1>6. CASE MigrateFails(q) /\ Exits(q, "error") /\ UNCHANGED addCols
  BY <1>1, <1>6, FFails DEF MigrateFails, DbFails
<1>7. QED
  BY <1>3, <1>5, <1>6

LEMMA ColumnsAddedTurn ==
  ASSUME TypeOK, Isolated, NEW q \in Procs, Follows(q), ColumnsAdded(q), UNCHANGED MigrateRest
  PROVE  Turn(q)
<1> DEFINE t == tx[q]  old == tables[Migrated]  new == view[t][Migrated]
<1>1. OwnTypes /\ DbTypes /\ pc[q] = "addColumns" /\ pc[q] \in InMigrate /\ addCols[q] = {}
      /\ UNCHANGED dbVars /\ UNCHANGED <<tx, call, addCols, delCols>>
  BY Types DEF ColumnsAdded, InMigrate, MigrateRest
<1>2. t \in Txs /\ Compared(q, t)
  BY <1>1, InsideF DEF Migrates
<1>3. DOMAIN new = DOMAIN old \cup Fields
  BY <1>1, <1>2 DEF Compared
<1>4. CASE delCols[q] = {} /\ Exits(q, "nil")
  <2>1. pc' = [pc EXCEPT ![q] = "finish"] /\ exit' = [exit EXCEPT ![q] = "nil"]
    BY <1>4 DEF Exits, Goto
  <2>2. Elsewhere(t) /\ Keeps(old, new)
    BY <1>2, <1>3, <1>4 DEF Compared, Keeps
  <2>3. (Elsewhere(t) /\ Keeps(tables[Migrated], view[t][Migrated]))'
    BY <1>1, <2>2 DEF Elsewhere, dbVars, txVars
  <2>4. Migrates(q, tx[q])'
    BY <1>1, <2>1, <2>3, Same DEF Migrates
  <2>5. QED
    BY <1>1, <2>1, <2>4, Same, FTurn
<1>5. CASE delCols[q] # {} /\ Goto(q, "swap") /\ UNCHANGED exit
  <2>1. pc' = [pc EXCEPT ![q] = "swap"] /\ "swap" \in InMigrate
    BY <1>5 DEF Goto, InMigrate
  <2>2. pc'[q] = "swap"
    BY <1>1, <2>1, Same
  <2>3. Compared(q, t)'
    BY <1>1, <1>2, <1>3, <2>2 DEF Compared, Elsewhere, dbVars, txVars
  <2>4. Migrates(q, tx[q])'
    BY <1>1, <2>2, <2>3 DEF Migrates
  <2>5. QED
    BY <1>1, <1>5, <2>1, <2>4, Same, FGoesOn
<1>6. QED
  BY <1>4, <1>5 DEF ColumnsAdded

LEMMA SwapTurn ==
  ASSUME TypeOK, Isolated, NEW q \in Procs, Follows(q), Swap(q), UNCHANGED MigrateRest
  PROVE  Turn(q)
<1> DEFINE t == tx[q]  old == tables[Migrated]  new == view[t][Migrated]
           copy == [c \in Fields |-> new[c]]
<1>1. OwnTypes /\ DbTypes /\ pc[q] = "swap" /\ pc[q] \in InMigrate
      /\ UNCHANGED <<tx, addCols, delCols>>
  BY Types DEF Swap, InMigrate, MigrateRest
<1>2. t \in Txs /\ Compared(q, t) /\ Now(q) = view[t] /\ view[t] \in [Tables -> Schemas]
      /\ Fields \subseteq DOMAIN new
  BY <1>1, InsideF DEF Migrates, Compared
<1>3. copy \in Columned
  <2>1. PICK C \in SUBSET Columns : new \in [C -> {"full", "null"}]
    BY <1>2 DEF Compared, Columned
  <2>2. copy \in [Fields -> {"full", "null"}]
    BY <1>2, <2>1
  <2>3. QED
    BY <2>2, FieldsAssumption DEF Columned
<1>4. Migrated \in Tables /\ Tmp \in Tables /\ Tmp # Migrated
  BY MigratedAssumption, ModelsAssumption
<1>5. ASSUME NEW n \in 1..3, MigrateExec(q, Swapped(Now(q), n)), Exits(q, Error(n))
      PROVE  Turn(q)
  <2> DEFINE ts == Swapped(view[t], n)
  <2>1. /\ ts = [view[t] EXCEPT ![Tmp] = IF n \in {1, 2} THEN copy ELSE @,
                   ![Migrated] = IF n = 2 THEN NoTable ELSE IF n = 3 THEN copy ELSE @]
        /\ ts \in [Tables -> Schemas]
    BY <1>2, <1>3, <1>4 DEF Swapped, Schemas
  <2>2. Executes(q) /\ call' = [call EXCEPT ![q] = @ + 1] /\ tables' = tables
        /\ touched'[t] /\ view'[t] = ts
    BY <1>1, <1>2, <1>5, <2>1, ExecOfF
  <2>3. CASE n # 3
    BY <1>1, <1>5, <2>2, <2>3, FFails DEF Error
  <2>4. CASE n = 3
    <3>1. pc' = [pc EXCEPT ![q] = "finish"] /\ exit' = [exit EXCEPT ![q] = "nil"]
      BY <1>5, <2>4 DEF Exits, Goto, Error
    <3>2. ts[Migrated] = copy /\ \A x \in Tables \ {Migrated} : ts[x] = view[t][x]
      BY <1>2, <1>4, <2>1, <2>4
    <3>3. Elsewhere(t)'
      BY <1>1, <1>2, <2>2, <3>2 DEF Compared, Elsewhere
    <3>4. Keeps(old, copy)
      BY <1>2 DEF Compared, Keeps
    <3>5. Keeps(tables[Migrated], view[t][Migrated])'
      BY <1>1, <2>2, <3>2, <3>4
    <3>6. Migrates(q, tx[q])'
      BY <1>1, <3>1, <3>3, <3>5, Same DEF Migrates
    <3>7. QED
      BY <1>1, <2>2, <3>1, <3>6, Same, FTurn
  <2>5. QED
    BY <2>3, <2>4
<1>6. CASE MigrateFails(q) /\ Exits(q, "error")
  BY <1>1, <1>6, FFails DEF MigrateFails, DbFails
<1>7. QED
  BY <1>5, <1>6 DEF Swap

-----------------------------------------------------------------------------
(* The invariant.                                                           *)

LEMMA InvInit == Init => Inv
<1> SUFFICES ASSUME Init PROVE Inv
  OBVIOUS
<1> USE TxsAssumption, OldTablesAssumption, MigratedAssumption, ModelsAssumption
    DEF Init, DbInit, SessionInit
<1>1. TypeOK
  BY DEF TypeOK, Verbs, InMigrate, Transactional
<1>2. Owned /\ Isolated /\ Marked
  BY DEF Owned, Isolated, Marked, Open
<1>3. Whole
  BY DEF Whole
<1>4. ASSUME NEW p \in Procs PROVE Follows(p)
  BY DEF Follows, Placed, Chains, Told, InMigrate, Transactional, Made
<1>5. QED
  BY <1>1, <1>2, <1>3, <1>4 DEF Inv

LEMMA StepTurns ==
  ASSUME Inv, Next
  PROVE  \E q \in Procs : Turn(q)
<1>1. PICK q \in Procs :
        \/ NewSession(q) \/ Transaction(q) \/ Migrate(q)
        \/ UserTransacts(q) \/ Session(q) \/ Recovers(q)
        \/ FReturns(q) \/ FPanics(q) \/ MigrateStep(q) \/ Finish(q)
  BY DEF Next
<1>2. TypeOK /\ Isolated /\ Follows(q)
  BY DEF Inv
<1>3. CASE Session(q)
  <2>1. role[q] \in {"session", "transaction"} /\ SessionStep(q) /\ UNCHANGED engineVars
    BY <1>3 DEF Session
  <2>2. ASSUME NEW m \in Models, Model(q, m) PROVE Turn(q)
    BY <1>2, <2>1, <2>2, ModelTurn
  <2>3. CASE Where(q)
    BY <1>2, <2>1, <2>3, WhereTurn
  <2>4. ASSUME NEW v \in Verbs, NEW m \in Models, Call(q, v, m) PROVE Turn(q)
    BY <1>2, <2>1, <2>4, CallTurn
  <2>5. ASSUME NEW v \in {"INSERT", "COUNT"}, NEW m \in Models, Hook(q, v, m) PROVE Turn(q)
    BY <1>2, <2>1, <2>5, HookTurn
  <2>6. CASE Run(q)
    BY <1>2, <2>1, <2>6, RunTurn
  <2>7. CASE Returns(q)
    BY <1>2, <2>1, <2>7, ReturnsTurn
  <2>8. QED
    BY <2>1, <2>2, <2>3, <2>4, <2>5, <2>6, <2>7 DEF SessionStep
<1>4. CASE MigrateStep(q)
  <2>1. UNCHANGED MigrateRest
    BY <1>4 DEF MigrateStep, MigrateRest
  <2>2. CASE HasTable(q) \/ CreateTable(q) \/ CompareColumns(q)
    BY <1>2, <2>1, <2>2, HasTableTurn, CreateTableTurn, CompareColumnsTurn
  <2>3. CASE AddColumn(q) \/ ColumnsAdded(q) \/ Swap(q)
    BY <1>2, <2>1, <2>3, AddColumnTurn, ColumnsAddedTurn, SwapTurn
  <2>4. QED
    BY <1>4, <2>2, <2>3 DEF MigrateStep
<1>5. CASE NewSession(q) \/ Transaction(q) \/ Migrate(q)
  BY <1>2, <1>5, NewSessionTurn, TransactionTurn, MigrateTurn
<1>6. CASE UserTransacts(q) \/ Recovers(q)
  BY <1>2, <1>6, UserTransactsTurn, RecoversTurn
<1>7. CASE FReturns(q) \/ FPanics(q) \/ Finish(q)
  BY <1>2, <1>7, FReturnsTurn, FPanicsTurn, FinishTurn
<1>8. QED
  BY <1>1, <1>3, <1>4, <1>5, <1>6, <1>7

(* What it comes to for everybody.                                          *)
LEMMA TurnKeeps ==
  ASSUME Inv, NEW q \in Procs, Turn(q)
  PROVE  /\ Inv'
         /\ tables'[Tmp] = NoTable /\ \A m \in Models : Keeps(tables[m], tables'[m])
<1>1. DbTypes /\ Owned /\ Isolated /\ Marked /\ Whole /\ \A p \in Procs : Follows(p)
  BY Types DEF Inv
<1>2. OwnTypes' /\ OwnStep(q) /\ DbStep(q) /\ (role[q] = "migrate" => role'[q] = "migrate" /\ tx' = tx)
  BY DEF Turn
<1>3. TypeOK'
  <2>1. DbTypes'
    BY <1>1, <1>2, DbTyped
  <2>2. QED
    BY <1>2, <2>1 DEF TypeOK, DbTypes, OwnTypes
<1>4. Owned' /\ Isolated' /\ Marked'
  BY <1>1, <1>2, DbInvariants
<1>5. Whole' /\ tables'[Tmp] = NoTable /\ \A m \in Models : Keeps(tables[m], tables'[m])
  BY <1>1, <1>2, TablesKept DEF Follows
<1>6. Follows(q)'
  <2>1. Placed(q)' /\ Chains(q)' /\ (pc'[q] = "returned" => Told(q)')
        /\ (role'[q] = "migrate" /\ pc'[q] # "returned" => Migrates(q, tx[q])')
    BY DEF Turn
  <2>2. ASSUME pc'[q] # "returned" PROVE Told(q)'
    <3> SUFFICES ASSUME role'[q] \in Transactional
                 PROVE  outcome'[q] = "none" /\ Made(q)' \cap applied' = {}
      BY <2>2 DEF Told
    <3>1. outcome'[q] = "none" /\ tx'[q] # None /\ Open(tx[q])'
      BY <2>1, <2>2 DEF Placed
    <3>2. tx'[q] \in Txs
      BY <1>3, <3>1 DEF TypeOK
    <3>3. \A x \in made'[tx'[q]] : x.tx = tx'[q]
      BY <1>4, <3>2 DEF Marked
    <3>4. \A x \in applied' : x.tx # tx'[q]
      BY <1>4, <3>1 DEF Marked, Open
    <3>5. QED
      BY <3>1, <3>3, <3>4 DEF Made
  <2>3. QED
    BY <2>1, <2>2 DEF Follows
<1>7. ASSUME NEW p \in Procs, p # q PROVE Follows(p)'
  BY <1>1, <1>2, <1>7, OthersKept
<1>8. QED
  BY <1>3, <1>4, <1>5, <1>6, <1>7 DEF Inv

LEMMA InvStutter ==
  ASSUME Inv, UNCHANGED vars
  PROVE  Inv'
<1>1. /\ UNCHANGED <<tables, applied, txState, touched, view, made>>
      /\ UNCHANGED <<pc, tx, refTable, clause, call, verb, aim, chained, hooked, aborted>>
      /\ UNCHANGED <<role, exit, outcome, addCols, delCols>>
  BY DEF vars, dbVars, txVars, sessionVars, callVars, engineVars
<1>2. TypeOK' /\ Owned' /\ Isolated' /\ Marked' /\ Whole'
  BY <1>1 DEF Inv, TypeOK, Owned, Isolated, Marked, Whole, Open
<1>3. ASSUME NEW p \in Procs PROVE Follows(p)'
  <2>1. Placed(p)' /\ Chains(p)' /\ Told(p)'
    BY <1>1 DEF Inv, Follows, Placed, Chains, Told, Open, TableOf, Made
  <2>2. role[p] = "migrate" /\ pc[p] # "returned" => Migrates(p, tx[p])'
    BY <1>1 DEF Inv, Follows, Migrates, Compared, Elsewhere
  <2>3. QED
    BY <1>1, <2>1, <2>2 DEF Follows
<1>4. QED
  BY <1>2, <1>3 DEF Inv

LEMMA InvStep ==
  ASSUME Inv, [Next]_vars
  PROVE  Inv'
  BY StepTurns, TurnKeeps, InvStutter

THEOREM Invariance == Spec => []Inv
<1>1. Init => Inv
  BY InvInit
<1>2. Inv /\ [Next]_vars => Inv'
  BY InvStep
<1>3. QED
  BY <1>1, <1>2, PTL DEF Spec

-----------------------------------------------------------------------------
(* Every variable keeps its type.                                           *)
THEOREM TypeCorrect == Spec => []TypeOK
<1>1. Inv => TypeOK
  BY DEF Inv
<1>2. QED
  BY <1>1, Invariance, PTL

(* What Transaction and Migrate report is what happened in the database.    *)
THEOREM ReportsTrue == Spec => []ResultTells
<1>1. Inv => ResultTells
  BY DEF Inv, Follows, ResultTells
<1>2. QED
  BY <1>1, Invariance, PTL

(* A statement is built with the condition chained for it, on the table its *)
(* caller means, and with no condition of another statement that was run.   *)
THEOREM Chained == Spec => StatementAsChained
<1> DEFINE Meant(p) ==
      LET st == Statement(p) IN
        /\ ~hooked[p] =>
             /\ st.table = aim[p]
             /\ chained[p] /\ verb[p] \in {"SELECT", "UPDATE", "DELETE", "COUNT"} =>
                  st.where = call[p]
        /\ st.where \in {0, call[p]} \cup aborted[p]
<1>1. Inv => [\A p \in Procs : Run(p) => Meant(p)]_vars
  <2> SUFFICES ASSUME Inv, NEW p \in Procs, Run(p) PROVE Meant(p)
    OBVIOUS
  <2>1. pc[p] = "before" /\ Chains(p)
    BY DEF Run, Inv, Follows
  <2>2. clause[p] \in {0, call[p]} \cup aborted[p]
        /\ (~hooked[p] => (chained[p] => clause[p] = call[p]) /\ TableOf(p) = aim[p])
    BY <2>1 DEF Chains
  <2>3. QED
    BY <2>2 DEF Statement, Built, Conditional
<1>2. QED
  BY <1>1, Invariance, PTL DEF StatementAsChained

(* Migrate leaves no half migrated table and no tmp_, and no column of the  *)
(* model loses its values.                                                  *)
THEOREM MigratesWhole == Spec => MigrateWhole
<1> DEFINE Kept == tables'[Tmp] = NoTable /\ \A m \in Models : Keeps(tables[m], tables'[m])
<1>1. Inv /\ [Next]_vars => [Kept]_tables
  <2> SUFFICES ASSUME Inv, [Next]_vars, tables' # tables PROVE Kept
    OBVIOUS
  <2>1. Next
    BY DEF vars, dbVars
  <2>2. QED
    BY <2>1, StepTurns, TurnKeeps
<1>2. QED
  BY <1>1, Invariance, PTL DEF Spec, MigrateWhole

(* A step of the database is one of the abstract database, or a stutter.    *)
LEMMA DbStepAtomic ==
  ASSUME Inv, NEW q \in Procs, DbStep(q)
  PROVE  [Atomic!Next]_(Atomic!vars)
<1> DEFINE ended == {t \in Txs : txState[t] = "over"}
<1> USE TxsAssumption
<1>1. DbTypes /\ Marked
  BY Types DEF Inv
<1>2. CASE UNCHANGED dbVars
  BY <1>2 DEF dbVars, txVars, Atomic!vars
<1>3. CASE \E t \in Txs : DbBegin(t) /\ tx' = [tx EXCEPT ![q] = t]
  BY <1>1, <1>3 DEF DbBegin, DbTypes, Atomic!vars
<1>4. CASE tx' = tx /\ Executes(q)
  <2>1. PICK ch \in SUBSET {Id(q)}, ts \in [Tables -> Schemas] : DbExec(tx[q], ch, ts)
    BY <1>4 DEF Executes
  <2>2. Id(q).tx = tx[q] /\ (ch = {} \/ ch = {Id(q)})
    BY DEF Id
  <2>3. CASE tx[q] = None
    <3>1. applied' = applied \cup ch /\ made' = made /\ txState' = txState
      BY <2>1, <2>3 DEF DbExec, txVars
    <3>2. CASE ch = {}
      BY <3>1, <3>2 DEF Atomic!vars
    <3>3. CASE ch = {Id(q)}
      BY <2>2, <2>3, <3>1, <3>3 DEF Atomic!Next, Atomic!Single
    <3>4. QED
      BY <2>2, <3>2, <3>3
  <2>4. CASE tx[q] # None
    <3>1. /\ tx[q] \in Txs /\ tx[q] \notin ended
          /\ made' = [made EXCEPT ![tx[q]] = @ \cup ch] /\ applied' = applied /\ txState' = txState
      BY <1>1, <2>1, <2>4 DEF DbExec, Open, DbTypes
    <3>2. CASE ch = {}
      BY <1>1, <3>1, <3>2 DEF DbTypes, Atomic!vars
    <3>3. CASE ch = {Id(q)}
      <4>1. Id(q) \in made'[tx[q]]
        BY <1>1, <3>1, <3>3 DEF DbTypes
      <4>2. Atomic!Change(tx[q], Id(q))
        BY <2>2, <3>1, <3>3 DEF Atomic!Change
      <4>3. QED
        BY <3>1, <4>1, <4>2 DEF Atomic!Next
    <3>4. QED
      BY <2>2, <3>2, <3>3
  <2>5. QED
    BY <2>3, <2>4
<1>5. ASSUME NEW t \in Txs, DbCommit(t) \/ DbRollback(t)
      PROVE  Atomic!End(t)
  <2>1. t \notin ended /\ ended' = ended \cup {t}
    BY <1>1, <1>5 DEF DbCommit, DbRollback, Open, DbTypes
  <2>2. applied' \in {applied, applied \cup made[t]} /\ made' = made
    BY <1>5 DEF DbCommit, DbRollback
  <2>3. QED
    BY <2>1, <2>2 DEF Atomic!End
<1>6. tx[q] # None => tx[q] \in Txs
  BY <1>1 DEF DbTypes
<1>7. QED
  BY <1>2, <1>3, <1>4, <1>5, <1>6 DEF DbStep, Commits, Atomic!Next

(* The database sees a transaction's changes together, or none of them.     *)
THEOREM AtomicImplemented == Spec => ImplementsAtomicDb
<1>1. Init => Atomic!Init
  BY DEF Init, DbInit, Atomic!Init
<1>2. Inv /\ [Next]_vars => [Atomic!Next]_(Atomic!vars)
  <2>1. CASE UNCHANGED vars
    BY <2>1 DEF vars, dbVars, txVars, Atomic!vars
  <2>2. ASSUME Inv, Next PROVE [Atomic!Next]_(Atomic!vars)
    BY <2>2, StepTurns, DbStepAtomic DEF Turn
  <2>3. QED
    BY <2>1, <2>2
<1>3. QED
  BY <1>1, <1>2, Invariance, PTL DEF Spec, Atomic!Spec, ImplementsAtomicDb
===============================================================================
