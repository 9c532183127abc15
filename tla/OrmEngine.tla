------------------------------- MODULE OrmEngine -------------------------------
(***************************************************************************)
(* geeorm's Engine (geeorm/geeorm.go): sessions, Transaction and Migrate,  *)
(* side by side on one database.                                           *)
(*                                                                         *)
(* A goroutine uses a session of its own, with Begin, Commit and Rollback  *)
(* as it likes; or it calls Transaction with a function f that uses the    *)
(* session it is given for statements only, and ends by returning or by a  *)
(* panic; or it calls Migrate for the model Migrated.                      *)
(***************************************************************************)
EXTENDS OrmSession

CONSTANTS
  Migrated,     \* the model Migrate is called for
  Tmp           \* "tmp_" + its table

ASSUME MigratedAssumption ==
  Migrated \in Models /\ Tmp \in Tables \ Models /\ OldTables[Tmp] = NoTable

VARIABLES
  role,         \* role[p]: what the goroutine does
  exit,         \* exit[p]: how f ended: "nil", "error" or "panic"
  outcome,      \* outcome[p]: how Transaction or Migrate ended: "ok", "error", "panic"
  addCols, delCols

engineVars == <<role, exit, outcome, addCols, delCols>>
vars == <<dbVars, sessionVars, engineVars>>

Ids == [proc : Procs, tx : Txs \cup {None}, call : Nat]
Transactional == {"transaction", "migrate"}
InMigrate == {"hasTable", "create", "columns", "addColumns", "swap"}

TypeOK ==
  /\ tables \in [Tables -> Schemas] /\ applied \subseteq Ids
  /\ txState \in [Txs -> {"unused", "open", "over"}]
  /\ touched \in [Txs -> BOOLEAN]
  /\ view \in [Txs -> [Tables -> Schemas]] /\ made \in [Txs -> SUBSET Ids]
  /\ pc \in [Procs -> {"new", "idle", "before", "after", "finish", "returned"} \cup InMigrate]
  /\ tx \in [Procs -> Txs \cup {None}]
  /\ refTable \in [Procs -> Models \cup {None}]
  /\ clause \in [Procs -> Nat]
  /\ call \in [Procs -> Nat]
  /\ verb \in [Procs -> Verbs]
  /\ aim \in [Procs -> Models \cup {None}]
  /\ chained \in [Procs -> BOOLEAN]
  /\ hooked \in [Procs -> BOOLEAN]
  /\ aborted \in [Procs -> SUBSET Nat]
  /\ role \in [Procs -> {"none", "session"} \cup Transactional]
  /\ exit \in [Procs -> {"none", "nil", "error", "panic"}]
  /\ outcome \in [Procs -> {"none", "ok", "error", "panic"}]
  /\ addCols \in [Procs -> SUBSET Columns]
  /\ delCols \in [Procs -> SUBSET Columns]

-----------------------------------------------------------------------------
Init ==
  /\ DbInit
  /\ SessionInit
  /\ role = [p \in Procs |-> "none"]
  /\ exit = [p \in Procs |-> "none"]
  /\ outcome = [p \in Procs |-> "none"]
  /\ addCols = [p \in Procs |-> {}]
  /\ delCols = [p \in Procs |-> {}]

Becomes(p, r) == pc[p] = "new" /\ role' = [role EXCEPT ![p] = r]

NewSession(p) ==
  /\ Becomes(p, "session")
  /\ Goto(p, "idle")
  /\ UNCHANGED <<dbVars, tx, refTable, clause, callVars, exit, outcome, addCols, delCols>>

(* The caller of a session's own transaction.                               *)
UserTransacts(p) ==
  /\ role[p] = "session" /\ pc[p] = "idle" /\ call[p] < MaxCalls[p]
  /\ \/ \E t \in Txs : Begin(p, t)
     \/ BeginFails(p)
     \/ tx[p] # None /\ (Commit(p) \/ CommitFails(p) \/ Rollback(p))
  /\ UNCHANGED <<pc, refTable, clause, callVars, engineVars>>

Session(p) ==
  /\ role[p] \in {"session", "transaction"}
  /\ SessionStep(p)
  /\ UNCHANGED engineVars

(* A panic in a call: the user, or f, recovers from it ...                  *)
Recovers(p) ==
  /\ role[p] \in {"session", "transaction"}
  /\ \E v \in Verbs : Panics(p, v, "idle")
  /\ UNCHANGED engineVars

-----------------------------------------------------------------------------
(* Transaction: Begin, f, and the deferred Commit or Rollback.              *)

StartFails(p) ==
  /\ BeginFails(p)
  /\ outcome' = [outcome EXCEPT ![p] = "error"]
  /\ Goto(p, "returned")

Transaction(p) ==
  /\ Becomes(p, "transaction")
  /\ \/ /\ \E t \in Txs : Begin(p, t)
        /\ Goto(p, "idle")
        /\ UNCHANGED outcome
     \/ StartFails(p)
  /\ UNCHANGED <<refTable, clause, callVars, exit, addCols, delCols>>

Exits(p, how) == exit' = [exit EXCEPT ![p] = how] /\ Goto(p, "finish")

FReturns(p) ==
  /\ role[p] = "transaction" /\ pc[p] = "idle"
  /\ \E how \in {"nil", "error"} : Exits(p, how)
  /\ UNCHANGED <<dbVars, tx, refTable, clause, callVars, role, outcome, addCols, delCols>>

(* ... or it ends f.                                                        *)
FPanics(p) ==
  /\ role[p] = "transaction"
  /\ \E v \in Verbs : Panics(p, v, "finish")
  /\ exit' = [exit EXCEPT ![p] = "panic"]
  /\ UNCHANGED <<role, outcome, addCols, delCols>>

Comes(p, o) == outcome' = [outcome EXCEPT ![p] = o] /\ Goto(p, "returned")

OnPanicOnly(p) == exit[p] = "panic"
MustRollBack(p) == exit[p] # "nil"

UnlessPanicking(p) == pc[p] = "finish" /\ exit[p] # "panic"
Deferred(p) == pc[p] = "finish"

Finish(p) ==
  /\ Deferred(p)
  /\ IF MustRollBack(p)
     THEN Rollback(p) /\ Comes(p, exit[p])
     ELSE \/ Commit(p) /\ Comes(p, IF exit[p] = "nil" THEN "ok" ELSE exit[p])
          \/ CommitFails(p) /\ Comes(p, "error")
  /\ UNCHANGED <<refTable, clause, callVars, role, exit, addCols, delCols>>

-----------------------------------------------------------------------------
(* Migrate: a Transaction whose f compares the table with the model.        *)

Migrate(p) ==
  /\ Becomes(p, "migrate")
  /\ \/ /\ \E t \in Txs : Begin(p, t)
        /\ refTable' = [refTable EXCEPT ![p] = Migrated]
        /\ Goto(p, "hasTable")
        /\ UNCHANGED outcome
     \/ StartFails(p) /\ UNCHANGED refTable
  /\ UNCHANGED <<clause, callVars, exit, addCols, delCols>>

Now(p) == Seen(DB(p))

(* One statement of f, which changes the table to ts.                       *)
MigrateExec(p, ts) ==
  /\ DbExec(DB(p), {Id(p)}, ts)
  /\ call' = [call EXCEPT ![p] = @ + 1]
MigrateReads(p) == DbExec(DB(p), {}, Now(p)) /\ UNCHANGED call
MigrateFails(p) == DbFails /\ UNCHANGED call

(* An error of the query is taken for a table that is not there.            *)
HasTable(p) ==
  /\ pc[p] = "hasTable"
  /\ \/ MigrateReads(p) /\ Goto(p, IF Now(p)[Migrated] # NoTable THEN "columns" ELSE "create")
     \/ MigrateFails(p) /\ Goto(p, "create")
  /\ UNCHANGED <<exit, addCols, delCols>>

CreateTable(p) ==
  /\ pc[p] = "create"
  /\ \/ /\ Now(p)[Migrated] = NoTable
        /\ MigrateExec(p, [Now(p) EXCEPT ![Migrated] = Created])
        /\ Exits(p, "nil")
     \/ MigrateFails(p) /\ Exits(p, "error")
  /\ UNCHANGED <<addCols, delCols>>

(* If the query fails, rows is nil and Columns panics.                      *)
CompareColumns(p) ==
  /\ pc[p] = "columns"
  /\ \/ LET old == DOMAIN Now(p)[Migrated] IN
        /\ MigrateReads(p)
        /\ addCols' = [addCols EXCEPT ![p] = Fields \ old]
        /\ delCols' = [delCols EXCEPT ![p] = old \ Fields]
        /\ Goto(p, "addColumns") /\ UNCHANGED exit
     \/ MigrateFails(p) /\ Exits(p, "panic") /\ UNCHANGED <<addCols, delCols>>

Added(schema, c) == [d \in DOMAIN schema \cup {c} |-> IF d = c THEN "null" ELSE schema[d]]

AddColumn(p) ==
  /\ pc[p] = "addColumns"
  /\ \E c \in addCols[p] :
       \/ /\ MigrateExec(p, [Now(p) EXCEPT ![Migrated] = Added(@, c)])
          /\ addCols' = [addCols EXCEPT ![p] = @ \ {c}]
          /\ UNCHANGED <<pc, exit>>
       \/ MigrateFails(p) /\ Exits(p, "error") /\ UNCHANGED addCols
  /\ UNCHANGED delCols

ColumnsAdded(p) ==
  /\ pc[p] = "addColumns" /\ addCols[p] = {}
  /\ IF delCols[p] = {} THEN Exits(p, "nil") ELSE Goto(p, "swap") /\ UNCHANGED exit
  /\ UNCHANGED <<dbVars, call, addCols, delCols>>

(* CREATE TABLE tmp AS SELECT, DROP TABLE, RENAME: three statements in one  *)
(* Exec, of which the first n succeed.                                      *)
Swapped(ts, n) ==
  LET copy == [c \in Fields |-> ts[Migrated][c]] IN
  [ts EXCEPT ![Tmp] = IF n \in {1, 2} THEN copy ELSE @,
             ![Migrated] = IF n = 2 THEN NoTable ELSE IF n = 3 THEN copy ELSE @]

Ignored(n) == "nil"
Error(n) == IF n = 3 THEN "nil" ELSE "error"

Swap(p) ==
  /\ pc[p] = "swap"
  /\ \/ \E n \in 1..3 : MigrateExec(p, Swapped(Now(p), n)) /\ Exits(p, Error(n))
     \/ MigrateFails(p) /\ Exits(p, "error")
  /\ UNCHANGED <<addCols, delCols>>

MigrateStep(p) ==
  /\ HasTable(p) \/ CreateTable(p) \/ CompareColumns(p) \/ AddColumn(p) \/ ColumnsAdded(p)
     \/ Swap(p)
  /\ UNCHANGED <<tx, refTable, clause, verb, aim, chained, hooked, aborted, role, outcome>>

-----------------------------------------------------------------------------
Next ==
  \E p \in Procs :
    \/ NewSession(p) \/ Transaction(p) \/ Migrate(p)
    \/ UserTransacts(p) \/ Session(p) \/ Recovers(p)
    \/ FReturns(p) \/ FPanics(p) \/ MigrateStep(p) \/ Finish(p)

Spec == Init /\ [][Next]_vars

(* Statements and hooks come to an end and f returns; goroutines run.       *)
FairSpec ==
  /\ Spec
  /\ \A p \in Procs :
       /\ WF_vars(Run(p) /\ UNCHANGED engineVars) /\ WF_vars(Returns(p) /\ UNCHANGED engineVars)
       /\ WF_vars(FReturns(p))
       /\ WF_vars(MigrateStep(p))
       /\ WF_vars(Finish(p))

-----------------------------------------------------------------------------
(* Statements of a session take effect in its transaction and with it, all  *)
(* or none, from the Begin to the end of the session (raw.go:55): none slips *)
(* past the transaction, not even after its end.                            *)
Atomic == INSTANCE AtomicDb WITH ended <- {t \in Txs : txState[t] = "over"}
ImplementsAtomicDb == Atomic!Spec

Made(p) == IF tx[p] = None THEN {} ELSE made[tx[p]]

(* A table may stay as it is, go, or have the columns of its model, with the *)
(* values it had.                                                           *)
Keeps(old, new) ==
  \/ new = old \/ new = NoTable
  \/ /\ DOMAIN new = Fields
     /\ old # NoTable => \A c \in Fields \cap DOMAIN old : old[c] = "full" => new[c] = "full"

(* What Transaction and Migrate report is what happened: nil after f        *)
(* returned nil and all it did is in the database, an error or a panic when *)
(* nothing of it is or will be (geeorm.go:67-79).                           *)
Told(p) ==
  role[p] \in Transactional =>
    /\ outcome[p] = "ok" => exit[p] = "nil" /\ Made(p) \subseteq applied
    /\ outcome[p] # "ok" => Made(p) \cap applied = {}
    /\ pc[p] = "returned" /\ tx[p] # None => txState[tx[p]] = "over"

ResultTells == \A p \in Procs : Told(p)

(* A statement is built with the condition its caller chained for it and on *)
(* the table it means, unless a hook used the session; and never with that  *)
(* of another statement that was run, with success or not (raw.go:71): only *)
(* a panic leaves one behind.                                               *)
StatementAsChained ==
  [][\A p \in Procs : Run(p) => LET st == Statement(p) IN
       /\ ~hooked[p] =>
            /\ st.table = aim[p]
            /\ chained[p] /\ verb[p] \in {"SELECT", "UPDATE", "DELETE", "COUNT"} => st.where = call[p]
       /\ st.where \in {0, call[p]} \cup aborted[p]
    ]_vars

(* Nobody finds a table half migrated, or tmp_ in its place, whatever fails *)
(* on the way, and no column of the model that had its values loses them    *)
(* (geeorm.go:117-143).                                                     *)
MigrateWhole ==
  [][tables'[Tmp] = NoTable /\ \A m \in Models : Keeps(tables[m], tables'[m])]_tables

(* A Transaction whose f returns or panics comes to an end, and so does     *)
(* Migrate.                                                                 *)
TransactionEnds ==
  \A p \in Procs : role[p] \in Transactional ~> outcome[p] # "none"

-----------------------------------------------------------------------------
(* The inductive invariant behind these properties.                         *)

(* No transaction is in two sessions.                                       *)
Owned ==
  \A p \in Procs : tx[p] # None =>
    /\ txState[tx[p]] # "unused"
    /\ \A q \in Procs : q # p => tx[q] # tx[p]

(* Under a transaction that has read and not written nothing is committed.  *)
Isolated ==
  \A t \in Txs :
    /\ txState[t] = "unused" => ~touched[t]
    /\ made[t] # {} => touched[t]
    /\ Open(t) /\ touched[t] /\ made[t] = {} => view[t] = tables

(* What is in the database was made in no transaction or one that is over.  *)
Marked ==
  /\ \A t \in Txs : \A x \in made[t] : x.tx = t
  /\ \A x \in applied : x.tx # None => txState[x.tx] = "over"

(* A goroutine is where its role takes it; Transaction and Migrate have     *)
(* their transaction open until the deferred function ends it.              *)
Placed(p) ==
  /\ role[p] = "none" <=> pc[p] = "new"
  /\ role[p] = "session" => pc[p] \in {"idle", "before", "after"}
  /\ role[p] = "transaction" => pc[p] \in {"idle", "before", "after", "finish", "returned"}
  /\ role[p] = "migrate" => pc[p] \in InMigrate \cup {"finish", "returned"}
  /\ outcome[p] # "none" <=> pc[p] = "returned"
  /\ pc[p] = "finish" => exit[p] # "none"
  /\ role[p] \in Transactional /\ pc[p] # "returned" => tx[p] # None /\ Open(tx[p])

(* Whose condition s.clause has.                                            *)
Chains(p) ==
  /\ pc[p] \in {"new", "after"} => clause[p] = 0 /\ ~chained[p]
  /\ pc[p] = "idle" => clause[p] \in {0, call[p] + 1} \cup aborted[p]
  /\ pc[p] = "idle" /\ chained[p] => clause[p] = call[p] + 1
  /\ pc[p] = "before" => clause[p] \in {0, call[p]} \cup aborted[p]
  /\ pc[p] = "before" /\ ~hooked[p] => (chained[p] => clause[p] = call[p]) /\ TableOf(p) = aim[p]
  /\ verb[p] # "RAW" => refTable[p] \in Models

(* How far Migrate is, in the view of its transaction t.                    *)
Elsewhere(t) == \A x \in Tables \ {Migrated} : view[t][x] = tables[x]

Compared(p, t) ==
  LET old == tables[Migrated]  new == view[t][Migrated] IN
  /\ touched[t] /\ Elsewhere(t)
  /\ old # NoTable /\ new \in Columned
  /\ DOMAIN old \subseteq DOMAIN new /\ \A c \in DOMAIN old : new[c] = old[c]
  /\ addCols[p] \subseteq Fields \ DOMAIN old /\ delCols[p] = DOMAIN old \ Fields
  /\ pc[p] = "addColumns" => DOMAIN new = DOMAIN old \cup (Fields \ addCols[p])
  /\ pc[p] = "swap" => Fields \subseteq DOMAIN new

Migrates(p, t) ==
  /\ pc[p] = "hasTable" => ~touched[t]
  /\ pc[p] \in {"create", "columns"} => made[t] = {}
  /\ pc[p] = "columns" => touched[t] /\ tables[Migrated] # NoTable
  /\ pc[p] \in {"addColumns", "swap"} => Compared(p, t)
  /\ pc[p] = "finish" /\ exit[p] = "nil" /\ made[t] # {} =>
       Elsewhere(t) /\ Keeps(tables[Migrated], view[t][Migrated])

(* What the transactions would commit.                                      *)
Whole ==
  /\ tables[Tmp] = NoTable
  /\ \A t \in Txs : Open(t) /\ touched[t] =>
       \/ \E p \in Procs : tx[p] = t /\ role[p] = "migrate"
       \/ view[t][Tmp] = NoTable /\ \A m \in Models : Keeps(tables[m], view[t][m])

Follows(p) ==
  /\ Placed(p) /\ Chains(p) /\ Told(p)
  /\ role[p] = "migrate" /\ pc[p] # "returned" => Migrates(p, tx[p])

Inv == TypeOK /\ Owned /\ Isolated /\ Marked /\ Whole /\ \A p \in Procs : Follows(p)
===============================================================================
