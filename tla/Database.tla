------------------------------- MODULE Database -------------------------------
(***************************************************************************)
(* What geeorm uses of database/sql and SQLite: the tables, the changes    *)
(* made to rows, and transactions, which see their own changes first.      *)
(* External: modelled from its use in geeorm/session and geeorm/geeorm.go. *)
(*                                                                         *)
(* A change is an opaque id; of a table only its columns are kept, and     *)
(* whether the rows have their values in a column ("full") or the NULLs of *)
(* a column that was added ("null").  One transaction at a time holds      *)
(* changes, and nothing is committed under one that has read or written.   *)
(***************************************************************************)
EXTENDS Naturals

CONSTANTS
  Txs,                \* the transactions that can be begun, numbered; a bound
  Tables, Columns,
  OldTables,          \* what the database holds at first
  NoTable, None

Columned == UNION {[C -> {"full", "null"}] : C \in SUBSET Columns}
Schemas == Columned \cup {NoTable}

ASSUME OldTablesAssumption == OldTables \in [Tables -> Schemas]
ASSUME TxsAssumption == Txs \subseteq Nat /\ None \notin Txs

VARIABLES
  tables, applied,    \* committed: the tables, and the changes to rows and tables
  txState,            \* txState[t] of a sql.Tx: "unused", "open" or "over"
  touched,            \* touched[t]: it has run a statement
  view, made          \* view[t], made[t]: the tables it sees then, the changes in it

txVars == <<txState, touched, view, made>>
dbVars == <<tables, applied, txVars>>

DbInit ==
  /\ tables = OldTables /\ applied = {}
  /\ txState = [t \in Txs |-> "unused"]
  /\ touched = [t \in Txs |-> FALSE]
  /\ view = [t \in Txs |-> OldTables]
  /\ made = [t \in Txs |-> {}]

(* The tables as transaction t, or for None a statement by itself, sees them. *)
Seen(t) == IF t # None /\ touched[t] THEN view[t] ELSE tables

Open(t) == txState[t] = "open"
Readers(t) == {o \in Txs \ {t} : Open(o) /\ touched[o]}
Writers(t) == {o \in Txs \ {t} : Open(o) /\ made[o] # {}}
Writable(t) == IF t = None THEN Readers(t) = {} ELSE Writers(t) = {}

(* The least t that is unused.                                              *)
DbBegin(t) ==
  /\ txState[t] = "unused" /\ \A o \in Txs : o < t => txState[o] # "unused"
  /\ txState' = [txState EXCEPT ![t] = "open"]
  /\ UNCHANGED <<tables, applied, touched, view, made>>

(* A statement that leaves tables ts and makes the changes.  It may as well *)
(* fail: the disk, a constraint, a lock.                                    *)
DbExec(t, changes, ts) ==
  /\ t # None => Open(t)
  /\ changes # {} => Writable(t)
  /\ IF t = None
     THEN /\ tables' = ts /\ applied' = applied \cup changes
          /\ UNCHANGED txVars
     ELSE /\ view' = [view EXCEPT ![t] = ts]
          /\ made' = [made EXCEPT ![t] = @ \cup changes]
          /\ touched' = [touched EXCEPT ![t] = TRUE]
          /\ UNCHANGED <<tables, applied, txState>>

DbFails == UNCHANGED dbVars

(* Over for good, whatever the driver says.                                 *)
DbCommit(t) ==
  /\ Open(t)
  /\ made[t] # {} => Readers(t) = {}
  /\ tables' = (IF made[t] # {} THEN view[t] ELSE tables)
  /\ applied' = applied \cup made[t]
  /\ txState' = [txState EXCEPT ![t] = "over"]
  /\ UNCHANGED <<touched, view, made>>

DbRollback(t) ==
  /\ Open(t)
  /\ txState' = [txState EXCEPT ![t] = "over"]
  /\ UNCHANGED <<tables, applied, touched, view, made>>
===============================================================================
