------------------------------ MODULE OrmSession ------------------------------
(***************************************************************************)
(* geeorm's Session (geeorm/session): chained clauses, the statement built *)
(* from them, the hooks around it, and the transaction it runs in.         *)
(*                                                                         *)
(* Each goroutine p has a session.  A call of it (Insert, Find, Update,    *)
(* ...) is number call[p]: its before hooks, the statement, its after      *)
(* hooks.  A clause is known by the number of the call it was chained for. *)
(* The SQL text is left out: Raw, and Exec, QueryRow or QueryRows, with    *)
(* nothing between them, are one step.                                     *)
(***************************************************************************)
EXTENDS Database

CONSTANTS
  Procs, Models,
  Fields,       \* the fields of a model, columns of its table
  MaxCalls      \* bound: MaxCalls[p], the calls of p's session

ASSUME ModelsAssumption == Models \subseteq Tables /\ None \notin Models
ASSUME FieldsAssumption == Fields \subseteq Columns /\ MaxCalls \in [Procs -> Nat]

VARIABLES
  pc,
  tx,           \* tx[p]: s.tx
  refTable,     \* refTable[p]: the model s.refTable was parsed from
  clause,       \* clause[p]: the call s.clause has a condition for, 0: none
  call, verb,   \* the last call
  aim,          \* history: the table its caller means
  chained,      \* history: its caller chained a condition
  hooked,       \* history: a hook of it has used the session
  aborted       \* history: the calls since the last statement that a panic ended

callVars == <<call, verb, aim, chained, hooked, aborted>>
sessionVars == <<pc, tx, refTable, clause, callVars>>

Verbs == {"INSERT", "SELECT", "UPDATE", "DELETE", "COUNT", "CREATE", "DROP", "EXISTS", "RAW"}
Hooked == {"INSERT", "SELECT", "UPDATE", "DELETE"}
OfValue == {"INSERT", "SELECT"}      \* they set the model from their argument
Reads == {"SELECT", "COUNT", "EXISTS"}

(* Build is told to take the conditions.                                    *)
Conditional == {"SELECT", "UPDATE", "DELETE", "COUNT"}

SessionInit ==
  /\ pc = [p \in Procs |-> "new"]
  /\ tx = [p \in Procs |-> None]
  /\ refTable = [p \in Procs |-> None]
  /\ clause = [p \in Procs |-> 0]
  /\ call = [p \in Procs |-> 0]
  /\ verb = [p \in Procs |-> "RAW"]
  /\ aim = [p \in Procs |-> None]
  /\ chained = [p \in Procs |-> FALSE]
  /\ hooked = [p \in Procs |-> FALSE]
  /\ aborted = [p \in Procs |-> {}]

Goto(p, label) == pc' = [pc EXCEPT ![p] = label]

-----------------------------------------------------------------------------
(* Outside a call.                                                          *)

Model(p, m) ==
  /\ pc[p] = "idle" /\ call[p] < MaxCalls[p]
  /\ refTable' = [refTable EXCEPT ![p] = m]
  /\ UNCHANGED <<dbVars, pc, tx, clause, callVars>>

(* Where: a condition; Limit and OrderBy stay in s.clause the same way.     *)
Where(p) ==
  /\ pc[p] = "idle" /\ call[p] < MaxCalls[p]
  /\ clause' = [clause EXCEPT ![p] = call[p] + 1]
  /\ chained' = [chained EXCEPT ![p] = TRUE]
  /\ UNCHANGED <<dbVars, pc, tx, refTable, call, verb, aim, hooked, aborted>>

(* s.tx is what db.Begin returns, whatever it was: nil with an error.       *)
Begin(p, t) == DbBegin(t) /\ tx' = [tx EXCEPT ![p] = t]
BeginFails(p) == DbFails /\ tx' = [tx EXCEPT ![p] = None]

(* Commit and Rollback: the sql.Tx is over, or was.  s.tx stays.            *)
Commit(p) == DbCommit(tx[p]) /\ UNCHANGED tx
CommitFails(p) ==
  /\ IF Open(tx[p]) THEN DbRollback(tx[p]) ELSE DbFails
  /\ UNCHANGED tx
Rollback(p) == CommitFails(p)

-----------------------------------------------------------------------------
(* A call of the session.                                                   *)

(* Insert and Find too look at s.refTable before they set it (hooks.go:23). *)
HasModel(p, v) == refTable[p] # None \/ v = "RAW"

(* First is Limit(1) and a Find.                                            *)
Call(p, v, m) ==
  /\ pc[p] = "idle" /\ call[p] < MaxCalls[p] /\ HasModel(p, v)
  /\ call' = [call EXCEPT ![p] = @ + 1]
  /\ verb' = [verb EXCEPT ![p] = v]
  /\ aim' = [aim EXCEPT ![p] = IF v \in OfValue THEN m ELSE refTable[p]]
  /\ Goto(p, "before")
  /\ UNCHANGED <<dbVars, tx, refTable, clause, chained, hooked, aborted>>

(* The statements of a session run in its transaction, if it has one.       *)
AlwaysDb(p) == None
DB(p) == tx[p]

(* A change is known by who made it, in which transaction and which call.   *)
Id(p) == [proc |-> p, tx |-> tx[p], call |-> call[p]]
Changes(p, v) == IF v \in Reads THEN {} ELSE {Id(p)}

(* The tables after a statement that succeeds, if it may.                   *)
Created == [c \in Fields |-> "full"]
Accepts(ts, v, m) ==
  /\ v \in Hooked \cup {"COUNT"} => ts[m] # NoTable
  /\ v = "CREATE" => ts[m] = NoTable
After(ts, v, m) ==
  IF v = "CREATE" THEN [ts EXCEPT ![m] = Created]
  ELSE IF v = "DROP" THEN [ts EXCEPT ![m] = NoTable] ELSE ts

Succeeds(p, v, m) ==
  /\ Accepts(Seen(DB(p)), v, m)
  /\ DbExec(DB(p), Changes(p, v), After(Seen(DB(p)), v, m))

ClearOnSuccess(p, ok) == IF ok THEN [clause EXCEPT ![p] = 0] ELSE clause
Clear(p, ok) == [clause EXCEPT ![p] = 0]

(* A hook gets the session and may use it: here, for a statement on a model *)
(* of its own (one in a call, a bound).                                     *)
Hook(p, v, m) ==
  /\ \/ pc[p] = "after"
     \/ pc[p] = "before" /\ verb[p] \in Hooked
  /\ ~hooked[p]
  /\ hooked' = [hooked EXCEPT ![p] = TRUE]
  /\ refTable' = [refTable EXCEPT ![p] = m]
  /\ Succeeds(p, v, m) \/ DbFails
  /\ clause' = Clear(p, TRUE)
  /\ aborted' = [aborted EXCEPT ![p] = {}]
  /\ UNCHANGED <<pc, tx, call, verb, aim, chained>>

TableOf(p) == IF verb[p] \in OfValue THEN aim[p] ELSE refTable[p]
BuiltWithout(p) == IF verb[p] \in Conditional \ {"UPDATE"} THEN clause[p] ELSE 0
Built(p) == IF verb[p] \in Conditional THEN clause[p] ELSE 0
Statement(p) == [verb |-> verb[p], table |-> TableOf(p), where |-> Built(p)]

(* What is known of a call when its statement has run or a panic ended it.  *)
Forgets(p) ==
  /\ verb' = [verb EXCEPT ![p] = "RAW"]
  /\ aim' = [aim EXCEPT ![p] = None]
  /\ chained' = [chained EXCEPT ![p] = FALSE]

(* Set, Build, Raw and Exec, with the deferred Clear.                       *)
Ends(p, ok) ==
  /\ refTable' = [refTable EXCEPT ![p] = IF verb[p] \in OfValue THEN aim[p] ELSE @]
  /\ clause' = Clear(p, ok)
  /\ Forgets(p)
  /\ IF ok /\ verb[p] \in Hooked
     THEN Goto(p, "after") /\ UNCHANGED hooked
     ELSE Goto(p, "idle") /\ hooked' = [hooked EXCEPT ![p] = FALSE]
  /\ aborted' = [aborted EXCEPT ![p] = {}]
  /\ UNCHANGED <<tx, call>>

Run(p) ==
  /\ pc[p] = "before"
  /\ \/ Succeeds(p, verb[p], Statement(p).table) /\ Ends(p, TRUE)
     \/ DbFails /\ Ends(p, FALSE)

(* The after hooks are done.                                                *)
Returns(p) ==
  /\ pc[p] = "after"
  /\ hooked' = [hooked EXCEPT ![p] = FALSE]
  /\ Goto(p, "idle")
  /\ UNCHANGED <<dbVars, tx, refTable, clause, call, verb, aim, chained, aborted>>

(* A panic leaves the call: no model is set, a hook returns an error        *)
(* (hooks.go:35), Update's arguments are no pairs.  Nothing is cleared.     *)
Panics(p, v, next) ==
  /\ \/ /\ pc[p] = "idle" /\ call[p] < MaxCalls[p] /\ ~HasModel(p, v)
        /\ call' = [call EXCEPT ![p] = @ + 1]
        /\ aborted' = [aborted EXCEPT ![p] = @ \cup {call[p] + 1}]
     \/ /\ pc[p] = "before" /\ verb[p] \in Hooked
        /\ aborted' = [aborted EXCEPT ![p] = @ \cup {call[p]}]
        /\ UNCHANGED call
     \/ /\ pc[p] = "after"
        /\ UNCHANGED <<call, aborted>>
  /\ Forgets(p)
  /\ hooked' = [hooked EXCEPT ![p] = FALSE]
  /\ Goto(p, next)
  /\ UNCHANGED <<dbVars, tx, refTable, clause>>

SessionStep(p) ==
  \/ \E m \in Models : Model(p, m)
  \/ Where(p)
  \/ \E v \in Verbs, m \in Models : Call(p, v, m)
  \/ \E v \in {"INSERT", "COUNT"}, m \in Models : Hook(p, v, m)
  \/ Run(p) \/ Returns(p)
===============================================================================
