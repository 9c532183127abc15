-------------------------------- MODULE AtomicDb --------------------------------
(***************************************************************************)
(* What geeorm promises of its transactions: a change made in none takes   *)
(* effect by itself; the changes of a transaction take effect together,    *)
(* when it ends, or none of them ever does; and nothing changes in a       *)
(* transaction that has ended.                                             *)
(***************************************************************************)
CONSTANTS Txs, None
VARIABLES
  applied,   \* the changes in effect; x was made in transaction x.tx, or None
  made,      \* made[t]: those of transaction t
  ended

vars == <<applied, made, ended>>

Init ==
  /\ applied = {} /\ ended = {}
  /\ made = [t \in Txs |-> {}]

Single(x) ==
  /\ x.tx = None
  /\ applied' = applied \cup {x}
  /\ UNCHANGED <<made, ended>>

Change(t, x) ==
  /\ t \notin ended /\ x.tx = t
  /\ made' = [made EXCEPT ![t] = @ \cup {x}]
  /\ UNCHANGED <<applied, ended>>

End(t) ==
  /\ t \notin ended /\ ended' = ended \cup {t}
  /\ applied' \in {applied, applied \cup made[t]}
  /\ UNCHANGED made

Next ==
  \/ \E x \in applied' : Single(x)
  \/ \E t \in Txs : End(t) \/ \E x \in made'[t] : Change(t, x)

Spec == Init /\ [][Next]_vars
===============================================================================
