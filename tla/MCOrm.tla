-------------------------------- MODULE MCOrm --------------------------------
(* Two goroutines, any of them a session, a Transaction or a Migrate; the    *)
(* table of `user' has a column too many and lacks one, that of `log' does   *)
(* not exist.                                                                *)
EXTENDS OrmEngine, TLC
CONSTANTS p1, p2, user, log, tmp_user, name, age, xxx
ModelsDef == {user, log}
TablesDef == ModelsDef \cup {tmp_user}
FieldsDef == {name, age}
ColumnsDef == {name, age, xxx}
MaxCallsDef == p1 :> 2 @@ p2 :> 0
OldTablesDef == [t \in TablesDef |-> IF t = user THEN [c \in {name, xxx} |-> "full"] ELSE NoTable]
==============================================================================
