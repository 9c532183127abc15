------------------------------ MODULE MCXClient ------------------------------
(* A Broadcast beside a Call, on two servers, and Clients for two dials: the *)
(* cache is shared, a broken or closed Client is replaced, a dial fails.    *)
(* That the server of o2 is s1, and c1 the first to be dialled, leaves out  *)
(* behaviours that are the same but for names: the fairness forbids the     *)
(* usual reduction by symmetry.                                             *)
EXTENDS XClient
CONSTANTS o1, o2, s1, s2, c1, c2
OpsDef == {o1, o2}
OneOp == {o1}
ServersDef == {s1, s2}
ClientsDef == {c1, c2}

Beside == \A o \in Ops \ {o1} : servers'[o] \subseteq {s1}
InTurn == status'[c2] # "unused" => status'[c1] # "unused"
MCSpec == Init /\ [][Next /\ Beside /\ InTurn]_vars /\ Fairness
==============================================================================
