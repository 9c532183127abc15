----------------------------- MODULE MCDiscovery -----------------------------
(* Two servers and two users.  The times are as small as they can be while  *)
(* a list can become stale between two beats and a server can expire before *)
(* the list does; the round robin starts beyond the end of every list.      *)
EXTENDS Discovery, TLC
CONSTANTS a1, a2, u1, u2
AddrsDef == {a1, a2}
UsersDef == {u1, u2}
ByHandDef == {{a1}}
UserSymmetry == Permutations(UsersDef)
SortedDef == {} :> <<>> @@ {a1} :> <<a1>> @@ {a2} :> <<a2>> @@ {a1, a2} :> <<a1, a2>>
==============================================================================
