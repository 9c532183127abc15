----------------------------- MODULE MCRpcServer -----------------------------
(* RpcServer with requests named for what becomes of them: r1 and r2 reach  *)
(* their methods, the arguments of `bad' do not decode, `unknown' names an  *)
(* unknown method.  The configurations choose among them.                   *)
EXTENDS RpcServer

CONSTANTS r1, r2, bad, unknown
=============================================================================
