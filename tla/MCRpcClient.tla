----------------------------- MODULE MCRpcClient -----------------------------
(* A Client and its wire, with two concurrent calls and a transport that   *)
(* holds one request, so that the second sender meets a full transport.     *)
EXTENDS RpcWire

CONSTANTS c1, c2

MCCalls == {c1, c2}
=============================================================================
