---------------------------- MODULE MCRpc_Client ----------------------------
(* Instances of Rpc_Client for TLC. *)
EXTENDS Rpc_Client
=============================================================================
