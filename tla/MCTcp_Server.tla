---------------------------- MODULE MCTcp_Server ----------------------------
(* Tcp_Server on a small instance. *)
EXTENDS Tcp_Server

\* No behaviour goes on after a descriptor was given away while it was in use.
UntilReuse == "reuse" \notin mishaps
=============================================================================
