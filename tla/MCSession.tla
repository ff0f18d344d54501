------------------------------ MODULE MCSession ------------------------------
(* Session with a few threads that send queries. *)
EXTENDS Session
=============================================================================
