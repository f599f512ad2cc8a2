---------------------------- MODULE MCKeepAlive ----------------------------
(* TLC instances of KeepAlive. *)
EXTENDS KeepAlive
=============================================================================
