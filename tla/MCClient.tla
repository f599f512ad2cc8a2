------------------------------ MODULE MCClient ------------------------------
(* TLC instances of Client. *)
EXTENDS Client
=============================================================================
