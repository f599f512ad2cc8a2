----------------------------- MODULE MCEncrypt -----------------------------
(* TLC instances of Encrypt. *)
EXTENDS Encrypt
=============================================================================
