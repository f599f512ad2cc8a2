--------------------------- MODULE MCSessionLock ---------------------------
(* TLC instances of SessionLock. *)
EXTENDS SessionLock
=============================================================================
