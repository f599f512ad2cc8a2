------------------------------ MODULE MCLinker ------------------------------
(***************************************************************************)
(* Sessions for TLC.  Keep-alive multiplies the states, so sessions with   *)
(* it carry fewer frames.                                                  *)
(***************************************************************************)
EXTENDS Linker

Sessions(protos, hacks, zlib, ka, maxfail, frames) ==
  [proto : protos, hack : hacks, zlib : zlib, ka : ka, ka_maxfail : maxfail,
   frames : frames]

MCLinks ==
  Sessions({"TCP"}, {{}}, {TRUE}, {FALSE}, {0}, {3})
  \cup Sessions({"TCP"}, {{}}, {FALSE}, {TRUE}, {1}, {1})
  \cup Sessions({"UDP"}, {{}}, {TRUE}, {FALSE}, {0}, {2})
  \cup Sessions({"UDP"}, {{}}, {FALSE}, {FALSE}, {0}, {1})
  \cup Sessions({"UDP"}, {{"server"}, Ends}, {TRUE}, BOOLEAN, {0}, {1})
=============================================================================
