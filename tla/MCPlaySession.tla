--------------------------- MODULE MCPlaySession ---------------------------
(* PlaySession on small instances: two servers, one of them the default.  The
   identities of connections are interchangeable. *)
EXTENDS PlaySession, TLC

ConnSymmetry == Permutations(Conns)
=============================================================================
