----------------------------- MODULE MCListener -----------------------------
(* Listener for TLC: more clients than permits; the constants are given in
   MCListener.cfg.  The clients are interchangeable, but the run checks liveness,
   where symmetry is not sound. *)
EXTENDS Listener
=============================================================================
