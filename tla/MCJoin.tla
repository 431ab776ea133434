------------------------------- MODULE MCJoin -------------------------------
(* The join for TLC; the constants are given in MCJoin.cfg. *)
EXTENDS Join
=============================================================================
