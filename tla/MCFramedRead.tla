-------------------------- MODULE MCFramedRead --------------------------
(* Two sides, two frames each, of one or two units: a read can be dropped
   before its length, between length and body, and inside the body. *)
EXTENDS FramedRead

MCSides == {"client", "backend"}
=============================================================================
