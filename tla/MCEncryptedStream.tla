------------------------ MODULE MCEncryptedStream ------------------------
(* Chunks of at most three bytes: a write is split, partly taken and buffered. *)
EXTENDS EncryptedStream
=============================================================================
