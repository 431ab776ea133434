-------------------------- MODULE EncryptedStream --------------------------
(***************************************************************************)
(* EncryptedStream (src/src/crypto/aes.rs): AES-128-CFB8 around the        *)
(* client's socket.  Each poll_ method is one step; the inner socket may   *)
(* take all the bytes it is offered, some, none, or fail.                  *)
(*                                                                         *)
(* CFB8 is a stream cipher: a byte comes out right at the other end only   *)
(* if it was encrypted at the position at which it is decrypted.  So a     *)
(* ciphertext byte is the pair of the position of the encryptor and the    *)
(* byte, and bytes are numbered in the order in which callers hand them    *)
(* over.  A caller whose poll_write is pending offers the same bytes again *)
(* (write_all); what was accepted is never offered again.                  *)
(***************************************************************************)
EXTENDS Integers, Sequences

CONSTANTS
  ChunkLimit,    \* 64 KiB: the most one poll_write encrypts
  MaxBytes       \* bound: bytes handed over, and bytes read

ASSUME ChunkLimitAssumption == ChunkLimit \in Nat \ {0}
ASSUME MaxBytesAssumption == MaxBytes \in Nat

VARIABLES
  accepted,      \* bytes that poll_write has reported as written
  encryptor,     \* bytes that went through the encryptor
  write_buf,
  write_cursor,
  wire,          \* what the inner socket took
  broken,        \* the inner socket has failed: it takes nothing any more
  answer,        \* the last answer to a poll of the write half
  decryptor,     \* bytes that went through the decryptor
  arrived,       \* ciphertext bytes of the peer that were read from the socket
  filled         \* the caller's ReadBuf, kept over several polls

writing == <<accepted, encryptor, write_buf, write_cursor, wire, broken, answer>>
reading == <<decryptor, arrived, filled>>
vars    == <<writing, reading>>

Byte    == [at : Nat, byte : Nat]
Answers == {"none", "written", "pending", "error", "flushed"}

(* The nth byte, encrypted at the nth position. *)
InPlace(n) == [at |-> n, byte |-> n]

TypeOK ==
  /\ accepted \in Nat /\ encryptor \in Nat
  /\ write_buf \in Seq(Byte) /\ write_cursor \in 0 .. Len(write_buf)
  /\ wire \in Seq(Byte)
  /\ broken \in BOOLEAN /\ answer \in Answers
  /\ decryptor \in Nat /\ arrived \in Nat /\ filled \in Seq(Byte)

Init ==
  /\ accepted = 0 /\ encryptor = 0
  /\ write_buf = <<>> /\ write_cursor = 0
  /\ wire = <<>> /\ broken = FALSE /\ answer = "none"
  /\ decryptor = 0 /\ arrived = 0 /\ filled = <<>>

Unsent == Len(write_buf) - write_cursor

-----------------------------------------------------------------------------
(* Mutant of flush_pending_write: every poll starts at the front of the buffer. *)
FlushRestarts(k) ==
  /\ wire' = wire \o SubSeq(write_buf, 1, k)
  /\ IF k = Unsent
       THEN write_buf' = <<>> /\ write_cursor' = 0
       ELSE UNCHANGED write_buf /\ write_cursor' = k

(* Mutant of flush_pending_write: the cursor outlives the buffer. *)
FlushKeepsCursor(k) ==
  /\ wire' = wire \o SubSeq(write_buf, write_cursor + 1, write_cursor + k)
  /\ write_cursor' = write_cursor + k
  /\ write_buf' = IF k = Unsent THEN <<>> ELSE write_buf

(* flush_pending_write, when the inner socket takes k more bytes before it is
   pending or fails; the buffer is cleared once all of it is out. *)
flush_pending_write(k) ==
  /\ wire' = wire \o SubSeq(write_buf, write_cursor + 1, write_cursor + k)
  /\ IF k = Unsent
       THEN write_buf' = <<>> /\ write_cursor' = 0
       ELSE UNCHANGED write_buf /\ write_cursor' = write_cursor + k

(* A poll_write, poll_flush or poll_shutdown that does not get the buffer out. *)
Stuck(k) ==
  /\ k < Unsent /\ (broken => k = 0)
  /\ flush_pending_write(k)
  /\ \/ ~broken /\ answer' = "pending" /\ UNCHANGED broken
     \/ answer' = "error" /\ broken' = TRUE
  /\ UNCHANGED <<accepted, encryptor, reading>>

-----------------------------------------------------------------------------
Ciphertext(n) == [i \in 1 .. n |-> [at |-> encryptor + i, byte |-> accepted + i]]

(* poll_write, when the buffer gets out: the plaintext, or the first ChunkLimit bytes of it, is
   encrypted, and offered to the inner socket, which takes n bytes (none when it is
   pending).  The caller is told that the whole chunk is written. *)
WriteChunk(len, n, kept) ==
  LET chunk == IF len < ChunkLimit THEN len ELSE ChunkLimit
  IN /\ ~broken /\ accepted + chunk <= MaxBytes
     /\ n <= chunk
     /\ wire' = wire \o SubSeq(write_buf, write_cursor + 1, Len(write_buf))
                     \o SubSeq(Ciphertext(chunk), 1, n)
     /\ IF n < chunk THEN write_buf' = Ciphertext(chunk) /\ write_cursor' = kept
                     ELSE write_buf' = <<>> /\ write_cursor' = 0
     /\ encryptor' = encryptor + chunk
     /\ accepted' = accepted + chunk
     /\ answer' = "written"
     /\ UNCHANGED <<broken, reading>>

(* Mutant of poll_write: the bytes of a partial write are kept in the buffer. *)
PollWriteKeepsAll(len, n) == WriteChunk(len, n, 0)

poll_write(len, n) == WriteChunk(len, n, n)

(* The same when the inner socket fails: the chunk has been through the encryptor
   and is lost, and the caller is told so. *)
PollWriteFails(len) ==
  LET chunk == IF len < ChunkLimit THEN len ELSE ChunkLimit
  IN /\ encryptor + chunk <= MaxBytes
     /\ Unsent = 0 \/ ~broken
     /\ flush_pending_write(Unsent)
     /\ encryptor' = encryptor + chunk
     /\ answer' = "error" /\ broken' = TRUE
     /\ UNCHANGED <<accepted, reading>>

(* Mutant of poll_flush: the buffered ciphertext is left where it is. *)
FlushInnerOnly ==
  /\ answer' = "flushed"
  /\ UNCHANGED <<accepted, encryptor, write_buf, write_cursor, wire, broken, reading>>

(* poll_flush, once the buffer is out; to flush the socket itself does nothing. *)
poll_flush ==
  /\ Unsent = 0 \/ ~broken
  /\ flush_pending_write(Unsent)
  /\ answer' = "flushed"
  /\ UNCHANGED <<accepted, encryptor, broken, reading>>

(* poll_shutdown, once the buffer is out: the socket takes nothing after it. *)
poll_shutdown ==
  /\ Unsent = 0 \/ ~broken
  /\ flush_pending_write(Unsent)
  /\ answer' = "flushed" /\ broken' = TRUE
  /\ UNCHANGED <<accepted, encryptor, reading>>

-----------------------------------------------------------------------------
(* Mutant of poll_read: what earlier polls left in the ReadBuf is decrypted again. *)
PollReadDecryptsAll(n) ==
  /\ arrived + n <= MaxBytes
  /\ arrived' = arrived + n
  /\ decryptor' = decryptor + Len(filled) + n
  /\ filled' = [i \in 1 .. Len(filled) + n |->
                 [at |-> decryptor + i, byte |-> arrived - Len(filled) + i]]
  /\ UNCHANGED writing

(* poll_read: the socket adds n bytes to the ReadBuf, and those are decrypted. *)
poll_read(n) ==
  /\ arrived + n <= MaxBytes
  /\ arrived' = arrived + n
  /\ decryptor' = decryptor + n
  /\ filled' = filled \o [i \in 1 .. n |-> [at |-> decryptor + i, byte |-> arrived + i]]
  /\ UNCHANGED writing

(* The caller has its bytes and starts another read. *)
NewReadBuf ==
  /\ filled # <<>> /\ filled' = <<>>
  /\ UNCHANGED <<decryptor, arrived, writing>>

Next ==
  \/ \E k \in 0 .. MaxBytes : Stuck(k)
  \/ \E len, n \in 0 .. MaxBytes : poll_write(len, n)
  \/ \E len \in 1 .. MaxBytes : PollWriteFails(len)
  \/ poll_flush \/ poll_shutdown
  \/ \E n \in 1 .. MaxBytes : poll_read(n)
  \/ NewReadBuf

Spec == Init /\ [][Next]_vars

-----------------------------------------------------------------------------
(* Every byte on the wire was encrypted at the position at which the client decrypts
   it, and the bytes are on the wire in the order in which they were handed over:
   partial writes, pending writes and flushes neither lose, repeat nor reorder
   ciphertext. *)
InSync == \A i \in 1 .. Len(wire) : wire[i] = InPlace(i)

(* A flush that succeeds leaves nothing behind: all that poll_write reported as
   written is with the socket. *)
FlushedIsSent == answer = "flushed" => Len(wire) = accepted

(* What was reported as written and is not with the socket waits in write_buf, which
   never holds more than one chunk: a slow client holds its writers back. *)
NothingLost ==
  /\ Len(wire) + Unsent = accepted
  /\ Len(write_buf) <= ChunkLimit

(* Every byte the caller reads was decrypted once, at its own position. *)
ReadInSync ==
  \A i \in 1 .. Len(filled) : filled[i].at = filled[i].byte
=============================================================================
