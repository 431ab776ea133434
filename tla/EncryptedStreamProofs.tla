----------------------- MODULE EncryptedStreamProofs -----------------------
(***************************************************************************)
(* The invariants of EncryptedStream, for every chunk limit and any number *)
(* of bytes.  InSync is not inductive by itself: a byte that is still in   *)
(* write_buf must already carry the position it will have on the wire      *)
(* (BufferInv), and until the socket fails the encryptor must stand where  *)
(* the next byte will be (CipherInv).                                      *)
(***************************************************************************)
EXTENDS EncryptedStream, SequenceTheorems, TLAPS

(* The bytes that wait in write_buf continue the wire. *)
BufferInv ==
  \A j \in 1 .. Len(write_buf) : j > write_cursor =>
    write_buf[j] = InPlace(Len(wire) + j - write_cursor)

(* Both ciphers are as far as the bytes they have been given. *)
CipherInv == (~broken => encryptor = accepted) /\ decryptor = arrived

Inv == TypeOK /\ InSync /\ FlushedIsSent /\ NothingLost /\ ReadInSync /\ BufferInv /\ CipherInv

(* The invariant holds for a new stream. *)
LEMMA InitInv == Init => Inv
<1> SUFFICES ASSUME Init PROVE Inv
  OBVIOUS
<1>1. Len(wire) = 0 /\ Len(write_buf) = 0 /\ Len(filled) = 0
  BY EmptySeq DEF Init
<1>2. wire \in Seq(Byte) /\ write_buf \in Seq(Byte) /\ filled \in Seq(Byte)
  BY EmptySeq DEF Init
<1>3. TypeOK
  <2>1. /\ accepted = 0 /\ encryptor = 0 /\ write_cursor = 0 /\ broken \in BOOLEAN
        /\ answer = "none" /\ decryptor = 0 /\ arrived = 0
    BY Zenon DEF Init
  <2>2. QED
    BY <1>1, <1>2, <2>1 DEF TypeOK, Answers
<1>4. InSync /\ ReadInSync /\ BufferInv
  BY <1>1 DEF InSync, ReadInSync, BufferInv
<1>5. FlushedIsSent /\ NothingLost /\ CipherInv
  BY <1>1, ChunkLimitAssumption DEF Init, FlushedIsSent, NothingLost, CipherInv, Unsent
<1>6. QED
  BY <1>3, <1>4, <1>5 DEF Inv

(* Bytes in place, continued by bytes in place. *)
LEMMA Continue ==
  ASSUME NEW s \in Seq(Byte), NEW t \in Seq(Byte),
         \A i \in 1 .. Len(s) : s[i] = InPlace(i),
         \A i \in 1 .. Len(t) : t[i] = InPlace(Len(s) + i)
  PROVE  /\ s \o t \in Seq(Byte) /\ Len(s \o t) = Len(s) + Len(t)
         /\ \A i \in 1 .. Len(s \o t) : (s \o t)[i] = InPlace(i)
<1>1. /\ s \o t \in Seq(Byte) /\ Len(s \o t) = Len(s) + Len(t)
      /\ \A i \in 1 .. Len(s) + Len(t) : (s \o t)[i] =
           IF i <= Len(s) THEN s[i] ELSE t[i - Len(s)]
  BY ConcatProperties
<1>2. Len(s) \in Nat /\ Len(t) \in Nat
  BY LenProperties
<1>3. ASSUME NEW i \in 1 .. Len(s) + Len(t)
      PROVE  (s \o t)[i] = InPlace(i)
  <2>1. CASE i <= Len(s)
    BY <1>1, <1>2, <2>1
  <2>2. CASE i > Len(s)
    <3>1. i - Len(s) \in 1 .. Len(t) /\ Len(s) + (i - Len(s)) = i
      BY <1>2, <2>2
    <3>2. t[i - Len(s)] = InPlace(i)
      BY <3>1
    <3>3. QED
      BY <1>1, <1>2, <2>2, <3>2
  <2>3. QED
    BY <1>2, <2>1, <2>2
<1>4. QED
  BY <1>1, <1>3

(* A piece of a sequence of bytes. *)
LEMMA Piece ==
  ASSUME NEW s \in Seq(Byte), NEW m \in Nat, NEW k \in Nat, m + k <= Len(s)
  PROVE  /\ SubSeq(s, m + 1, m + k) \in Seq(Byte)
         /\ Len(SubSeq(s, m + 1, m + k)) = k
         /\ \A i \in 1 .. k : SubSeq(s, m + 1, m + k)[i] = s[m + i]
<1>1. Len(s) \in Nat /\ \A i \in 1 .. Len(s) : s[i] \in Byte
  BY LenProperties, ElementOfSeq
<1>2. m + 1 \in Int /\ m + k \in Int /\ \A i \in m + 1 .. m + k : s[i] \in Byte
  BY <1>1
<1>3. /\ SubSeq(s, m + 1, m + k) \in Seq(Byte)
      /\ Len(SubSeq(s, m + 1, m + k)) = IF m + 1 <= m + k THEN m + k - (m + 1) + 1 ELSE 0
      /\ \A i \in 1 .. m + k - (m + 1) + 1 : SubSeq(s, m + 1, m + k)[i] = s[m + 1 + i - 1]
  BY <1>2, SubSeqProperties
<1>4. m + k - (m + 1) + 1 = k /\ \A i \in 1 .. k : m + 1 + i - 1 = m + i
  OBVIOUS
<1>5. QED
  BY <1>3, <1>4

(* What the inner socket takes from write_buf continues the wire. *)
LEMMA FlushStep ==
  ASSUME Inv, NEW k \in 0 .. Unsent
  PROVE  LET out == SubSeq(write_buf, write_cursor + 1, write_cursor + k)
         IN /\ wire \o out \in Seq(Byte) /\ Len(wire \o out) = Len(wire) + k
            /\ \A i \in 1 .. Len(wire \o out) : (wire \o out)[i] = InPlace(i)
<1> DEFINE out == SubSeq(write_buf, write_cursor + 1, write_cursor + k)
<1>1. /\ write_buf \in Seq(Byte) /\ wire \in Seq(Byte) /\ write_cursor \in Nat
      /\ Len(write_buf) \in Nat /\ Len(wire) \in Nat
      /\ k \in Nat /\ write_cursor + k <= Len(write_buf)
  BY LenProperties DEF Inv, TypeOK, Unsent
<1>2. /\ out \in Seq(Byte) /\ Len(out) = k
      /\ \A i \in 1 .. k : out[i] = write_buf[write_cursor + i]
  BY <1>1, Piece
<1> HIDE DEF out
<1>3. ASSUME NEW i \in 1 .. k
      PROVE  out[i] = InPlace(Len(wire) + i)
  <2>1. write_cursor + i \in 1 .. Len(write_buf) /\ write_cursor + i > write_cursor
    BY <1>1
  <2>2. Len(wire) + (write_cursor + i) - write_cursor = Len(wire) + i
    BY <1>1
  <2>3. write_buf[write_cursor + i] = InPlace(Len(wire) + i)
    BY <2>1, <2>2 DEF Inv, BufferInv
  <2>4. QED
    BY <1>2, <2>3
<1>4. /\ wire \o out \in Seq(Byte) /\ Len(wire \o out) = Len(wire) + Len(out)
      /\ \A i \in 1 .. Len(wire \o out) : (wire \o out)[i] = InPlace(i)
  BY <1>1, <1>2, <1>3, Continue DEF Inv, InSync
<1>5. QED
  BY <1>2, <1>4 DEF out

(* flush_pending_write keeps the wire in place, and what it leaves in write_buf. *)
LEMMA FlushKeeps ==
  ASSUME Inv, NEW k \in 0 .. Unsent, flush_pending_write(k)
  PROVE  /\ wire' \in Seq(Byte) /\ write_buf' \in Seq(Byte)
         /\ write_cursor' \in 0 .. Len(write_buf')
         /\ InSync' /\ BufferInv'
         /\ Len(wire') + Unsent' = Len(wire) + Unsent
         /\ Len(write_buf') <= ChunkLimit
         /\ k = Unsent => Unsent' = 0
<1>1. /\ wire' \in Seq(Byte) /\ Len(wire') = Len(wire) + k /\ InSync'
  BY FlushStep DEF flush_pending_write, InSync
<1>2. /\ write_buf \in Seq(Byte) /\ write_cursor \in Nat /\ Len(write_buf) \in Nat
      /\ Len(wire) \in Nat /\ k \in Nat /\ write_cursor <= Len(write_buf)
      /\ Len(write_buf) <= ChunkLimit
  BY LenProperties DEF Inv, TypeOK, NothingLost, Unsent
<1>3. CASE k = Unsent
  <2>1. write_buf' = <<>> /\ write_cursor' = 0
    BY <1>3 DEF flush_pending_write
  <2>2. write_buf' \in Seq(Byte) /\ Len(write_buf') = 0
    BY <2>1, EmptySeq
  <2>3. Unsent' = 0 /\ BufferInv'
    BY <2>1, <2>2 DEF Unsent, BufferInv
  <2>4. QED
    BY <1>1, <1>2, <1>3, <2>1, <2>2, <2>3, ChunkLimitAssumption DEF Unsent
<1>4. CASE k # Unsent
  <2>1. write_buf' = write_buf /\ write_cursor' = write_cursor + k
    BY <1>4 DEF flush_pending_write
  <2>2. BufferInv'
    <3> SUFFICES ASSUME NEW j \in 1 .. Len(write_buf), j > write_cursor + k
                 PROVE  write_buf[j] = InPlace(Len(wire') + j - (write_cursor + k))
      BY <2>1 DEF BufferInv
    <3>1. Len(wire') + j - (write_cursor + k) = Len(wire) + j - write_cursor /\ j > write_cursor
      BY <1>1, <1>2
    <3>2. QED
      BY <3>1 DEF Inv, BufferInv
  <2>3. QED
    BY <1>1, <1>2, <1>4, <2>1, <2>2 DEF Unsent
<1>5. QED
  BY <1>3, <1>4

(* A poll that does not get the buffer out keeps the invariant. *)
LEMMA StuckStep ==
  ASSUME Inv, NEW k \in 0 .. MaxBytes, Stuck(k)
  PROVE  Inv'
<1>1. k \in 0 .. Unsent /\ flush_pending_write(k) /\ Unsent \in Int
  BY LenProperties DEF Stuck, Unsent, Inv, TypeOK
<1>2. /\ UNCHANGED <<accepted, encryptor, decryptor, arrived, filled>>
      /\ answer' \in {"pending", "error"} /\ broken' \in BOOLEAN /\ (broken => broken')
  BY DEF Stuck, reading, Inv, TypeOK
<1>3. TypeOK'
  BY <1>1, <1>2, FlushKeeps DEF TypeOK, Inv, Answers
<1>4. NothingLost' /\ FlushedIsSent'
  BY <1>1, <1>2, FlushKeeps DEF NothingLost, FlushedIsSent, Inv
<1>5. ReadInSync' /\ CipherInv'
  BY <1>2 DEF ReadInSync, CipherInv, Inv
<1>6. QED
  BY <1>1, <1>3, <1>4, <1>5, FlushKeeps DEF Inv

(* So do a flush, a shutdown, and a write that the socket refuses. *)
LEMMA DrainStep ==
  ASSUME Inv, flush_pending_write(Unsent), accepted' = accepted,
         encryptor' \in Nat, broken' \in BOOLEAN, answer' \in Answers, UNCHANGED reading,
         ~broken' => ~broken /\ encryptor' = encryptor
  PROVE  Inv'
<1>1. Unsent \in 0 .. Unsent
  BY LenProperties DEF Unsent, Inv, TypeOK
<1>2. Unsent' = 0 /\ Len(wire') + Unsent' = Len(wire) + Unsent /\ Len(wire') \in Nat
  BY <1>1, FlushKeeps, LenProperties
<1>3. TypeOK'
  BY <1>1, FlushKeeps DEF TypeOK, Inv, reading
<1>4. NothingLost' /\ FlushedIsSent'
  BY <1>1, <1>2, FlushKeeps DEF NothingLost, FlushedIsSent, Inv
<1>5. ReadInSync' /\ CipherInv'
  BY DEF ReadInSync, CipherInv, Inv, reading
<1>6. QED
  BY <1>1, <1>3, <1>4, <1>5, FlushKeeps DEF Inv

(* Before the socket fails, a chunk is encrypted where the wire will have it. *)
LEMMA ChunkInPlace ==
  ASSUME Inv, ~broken, NEW c \in Nat
  PROVE  /\ Ciphertext(c) \in Seq(Byte) /\ Len(Ciphertext(c)) = c
         /\ \A i \in 1 .. c : Ciphertext(c)[i] = InPlace(accepted + i)
<1>1. encryptor \in Nat /\ accepted \in Nat /\ encryptor = accepted
  BY DEF Inv, TypeOK, CipherInv
<1>2. \A i \in 1 .. c : [at |-> encryptor + i, byte |-> accepted + i] \in Byte
  BY <1>1 DEF Byte
<1>3. Ciphertext(c) \in [1 .. c -> Byte]
  BY <1>2 DEF Ciphertext
<1>4. Ciphertext(c) \in Seq(Byte) /\ Len(Ciphertext(c)) = c
  BY <1>3
<1>5. \A i \in 1 .. c : Ciphertext(c)[i] = InPlace(accepted + i)
  BY <1>1 DEF Ciphertext, InPlace
<1>6. QED
  BY <1>4, <1>5

(* poll_write keeps the invariant, however much of the chunk the socket takes. *)
LEMMA WriteStep ==
  ASSUME Inv, NEW len \in 0 .. MaxBytes, NEW n \in 0 .. MaxBytes, poll_write(len, n)
  PROVE  Inv'
<1> DEFINE chunk == IF len < ChunkLimit THEN len ELSE ChunkLimit
           rest  == SubSeq(write_buf, write_cursor + 1, Len(write_buf))
           first == wire \o rest
           taken == SubSeq(Ciphertext(chunk), 1, n)
<1>1. /\ ~broken /\ n <= chunk /\ wire' = first \o taken
      /\ IF n < chunk THEN write_buf' = Ciphertext(chunk) /\ write_cursor' = n
                      ELSE write_buf' = <<>> /\ write_cursor' = 0
      /\ encryptor' = encryptor + chunk /\ accepted' = accepted + chunk
      /\ answer' = "written" /\ UNCHANGED <<broken, decryptor, arrived, filled>>
  BY DEF poll_write, WriteChunk, reading
<1>2. chunk \in Nat /\ chunk <= ChunkLimit /\ n \in Nat
  BY ChunkLimitAssumption, MaxBytesAssumption
<1>3. /\ Len(wire) \in Nat /\ Len(write_buf) \in Nat /\ accepted \in Nat
      /\ encryptor = accepted /\ write_cursor \in Nat /\ Unsent \in Nat
      /\ Unsent \in 0 .. Unsent
      /\ write_cursor + Unsent = Len(write_buf) /\ Len(wire) + Unsent = accepted
  BY <1>1, LenProperties DEF Inv, TypeOK, CipherInv, NothingLost, Unsent
<1>4. /\ first \in Seq(Byte) /\ Len(first) = accepted
      /\ \A i \in 1 .. Len(first) : first[i] = InPlace(i)
  BY <1>3, FlushStep
<1>5. /\ Ciphertext(chunk) \in Seq(Byte) /\ Len(Ciphertext(chunk)) = chunk
      /\ \A i \in 1 .. chunk : Ciphertext(chunk)[i] = InPlace(accepted + i)
  BY <1>1, <1>2, ChunkInPlace
<1> HIDE DEF chunk, rest, first
<1>6. /\ taken \in Seq(Byte) /\ Len(taken) = n
      /\ \A i \in 1 .. n : taken[i] = InPlace(accepted + i)
  <2>1. 0 + n <= Len(Ciphertext(chunk)) /\ 0 \in Nat /\ 0 + 1 = 1 /\ 0 + n = n
        /\ \A i \in 1 .. n : 0 + i = i /\ i \in 1 .. chunk
    BY <1>1, <1>2, <1>5
  <2>2. /\ SubSeq(Ciphertext(chunk), 0 + 1, 0 + n) \in Seq(Byte)
        /\ Len(SubSeq(Ciphertext(chunk), 0 + 1, 0 + n)) = n
        /\ \A i \in 1 .. n : SubSeq(Ciphertext(chunk), 0 + 1, 0 + n)[i]
                              = Ciphertext(chunk)[0 + i]
    BY <1>2, <1>5, <2>1, Piece
  <2>3. QED
    BY <1>5, <2>1, <2>2
<1> HIDE DEF taken
<1>7. wire' \in Seq(Byte) /\ Len(wire') = accepted + n /\ InSync'
  BY <1>1, <1>4, <1>6, Continue DEF InSync
<1>8. /\ write_buf' \in Seq(Byte) /\ write_cursor' \in 0 .. Len(write_buf')
      /\ Len(wire') + Unsent' = accepted' /\ Len(write_buf') <= ChunkLimit /\ BufferInv'
  <2>1. CASE n < chunk
    <3>1. write_buf' = Ciphertext(chunk) /\ write_cursor' = n /\ Len(write_buf') = chunk
      BY <1>1, <1>5, <2>1
    <3>2. BufferInv'
      <4> SUFFICES ASSUME NEW j \in 1 .. Len(write_buf'), j > write_cursor'
                   PROVE  write_buf'[j] = InPlace(Len(wire') + j - write_cursor')
        BY DEF BufferInv
      <4>1. Len(wire') + j - write_cursor' = accepted + j
        BY <1>2, <1>3, <1>7, <3>1
      <4>2. QED
        BY <1>2, <1>5, <3>1, <4>1
    <3>3. Unsent' = chunk - n
      BY <3>1 DEF Unsent
    <3>4. write_cursor' \in 0 .. Len(write_buf') /\ Len(wire') + Unsent' = accepted'
      BY <1>1, <1>2, <1>3, <1>7, <2>1, <3>1, <3>3
    <3>5. QED
      BY <1>2, <1>5, <3>1, <3>2, <3>4
  <2>2. CASE ~(n < chunk)
    <3>1. write_buf' = <<>> /\ write_cursor' = 0 /\ n = chunk
      BY <1>1, <1>2, <2>2
    <3>2. write_buf' \in Seq(Byte) /\ Len(write_buf') = 0
      BY <3>1, EmptySeq
    <3>3. BufferInv'
      BY <3>2 DEF BufferInv
    <3>4. QED
      BY <1>1, <1>2, <1>3, <1>7, <3>1, <3>2, <3>3, ChunkLimitAssumption DEF Unsent
  <2>3. QED
    BY <2>1, <2>2
<1>9. TypeOK'
  BY <1>1, <1>2, <1>3, <1>7, <1>8 DEF TypeOK, Inv, Answers
<1>10. FlushedIsSent' /\ NothingLost'
  BY <1>1, <1>8 DEF FlushedIsSent, NothingLost
<1>11. ReadInSync' /\ CipherInv'
  BY <1>1, <1>3 DEF ReadInSync, CipherInv, Inv
<1>12. QED
  BY <1>7, <1>8, <1>9, <1>10, <1>11 DEF Inv

(* poll_read keeps the invariant: the new bytes meet the decryptor in their place. *)
LEMMA ReadStep ==
  ASSUME Inv, NEW n \in 1 .. MaxBytes, poll_read(n)
  PROVE  Inv'
<1> DEFINE new == [i \in 1 .. n |-> [at |-> decryptor + i, byte |-> arrived + i]]
<1>1. /\ filled' = filled \o new /\ decryptor' = decryptor + n /\ arrived' = arrived + n
      /\ UNCHANGED writing
  BY DEF poll_read
<1>2. /\ decryptor \in Nat /\ arrived \in Nat /\ decryptor = arrived /\ n \in Nat
      /\ filled \in Seq(Byte) /\ Len(filled) \in Nat
  BY LenProperties, MaxBytesAssumption DEF Inv, TypeOK, CipherInv
<1>3. new \in [1 .. n -> Byte] /\ \A i \in 1 .. n : new[i].at = new[i].byte
  BY <1>2 DEF Byte
<1> HIDE DEF new
<1>4. new \in Seq(Byte) /\ Len(new) = n
  BY <1>2, <1>3
<1>5. /\ filled \o new \in Seq(Byte) /\ Len(filled \o new) = Len(filled) + n
      /\ \A i \in 1 .. Len(filled) + n : (filled \o new)[i] =
           IF i <= Len(filled) THEN filled[i] ELSE new[i - Len(filled)]
  BY <1>2, <1>4, ConcatProperties
<1>6. ReadInSync'
  <2> SUFFICES ASSUME NEW i \in 1 .. Len(filled) + n
               PROVE  (filled \o new)[i].at = (filled \o new)[i].byte
    BY <1>1, <1>5 DEF ReadInSync
  <2>1. CASE i <= Len(filled)
    <3>1. (filled \o new)[i] = filled[i] /\ i \in 1 .. Len(filled)
      BY <1>2, <1>5, <2>1
    <3>2. QED
      BY <3>1 DEF Inv, ReadInSync
  <2>2. CASE i > Len(filled)
    <3>1. (filled \o new)[i] = new[i - Len(filled)] /\ i - Len(filled) \in 1 .. n
      BY <1>2, <1>5, <2>2
    <3>2. QED
      BY <1>3, <3>1
  <2>3. i <= Len(filled) \/ i > Len(filled)
    BY <1>2
  <2>4. QED
    BY <2>1, <2>2, <2>3, Zenon
<1>7. TypeOK' /\ CipherInv'
  BY <1>1, <1>2, <1>5 DEF TypeOK, CipherInv, Inv, writing
<1>8. InSync' /\ FlushedIsSent' /\ NothingLost' /\ BufferInv'
  BY <1>1 DEF InSync, FlushedIsSent, NothingLost, BufferInv, Inv, writing, Unsent
<1>9. QED
  BY <1>6, <1>7, <1>8 DEF Inv

(* Every poll keeps the invariant. *)
LEMMA NextStep == Inv /\ [Next]_vars => Inv'
<1> SUFFICES ASSUME Inv, [Next]_vars PROVE Inv'
  OBVIOUS
<1>1. ASSUME NEW len \in 1 .. MaxBytes, PollWriteFails(len) PROVE Inv'
  <2>1. IF len < ChunkLimit THEN len \in Nat ELSE ChunkLimit \in Nat
    BY ChunkLimitAssumption
  <2>2. /\ flush_pending_write(Unsent) /\ accepted' = accepted /\ encryptor' \in Nat
        /\ broken' = TRUE /\ answer' \in Answers /\ UNCHANGED reading
    BY <1>1, <2>1 DEF PollWriteFails, Answers, Inv, TypeOK
  <2>3. QED
    BY <2>2, DrainStep
<1>2. CASE poll_flush
  BY <1>2, DrainStep DEF poll_flush, Answers, Inv, TypeOK
<1>3. CASE poll_shutdown
  BY <1>3, DrainStep DEF poll_shutdown, Answers, Inv, TypeOK
<1>4. CASE NewReadBuf
  <2>1. filled' \in Seq(Byte) /\ Len(filled') = 0 /\ UNCHANGED <<decryptor, arrived, writing>>
    BY <1>4, EmptySeq DEF NewReadBuf
  <2>2. TypeOK' /\ CipherInv' /\ ReadInSync'
    BY <2>1 DEF TypeOK, CipherInv, ReadInSync, Inv, writing
  <2>3. InSync' /\ FlushedIsSent' /\ NothingLost' /\ BufferInv'
    BY <2>1 DEF InSync, FlushedIsSent, NothingLost, BufferInv, Inv, writing, Unsent
  <2>4. QED
    BY <2>2, <2>3 DEF Inv
<1>5. CASE UNCHANGED vars
  BY <1>5 DEF vars, writing, reading, Inv, TypeOK, InSync, FlushedIsSent, NothingLost,
     ReadInSync, BufferInv, CipherInv, Unsent
<1>6. QED
  BY <1>1, <1>2, <1>3, <1>4, <1>5, StuckStep, WriteStep, ReadStep DEF Next

(* For every chunk limit, and however the socket splits, delays or refuses what it is
   offered, the client decrypts each byte at the position it was encrypted at. *)
THEOREM WireInSync == Spec => []InSync
BY InitInv, NextStep, PTL DEF Spec, Inv

(* What poll_write reported as written is with the socket or in write_buf, and never
   more than one chunk waits there. *)
THEOREM WritesAccountedFor == Spec => []NothingLost
BY InitInv, NextStep, PTL DEF Spec, Inv

(* A successful poll_flush leaves no ciphertext behind. *)
THEOREM FlushComplete == Spec => []FlushedIsSent
BY InitInv, NextStep, PTL DEF Spec, Inv

(* The cursor of flush_pending_write never leaves write_buf. *)
THEOREM TypeCorrect == Spec => []TypeOK
BY InitInv, NextStep, PTL DEF Spec, Inv

(* The caller of poll_read gets every byte decrypted once, at its position. *)
THEOREM PlaintextInSync == Spec => []ReadInSync
BY InitInv, NextStep, PTL DEF Spec, Inv
=============================================================================
