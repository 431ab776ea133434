-------------------------------- MODULE Frames --------------------------------
(***************************************************************************)
(* VarInts with their 32 bits (src/src/protocol/varint.rs) and the frame   *)
(* around a packet (src/src/network/codec.rs).                             *)
(*                                                                         *)
(* Byte strings are sequences of 0 .. 255.  Writers are concatenations.    *)
(* A reader takes bytes from a front and hands back a value and the rest,  *)
(* or fails.                                                               *)
(***************************************************************************)
EXTENDS Integers, Sequences, FiniteSetsExt

MaxInt32 == 2147483647    \* i32::MAX

(* What a reader hands back. *)
Failed         == [ok |-> FALSE]
Got(val, rest) == [ok |-> TRUE, val |-> val, rest |-> rest]

(* Runs `next' on what a reader got, unless it failed. *)
Then(r, next(_, _)) == IF r.ok THEN next(r.val, r.rest) ELSE Failed

Take(n, b) ==
  IF n < 0 \/ Len(b) < n THEN Failed ELSE Got(SubSeq(b, 1, n), SubSeq(b, n + 1, Len(b)))

-----------------------------------------------------------------------------
(* VarInts: groups of seven bits of a two's complement 32-bit integer, low ones first;
   the fifth group has the four bits that are left. *)
Weight == <<1, 128, 16384, 2097152, 268435456>>

Group(x, i) == (x \div Weight[i]) % (IF i = 5 THEN 16 ELSE 128)

encode_varint(x) ==
  LET last == Max({1} \cup {i \in 1 .. 5 : Group(x, i) # 0})
  IN [i \in 1 .. last |-> Group(x, i) + (IF i < last THEN 128 ELSE 0)]

varint_size(x) ==
  IF x < 0 \/ x >= Weight[5] THEN 5 ELSE Min({n \in 1 .. 4 : x < Weight[n + 1]})

(* A fifth byte has no more than the four bits. *)
decode_varint(b) ==
  LET ends     == {n \in 1 .. 5 : n <= Len(b) /\ b[n] < 128}
      n        == Min(ends)
      digit(i) == IF i <= n THEN b[i] % 128 ELSE 0
      high     == IF digit(5) < 8 THEN digit(5) ELSE digit(5) - 16
  IN IF ends = {} \/ (n = 5 /\ b[5] >= 16) THEN Failed
     ELSE Got(digit(1) + digit(2) * Weight[2] + digit(3) * Weight[3]
                + digit(4) * Weight[4] + high * Weight[5], SubSeq(b, n + 1, Len(b)))

-----------------------------------------------------------------------------
(* Zlib: any two inverse functions will do, if only they change the length. *)
Compress(b)   == <<120>> \o b
Decompress(b) == IF b # <<>> /\ b[1] = 120 THEN Tail(b) ELSE <<>>

(* A packet and its frame; no threshold is <<>>, the threshold t is <<t>>. *)
Packed(p) == encode_varint(p.id) \o p.payload

encode_packet_with_compression(p, threshold) ==
  LET len == varint_size(p.id) + Len(p.payload)
  IN IF threshold = <<>> THEN encode_varint(len) \o Packed(p)
     ELSE IF len < threshold[1] THEN encode_varint(1 + len) \o encode_varint(0) \o Packed(p)
     ELSE LET z == Compress(Packed(p))
          IN encode_varint(varint_size(len) + Len(z)) \o encode_varint(len) \o z

(* The packet in b; `left' stays on the stream. *)
Unpacked(b, left) ==
  Then(decode_varint(b), LAMBDA id, payload : Got([id |-> id, payload |-> payload], left))

(* Mutant of Opened: a packet of the threshold's own length counts as too short to be
   compressed. *)
OpenedTooStrict(body, left, max_size, threshold) ==
  IF threshold = <<>> THEN Unpacked(body, left)
  ELSE Then(decode_varint(body), LAMBDA data_length, data :
    IF data_length = 0 THEN Unpacked(data, left)
    ELSE IF data_length \notin threshold[1] + 1 .. max_size THEN Failed
    ELSE Unpacked(Decompress(data), left))

(* The packet in the body of a frame. *)
Opened(body, left, max_size, threshold) ==
  IF threshold = <<>> THEN Unpacked(body, left)
  ELSE Then(decode_varint(body), LAMBDA data_length, data :
    IF data_length = 0 THEN Unpacked(data, left)
    ELSE IF data_length \notin threshold[1] .. max_size THEN Failed
    ELSE LET raw == Decompress(data)
         IN IF Len(raw) # data_length THEN Failed ELSE Unpacked(raw, left))

read_packet_with_compression(b, max_size, threshold) ==
  Then(decode_varint(b), LAMBDA length, rest :
    IF length \notin 1 .. max_size THEN Failed
    ELSE Then(Take(length, rest), LAMBDA body, left : Opened(body, left, max_size, threshold)))
=============================================================================
