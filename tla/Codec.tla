-------------------------------- MODULE Codec --------------------------------
(***************************************************************************)
(* How the fields of packets are laid out in bytes: the field types the    *)
(* packet codecs share, on top of the VarInts of Frames.                   *)
(*                                                                         *)
(* A reader goes on where the reader before it stopped: it takes what that *)
(* one handed back, and fails if that one has failed.                      *)
(***************************************************************************)
EXTENDS Frames, SequencesExt

(* Writers. *)
Text(s)   == encode_varint(Len(s)) \o s          \* a String or a byte array
Flag(b)   == <<IF b THEN 1 ELSE 0>>
Short(n)  == <<(n \div 256) % 256, n % 256>>      \* put_u16 of a length
OptText(o) == IF o = <<>> THEN Flag(FALSE) ELSE Flag(TRUE) \o Text(o[1])
Many(seq, put(_)) ==
  encode_varint(Len(seq)) \o FlattenSeq([i \in DOMAIN seq |-> put(seq[i])])

(* Before the first field, and a value made of what was read so far. *)
Start(b)     == Got(<<>>, b)
With(r, val) == IF r.ok THEN Got(val, r.rest) ELSE Failed

(* What was read, or something else if that failed. *)
OrElse(r, val) == IF r.ok THEN r.val ELSE val

GetVarInt(r) == IF r.ok THEN decode_varint(r.rest) ELSE Failed
GetRaw(n, r) == IF r.ok THEN Take(n, r.rest) ELSE Failed    \* n bytes as they are
GetRest(r)   == IF r.ok THEN Got(r.rest, <<>>) ELSE Failed
GetU8(r)     == IF r.ok /\ r.rest # <<>> THEN Got(Head(r.rest), Tail(r.rest)) ELSE Failed
GetI8(r)     == LET x == GetU8(r) IN With(x, IF x.val < 128 THEN x.val ELSE x.val - 256)
GetBool(r)   == LET x == GetU8(r) IN With(x, x.val # 0)
GetU16(r)    == LET s == GetRaw(2, r) IN With(s, s.val[1] * 256 + s.val[2])
GetText(r)   == LET len == GetVarInt(r) IN GetRaw(len.val, len)

(* An optional value is a sequence of at most one. *)
Opts(values) == {<<>>} \cup {<<x>> : x \in values}

GetOptText(r) ==
  LET some == GetBool(r)
      x    == GetText(some)
  IN IF some.ok /\ some.val THEN With(x, <<x.val>>) ELSE With(some, <<>>)

(* What is read next, if n bytes are left, and what it is otherwise. *)
IfLeft(n, r, next, otherwise) ==
  IF r.ok /\ Len(r.rest) >= n THEN next ELSE With(r, otherwise)

(* What is read next, if it is there. *)
GetIf(there, r, get(_)) == IF there THEN get(r) ELSE r

(* A count of at most max, and as many values. *)
GetMany(r, max, get(_)) ==
  LET n == GetVarInt(r)
      after[i \in 0 .. n.val] ==
        IF i = 0 THEN With(n, <<>>)
        ELSE LET xs == after[i - 1]
                 x  == get(xs)
             IN IF xs.ok THEN With(x, Append(xs.val, x.val)) ELSE Failed
  IN IF n.ok /\ n.val \in 0 .. max THEN after[n.val] ELSE Failed
=============================================================================
