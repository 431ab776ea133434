------------------------------ MODULE CodecProofs -----------------------------
(***************************************************************************)
(* What is proved of VarInts, frames and fields, for every number of 32    *)
(* bits, every payload, threshold and limit: a frame delivers its packet   *)
(* and takes exactly its own bytes off the stream, and whatever bytes      *)
(* arrive, what is accepted fits the limit.                                *)
(*                                                                         *)
(* A reader is followed along the bytes b it is given, when b \o m is what *)
(* a writer wrote: At(r, x, s, m) says that a reader r has x and that s is *)
(* left of the whole, or that it failed and m is not empty.  Each reader   *)
(* of Codec has one lemma that takes At over one field.  The lemma on a    *)
(* kind of packet of PacketCodec chains those of its fields; lists are     *)
(* followed item by item, by the least index at which they could go wrong. *)
(*                                                                         *)
(* Numbers near 2^31 are sent to the SMT solver only, and MaxInt32 stays   *)
(* folded: Zenon has numbers in unary.                                     *)
(***************************************************************************)
EXTENDS PacketCodec, SequenceTheorems, WellFoundedInduction, TLAPS

(* u8, and i32 as the code uses it for ids and lengths. *)
Bytes == 0 .. 255
Int32 == {x \in Int : -2147483648 <= x /\ x <= 2147483647}

(* The bits below each group. *)
LEMMA Weights ==
  /\ Weight[1] = 1 /\ Weight[2] = 128 /\ Weight[3] = 16384 /\ Weight[4] = 2097152
  /\ Weight[5] = 268435456
BY SMT DEF Weight

(* The groups of a number, written out. *)
LEMMA Groups ==
  ASSUME NEW x \in Int
  PROVE  /\ Group(x, 1) = x % 128 /\ Group(x, 2) = (x \div 128) % 128
         /\ Group(x, 3) = (x \div 16384) % 128 /\ Group(x, 4) = (x \div 2097152) % 128
         /\ Group(x, 5) = (x \div 268435456) % 16
<1>1. x \div 1 = x
  BY SMT
<1>2. QED
  BY <1>1, Weights, SMT DEF Group

(* The groups make up the number, of which the last is the top with its sign. *)
LEMMA GroupsSum ==
  ASSUME NEW x \in Int32
  PROVE  /\ x = Group(x, 1) + Group(x, 2) * 128 + Group(x, 3) * 16384 + Group(x, 4) * 2097152
                  + (IF Group(x, 5) < 8 THEN Group(x, 5) ELSE Group(x, 5) - 16) * 268435456
         /\ \A i \in 1 .. 5 : Group(x, i) \in 0 .. 127
         /\ Group(x, 5) \in 0 .. 15
<1>1. x \in Int /\ -2147483648 <= x /\ x <= 2147483647
  BY SMT DEF Int32
<1>2. x = (x % 128) + ((x \div 128) % 128) * 128 + ((x \div 16384) % 128) * 16384
            + ((x \div 2097152) % 128) * 2097152 + (x \div 268435456) * 268435456
  BY <1>1, SMT
<1>3. x \div 268435456 \in -8 .. 7
  BY <1>1, SMT
<1>4. x \div 268435456 = LET g == (x \div 268435456) % 16 IN IF g < 8 THEN g ELSE g - 16
  BY <1>3, SMT
<1>5. /\ Group(x, 1) = x % 128 /\ Group(x, 2) = (x \div 128) % 128
      /\ Group(x, 3) = (x \div 16384) % 128 /\ Group(x, 4) = (x \div 2097152) % 128
      /\ Group(x, 5) = (x \div 268435456) % 16
  BY <1>1, Groups
<1>6. Group(x, 1) \in 0 .. 127
  BY <1>1, <1>5, SMT
<1>7. Group(x, 2) \in 0 .. 127
  BY <1>1, <1>5, SMT
<1>8. Group(x, 3) \in 0 .. 127
  BY <1>1, <1>5, SMT
<1>9. Group(x, 4) \in 0 .. 127
  BY <1>1, <1>5, SMT
<1>10. Group(x, 5) \in 0 .. 15
  BY <1>1, <1>5, SMT
<1>11. \A i \in 1 .. 5 : Group(x, i) \in 0 .. 127
  <2>1. Group(x, 5) \in 0 .. 127
    BY <1>10, SMT
  <2>2. \A i \in 1 .. 5 : i = 1 \/ i = 2 \/ i = 3 \/ i = 4 \/ i = 5
    BY SMT
  <2>3. QED
    BY <1>6, <1>7, <1>8, <1>9, <2>1, <2>2, Zenon
<1>12. x = Group(x, 1) + Group(x, 2) * 128 + Group(x, 3) * 16384 + Group(x, 4) * 2097152
             + (IF Group(x, 5) < 8 THEN Group(x, 5) ELSE Group(x, 5) - 16) * 268435456
  BY <1>1, <1>2, <1>4, <1>5, SMT
<1>13. QED
  BY <1>10, <1>11, <1>12, SMT

(* How many groups are written. *)
LastGroup(x) == Max({1} \cup {i \in 1 .. 5 : Group(x, i) # 0})

(* The last group that is written is the highest that is not zero. *)
LEMMA LastShape ==
  ASSUME NEW x
  PROVE  /\ LastGroup(x) \in 1 .. 5
         /\ LastGroup(x) = 1 \/ Group(x, LastGroup(x)) # 0
         /\ \A i \in 1 .. 5 : i > LastGroup(x) => Group(x, i) = 0
<1> DEFINE S == {1} \cup {i \in 1 .. 5 : Group(x, i) # 0}
<1>1. \E m \in S : \A i \in S : m >= i
  <2>1. CASE Group(x, 5) # 0
    BY <2>1
  <2>2. CASE Group(x, 5) = 0 /\ Group(x, 4) # 0
    BY <2>2
  <2>3. CASE Group(x, 5) = 0 /\ Group(x, 4) = 0 /\ Group(x, 3) # 0
    BY <2>3
  <2>4. CASE Group(x, 5) = 0 /\ Group(x, 4) = 0 /\ Group(x, 3) = 0 /\ Group(x, 2) # 0
    BY <2>4
  <2>5. CASE Group(x, 5) = 0 /\ Group(x, 4) = 0 /\ Group(x, 3) = 0 /\ Group(x, 2) = 0
    BY <2>5
  <2>6. QED
    BY <2>1, <2>2, <2>3, <2>4, <2>5
<1>2. LastGroup(x) = CHOOSE m \in S : \A i \in S : m >= i
  BY DEF LastGroup, Max
<1> HIDE DEF S
<1>3. LastGroup(x) \in S /\ \A i \in S : LastGroup(x) >= i
  BY <1>1, <1>2
<1>4. QED
  BY <1>3 DEF S

(* Digit by digit, what a VarInt is on the wire. *)
LEMMA EncodeShape ==
  ASSUME NEW x \in Int32
  PROVE  /\ encode_varint(x) \in Seq(Bytes) /\ Len(encode_varint(x)) = LastGroup(x)
         /\ \A i \in 1 .. LastGroup(x) :
              encode_varint(x)[i] = Group(x, i) + (IF i < LastGroup(x) THEN 128 ELSE 0)
<1> DEFINE e == encode_varint(x)
<1>1. LastGroup(x) \in 1 .. 5
  BY LastShape
<1>2. e = [i \in 1 .. LastGroup(x) |-> Group(x, i) + (IF i < LastGroup(x) THEN 128 ELSE 0)]
  BY DEF encode_varint, LastGroup
<1>3. \A i \in 1 .. 5 : Group(x, i) \in 0 .. 127
  BY GroupsSum, SMT
<1> HIDE DEF e
<1>4. e \in [1 .. LastGroup(x) -> Bytes]
  <2>1. ASSUME NEW i \in 1 .. LastGroup(x)
        PROVE  Group(x, i) + (IF i < LastGroup(x) THEN 128 ELSE 0) \in 0 .. 255
    <3>1. i \in 1 .. 5
      BY <1>1, SMT
    <3>2. Group(x, i) \in 0 .. 127
      BY <1>3, <3>1, Zenon
    <3> DEFINE g == Group(x, i)
    <3>3. g \in 0 .. 127
      BY <3>2
    <3> HIDE DEF g
    <3>4. g + 128 \in 0 .. 255 /\ g + 0 \in 0 .. 255
      BY <3>3, SMT
    <3>5. QED
      BY <3>4, Zenon DEF g
  <2>2. QED
    BY <1>2, <2>1, Zenon DEF Bytes
<1>5. LastGroup(x) \in Nat
  BY <1>1
<1>6. e \in Seq(Bytes)
  BY <1>4, <1>5, SeqDef
<1>7. Len(e) = LastGroup(x)
  BY <1>4, <1>5, <1>6, LenProperties
<1>8. QED
  BY <1>2, <1>6, <1>7 DEF e

(* Cutting off a front. *)
LEMMA CutFront ==
  ASSUME NEW S, NEW s \in Seq(S), NEW t \in Seq(S)
  PROVE  /\ SubSeq(s \o t, 1, Len(s)) = s
         /\ SubSeq(s \o t, Len(s) + 1, Len(s \o t)) = t
<1> DEFINE u == s \o t
           v == SubSeq(u, 1, Len(s))
           w == SubSeq(u, Len(s) + 1, Len(u))
<1>1. /\ Len(s) \in Nat /\ Len(t) \in Nat /\ \A i \in 1 .. Len(s) : s[i] \in S
      /\ \A i \in 1 .. Len(t) : t[i] \in S
  BY LenProperties, ElementOfSeq
<1>2. /\ u \in Seq(S) /\ Len(u) = Len(s) + Len(t)
      /\ \A i \in 1 .. Len(s) + Len(t) : u[i] = IF i <= Len(s) THEN s[i] ELSE t[i - Len(s)]
  BY ConcatProperties
<1> HIDE DEF u
<1>3. \A i \in 1 .. Len(s) + Len(t) : u[i] \in S
  BY <1>2, ElementOfSeq
<1>4. v = s
  <2>1. /\ v \in Seq(S) /\ Len(v) = (IF 1 <= Len(s) THEN Len(s) - 1 + 1 ELSE 0)
        /\ \A i \in 1 .. Len(s) - 1 + 1 : v[i] = u[1 + i - 1]
    BY <1>1, <1>3, SubSeqProperties
  <2> HIDE DEF v
  <2>2. Len(v) = Len(s)
    BY <1>1, <2>1
  <2>3. \A i \in 1 .. Len(v) : v[i] = s[i]
    BY <1>1, <1>2, <2>1, <2>2
  <2>4. QED
    BY <2>1, <2>2, <2>3, SeqEqual
<1>5. w = t
  <2>1. Len(s) + 1 \in Int /\ Len(u) \in Int /\ \A i \in Len(s) + 1 .. Len(u) : u[i] \in S
    BY <1>1, <1>2, <1>3
  <2>2. /\ w \in Seq(S)
        /\ Len(w) = (IF Len(s) + 1 <= Len(u) THEN Len(u) - (Len(s) + 1) + 1 ELSE 0)
        /\ \A i \in 1 .. Len(u) - (Len(s) + 1) + 1 : w[i] = u[(Len(s) + 1) + i - 1]
    BY <2>1, SubSeqProperties
  <2> HIDE DEF w
  <2>3. Len(w) = Len(t)
    BY <1>1, <1>2, <2>2
  <2>4. ASSUME NEW i \in 1 .. Len(w) PROVE w[i] = t[i]
    <3>1. /\ i \in 1 .. Len(u) - (Len(s) + 1) + 1 /\ (Len(s) + 1) + i - 1 = Len(s) + i
          /\ Len(s) + i \in 1 .. Len(s) + Len(t) /\ ~(Len(s) + i <= Len(s))
          /\ (Len(s) + i) - Len(s) = i
      BY <1>1, <1>2, <2>3
    <3>2. QED
      BY <1>2, <2>2, <3>1
  <2>5. QED
    BY <2>2, <2>3, <2>4, SeqEqual
<1>6. QED
  BY <1>4, <1>5 DEF u

(* The bytes of a VarInt in front of others. *)
LEMMA DecodeEncode ==
  ASSUME NEW x \in Int32, NEW rest \in Seq(Bytes)
  PROVE  decode_varint(encode_varint(x) \o rest) = Got(x, rest)
<1> DEFINE l == LastGroup(x)
           e == encode_varint(x)
           b == e \o rest
<1>1. /\ l \in 1 .. 5
      /\ \A i \in 1 .. 5 : i > l => Group(x, i) = 0
  BY LastShape
<1>2. /\ \A i \in 1 .. 5 : Group(x, i) \in 0 .. 127
      /\ Group(x, 5) \in 0 .. 15
  BY GroupsSum
<1>3. /\ e \in Seq(Bytes) /\ Len(e) = l
      /\ \A i \in 1 .. l : e[i] = Group(x, i) + (IF i < l THEN 128 ELSE 0)
  BY EncodeShape
<1> HIDE DEF e, l
<1>4. Len(rest) \in Nat
  BY LenProperties
<1>5. Len(b) = l + Len(rest) /\ \A i \in 1 .. l : b[i] = e[i]
  <2>1. /\ Len(b) = Len(e) + Len(rest)
        /\ \A i \in 1 .. Len(e) + Len(rest) : b[i] = IF i <= Len(e) THEN e[i] ELSE rest[i - Len(e)]
    BY <1>3, ConcatProperties
  <2> HIDE DEF b
  <2>2. QED
    BY <1>1, <1>3, <1>4, <2>1
<1>6. SubSeq(b, l + 1, Len(b)) = rest
  BY <1>3, CutFront
<1> DEFINE ends     == {k \in 1 .. 5 : k <= Len(b) /\ b[k] < 128}
           n        == Min(ends)
           digit(i) == IF i <= n THEN b[i] % 128 ELSE 0
           high     == IF digit(5) < 8 THEN digit(5) ELSE digit(5) - 16
<1>7. decode_varint(b) =
        IF ends = {} \/ (n = 5 /\ b[5] >= 16) THEN Failed
        ELSE Got(digit(1) + digit(2) * Weight[2] + digit(3) * Weight[3]
                   + digit(4) * Weight[4] + high * Weight[5], SubSeq(b, n + 1, Len(b)))
  BY DEF decode_varint
<1> HIDE DEF b, ends, n, digit, high
<1>8. ASSUME NEW i \in 1 .. 5
      PROVE  /\ i < l => b[i] = Group(x, i) + 128
             /\ i = l => b[i] = Group(x, i)
  <2>1. Group(x, i) \in 0 .. 127
    BY <1>2
  <2>2. i <= l => i \in 1 .. l
    BY <1>1
  <2>3. i <= l => b[i] = Group(x, i) + (IF i < l THEN 128 ELSE 0)
    BY <1>3, <1>5, <2>2
  <2> DEFINE g == Group(x, i)
  <2>4. g \in 0 .. 127
    BY <2>1
  <2>5. i <= l => b[i] = g + (IF i < l THEN 128 ELSE 0)
    BY <2>3
  <2> HIDE DEF g
  <2>6. /\ i < l => b[i] = g + 128
        /\ i = l => b[i] = g
    BY <1>1, <2>4, <2>5
  <2>7. QED
    BY <2>6 DEF g
<1>9. l \in ends /\ \A k \in ends : l <= k
  <2>1. ASSUME NEW i \in 1 .. 5
        PROVE  (i < l => ~(b[i] < 128)) /\ (i = l => b[i] < 128)
    <3> DEFINE g == Group(x, i)
    <3>1. g \in 0 .. 127
      BY <1>2
    <3>2. (i < l => b[i] = g + 128) /\ (i = l => b[i] = g)
      BY <1>8
    <3> HIDE DEF g
    <3>3. QED
      BY <3>1, <3>2
  <2>2. l <= Len(b)
    BY <1>1, <1>4, <1>5
  <2>3. l \in ends
    BY <1>1, <2>1, <2>2 DEF ends
  <2>4. ASSUME NEW k \in ends PROVE l <= k
    <3>1. k \in 1 .. 5 /\ b[k] < 128
      BY DEF ends
    <3>2. ~(k < l)
      BY <2>1, <3>1
    <3>3. QED
      BY <1>1, <3>1, <3>2
  <2>5. QED
    BY <2>3, <2>4
<1>10. n = l
  <2>1. \A k \in ends : k \in 1 .. 5
    BY DEF ends
  <2>2. n \in ends /\ \A k \in ends : n <= k
    BY <1>9 DEF n, Min
  <2>3. QED
    BY <1>1, <1>9, <2>1, <2>2
<1>11. ~(n = 5 /\ b[5] >= 16)
  <2> SUFFICES ASSUME l = 5 PROVE ~(b[5] >= 16)
    BY <1>10
  <2>1. b[5] = Group(x, 5)
    BY <1>8
  <2>2. QED
    BY <1>2, <2>1
<1>12. ASSUME NEW i \in 1 .. 5 PROVE digit(i) = Group(x, i)
  <2> DEFINE g == Group(x, i)
  <2>1. g \in 0 .. 127 /\ (i > l => g = 0)
    BY <1>1, <1>2
  <2>2. (i < l => b[i] = g + 128) /\ (i = l => b[i] = g)
    BY <1>8
  <2> HIDE DEF g
  <2>3. (g + 128) % 128 = g /\ g % 128 = g
    BY <2>1
  <2>4. digit(i) = g
    <3>1. CASE i < l
      BY <1>1, <1>10, <2>2, <2>3, <3>1 DEF digit
    <3>2. CASE i = l
      BY <1>1, <1>10, <2>2, <2>3, <3>2 DEF digit
    <3>3. CASE i > l
      BY <1>1, <1>10, <2>1, <3>3 DEF digit
    <3>4. QED
      BY <1>1, <3>1, <3>2, <3>3
  <2>5. QED
    BY <2>4 DEF g
<1>13. digit(1) + digit(2) * Weight[2] + digit(3) * Weight[3] + digit(4) * Weight[4]
         + high * Weight[5] = x
  <2>1. /\ digit(1) = Group(x, 1) /\ digit(2) = Group(x, 2) /\ digit(3) = Group(x, 3)
        /\ digit(4) = Group(x, 4) /\ digit(5) = Group(x, 5)
    BY <1>12
  <2>2. x = Group(x, 1) + Group(x, 2) * 128 + Group(x, 3) * 16384 + Group(x, 4) * 2097152
              + (IF Group(x, 5) < 8 THEN Group(x, 5) ELSE Group(x, 5) - 16) * 268435456
    BY GroupsSum, SMT
  <2>3. QED
    BY <2>1, <2>2, Weights, SMT DEF high
<1>14. decode_varint(b) = Got(x, rest)
  BY <1>6, <1>7, <1>9, <1>10, <1>11, <1>13, Zenon
<1>15. QED
  BY <1>14 DEF b, e

-----------------------------------------------------------------------------
(* The length a writer announces for a VarInt is the length it takes. *)
LEMMA SizeOfEncoded ==
  ASSUME NEW x \in Int32
  PROVE  varint_size(x) \in 1 .. 5 /\ Len(encode_varint(x)) = varint_size(x)
<1>1. x \in Int /\ -2147483648 <= x /\ x <= 2147483647
  BY SMT DEF Int32
<1>2. /\ LastGroup(x) \in 1 .. 5
      /\ LastGroup(x) = 1 \/ Group(x, LastGroup(x)) # 0
      /\ \A i \in 1 .. 5 : i > LastGroup(x) => Group(x, i) = 0
  BY LastShape, SMT
<1>3. Len(encode_varint(x)) = LastGroup(x)
  BY EncodeShape, SMT
<1> DEFINE S == {n \in 1 .. 4 : x < Weight[n + 1]}
<1>4. \A n \in 1 .. 4 : n \in S <=> x < Weight[n + 1]
  BY SMT
<1>5. /\ 1 \in S <=> x < 128
      /\ 2 \in S <=> x < 16384
      /\ 3 \in S <=> x < 2097152
      /\ 4 \in S <=> x < 268435456
  BY <1>4, Weights, SMT
<1>6. varint_size(x) = IF x < 0 \/ x >= 268435456 THEN 5 ELSE Min(S)
  BY Weights, SMT DEF varint_size
<1>7. S \subseteq 1 .. 4
  BY SMT
<1> HIDE DEF S
<1>8. ASSUME NEW k \in S, \A i \in S : k <= i PROVE Min(S) = k
  <2>1. Min(S) \in S /\ \A i \in S : Min(S) <= i
    BY <1>8, SMT DEF Min
  <2>2. Min(S) \in 1 .. 4 /\ k \in 1 .. 4 /\ Min(S) <= k /\ k <= Min(S)
    BY <1>7, <1>8, <2>1
  <2>3. QED
    BY <2>2
<1>9. /\ Group(x, 1) = x % 128 /\ Group(x, 2) = (x \div 128) % 128
      /\ Group(x, 3) = (x \div 16384) % 128 /\ Group(x, 4) = (x \div 2097152) % 128
      /\ Group(x, 5) = (x \div 268435456) % 16
  BY <1>1, Groups, SMT
<1>10. CASE x < 0 \/ x >= 268435456
  <2>1. (x \div 268435456) % 16 # 0
    BY <1>1, <1>10, SMT
  <2>2. LastGroup(x) = 5
    BY <1>2, <1>9, <2>1, SMT
  <2>3. QED
    BY <1>3, <1>6, <1>10, <2>2, SMT
<1>11. CASE x >= 0 /\ x < 128
  <2>1. /\ (x \div 128) % 128 = 0 /\ (x \div 16384) % 128 = 0
        /\ (x \div 2097152) % 128 = 0 /\ (x \div 268435456) % 16 = 0
    BY <1>1, <1>11, SMT
  <2>2. LastGroup(x) = 1
    BY <1>2, <1>9, <2>1, SMT
  <2>3. Min(S) = 1
    BY <1>5, <1>7, <1>8, <1>11, SMT
  <2>4. QED
    BY <1>1, <1>3, <1>6, <1>11, <2>2, <2>3, SMT
<1>12. CASE x >= 128 /\ x < 16384
  <2>1. /\ (x \div 128) % 128 # 0 /\ (x \div 16384) % 128 = 0
        /\ (x \div 2097152) % 128 = 0 /\ (x \div 268435456) % 16 = 0
    BY <1>1, <1>12, SMT
  <2>2. LastGroup(x) = 2
    BY <1>2, <1>9, <2>1, SMT
  <2>3. 1 \notin S /\ 2 \in S
    BY <1>1, <1>5, <1>12, SMT
  <2>4. Min(S) = 2
    BY <1>7, <1>8, <2>3, SMT
  <2>5. QED
    BY <1>1, <1>3, <1>6, <1>12, <2>2, <2>4, SMT
<1>13. CASE x >= 16384 /\ x < 2097152
  <2>1. /\ (x \div 16384) % 128 # 0
        /\ (x \div 2097152) % 128 = 0 /\ (x \div 268435456) % 16 = 0
    BY <1>1, <1>13, SMT
  <2>2. LastGroup(x) = 3
    BY <1>2, <1>9, <2>1, SMT
  <2>3. 1 \notin S /\ 2 \notin S /\ 3 \in S
    BY <1>1, <1>5, <1>13, SMT
  <2>4. Min(S) = 3
    BY <1>7, <1>8, <2>3, SMT
  <2>5. QED
    BY <1>1, <1>3, <1>6, <1>13, <2>2, <2>4, SMT
<1>14. CASE x >= 2097152 /\ x < 268435456
  <2>1. (x \div 2097152) % 128 # 0 /\ (x \div 268435456) % 16 = 0
    BY <1>1, <1>14, SMT
  <2>2. LastGroup(x) = 4
    BY <1>2, <1>9, <2>1, SMT
  <2>3. 1 \notin S /\ 2 \notin S /\ 3 \notin S /\ 4 \in S
    BY <1>1, <1>5, <1>14, SMT
  <2>4. Min(S) = 4
    BY <1>7, <1>8, <2>3, SMT
  <2>5. QED
    BY <1>1, <1>3, <1>6, <1>14, <2>2, <2>4, SMT
<1>15. QED
  BY <1>1, <1>10, <1>11, <1>12, <1>13, <1>14, SMT

(* The one byte in front of data that are not compressed. *)
LEMMA ZeroIsOneByte == 0 \in Int32 /\ 0 \in Nat /\ varint_size(0) = 1
<1>1. 0 \in Int32
  BY SMT DEF Int32
<1> DEFINE S == {n \in 1 .. 4 : 0 < Weight[n + 1]}
<1>2. varint_size(0) = Min(S) /\ 1 \in S /\ \A n \in S : n \in 1 .. 4
  BY Weights, SMT DEF varint_size
<1> HIDE DEF S
<1>3. \A n \in S : 1 <= n
  BY <1>2
<1>4. Min(S) \in S /\ \A n \in S : Min(S) <= n
  BY <1>2, <1>3 DEF Min
<1>5. QED
  BY <1>1, <1>2, <1>4

(* Packets as the code holds them. *)
RawPackets == [id : Int32, payload : Seq(Bytes)]

(* The writer's sum of lengths is the length of what it packs. *)
LEMMA PackedShape ==
  ASSUME NEW p \in RawPackets
  PROVE  /\ Packed(p) \in Seq(Bytes)
         /\ Len(Packed(p)) = varint_size(p.id) + Len(p.payload)
         /\ Len(Packed(p)) \in Nat \ {0}
<1>1. p.id \in Int32 /\ p.payload \in Seq(Bytes)
  BY DEF RawPackets
<1>2. /\ encode_varint(p.id) \in Seq(Bytes)
      /\ Len(encode_varint(p.id)) = varint_size(p.id) /\ varint_size(p.id) \in 1 .. 5
  BY <1>1, EncodeShape, SizeOfEncoded
<1>3. /\ Packed(p) \in Seq(Bytes)
      /\ Len(Packed(p)) = Len(encode_varint(p.id)) + Len(p.payload)
  BY <1>1, <1>2, ConcatProperties DEF Packed
<1>4. Len(p.payload) \in Nat
  BY <1>1, LenProperties
<1>5. QED
  BY <1>2, <1>3, <1>4

(* The reader takes a packed packet apart again. *)
LEMMA UnpackedPacked ==
  ASSUME NEW p \in RawPackets, NEW left
  PROVE  Unpacked(Packed(p), left) = Got(p, left)
<1>1. p.id \in Int32 /\ p.payload \in Seq(Bytes) /\ p = [id |-> p.id, payload |-> p.payload]
  BY DEF RawPackets
<1>2. decode_varint(Packed(p)) = Got(p.id, p.payload)
  BY <1>1, DecodeEncode DEF Packed
<1>3. Unpacked(Packed(p), left) =
        LET r == decode_varint(Packed(p))
        IN IF r.ok THEN Got([id |-> r.val, payload |-> r.rest], left) ELSE Failed
  BY DEF Unpacked, Then
<1>4. /\ decode_varint(Packed(p)).ok = TRUE /\ decode_varint(Packed(p)).val = p.id
      /\ decode_varint(Packed(p)).rest = p.payload
  BY <1>2, SMT DEF Got
<1>5. QED
  BY <1>1, <1>3, <1>4, Zenon

(* All that is used of zlib for what was compressed. *)
LEMMA ZlibInverse ==
  ASSUME NEW b \in Seq(Bytes)
  PROVE  Compress(b) \in Seq(Bytes) /\ Decompress(Compress(b)) = b
<1> DEFINE h == <<120>>
           c == h \o b
<1>1. Len(h) = 1 /\ h[1] = 120
  OBVIOUS
<1>9. h \in Seq(Bytes)
  BY DEF Bytes
<1> HIDE DEF h
<1>2. Len(b) \in Nat
  BY LenProperties
<1>3. /\ c \in Seq(Bytes) /\ Len(c) = Len(h) + Len(b)
      /\ \A i \in 1 .. Len(h) + Len(b) : c[i] = IF i <= Len(h) THEN h[i] ELSE b[i - Len(h)]
  BY <1>9, ConcatProperties
<1>4. SubSeq(c, Len(h) + 1, Len(c)) = b
  BY <1>9, CutFront
<1> HIDE DEF c
<1>5. c[1] = 120 /\ Len(c) # 0
  BY <1>1, <1>2, <1>3
<1>6. c # <<>>
  BY <1>5
<1>7. Tail(c) = b
  <2>1. Tail(c) = SubSeq(c, 2, Len(c))
    BY <1>3, <1>6, TailIsSubSeq
  <2>2. QED
    BY <1>1, <1>4, <2>1
<1>8. QED
  BY <1>3, <1>5, <1>6, <1>7 DEF Compress, Decompress, c, h

-----------------------------------------------------------------------------
(* A length within the limit survives `as i32'. *)
LEMMA LengthIsInt32 ==
  ASSUME NEW n \in Nat, NEW max_size \in Nat, n <= max_size, max_size <= MaxInt32
  PROVE  n \in Int32
BY SMT DEF Int32, MaxInt32

(* A body behind its length, and other bytes behind it. *)
LEMMA ReadBody ==
  ASSUME NEW body \in Seq(Bytes), NEW rest \in Seq(Bytes), NEW threshold, NEW max_size \in Nat,
         max_size <= MaxInt32, Len(body) # 0, Len(body) <= max_size
  PROVE  read_packet_with_compression((encode_varint(Len(body)) \o body) \o rest, max_size, threshold)
           = Opened(body, rest, max_size, threshold)
<1> DEFINE n == Len(body)
           b == (encode_varint(n) \o body) \o rest
           c == body \o rest
<1>1. n \in Nat /\ n # 0 /\ n <= max_size
  BY LenProperties
<1>2. n \in Int32
  BY <1>1, LengthIsInt32
<1>3. encode_varint(n) \in Seq(Bytes)
  BY <1>2, EncodeShape
<1>4. b = encode_varint(n) \o c
  BY <1>3, ConcatAssociative
<1>5. c \in Seq(Bytes) /\ Len(c) = Len(body) + Len(rest)
  BY ConcatProperties
<1> HIDE DEF b
<1>6. decode_varint(b) = Got(n, c)
  BY <1>2, <1>4, <1>5, DecodeEncode
<1>7. SubSeq(c, 1, n) = body /\ SubSeq(c, n + 1, Len(c)) = rest
  BY CutFront
<1>8. Len(rest) \in Nat
  BY LenProperties
<1> HIDE DEF c, n
<1>9. Take(n, c) = Got(body, rest)
  <2>1. ~(n < 0 \/ Len(c) < n)
    BY <1>1, <1>5, <1>8 DEF n
  <2>2. QED
    BY <1>7, <2>1 DEF Take
<1>10. read_packet_with_compression(b, max_size, threshold) =
         LET r == decode_varint(b)
         IN IF ~r.ok THEN Failed
            ELSE IF r.val \notin 1 .. max_size THEN Failed
            ELSE LET t == Take(r.val, r.rest)
                 IN IF t.ok THEN Opened(t.val, t.rest, max_size, threshold) ELSE Failed
  BY Zenon DEF read_packet_with_compression, Then
<1>11. n \in 1 .. max_size
  BY <1>1
<1>12. read_packet_with_compression(b, max_size, threshold) =
         LET t == Take(n, c)
         IN IF t.ok THEN Opened(t.val, t.rest, max_size, threshold) ELSE Failed
  <2>1. decode_varint(b).ok = TRUE /\ decode_varint(b).val = n /\ decode_varint(b).rest = c
    BY <1>6, SMT DEF Got
  <2>2. QED
    BY <1>10, <1>11, <2>1, Zenon
<1>13. read_packet_with_compression(b, max_size, threshold)
         = Opened(body, rest, max_size, threshold)
  <2>1. Take(n, c).ok = TRUE /\ Take(n, c).val = body /\ Take(n, c).rest = rest
    BY <1>9, SMT DEF Got
  <2>2. QED
    BY <1>12, <2>1, Zenon
<1>14. QED
  BY <1>13 DEF b, n

(* A body that starts with the length of its data. *)
LEMMA ReadData ==
  ASSUME NEW d \in Nat, d \in Int32, NEW data \in Seq(Bytes), NEW rest \in Seq(Bytes),
         NEW threshold, threshold # <<>>, NEW max_size \in Nat, max_size <= MaxInt32,
         varint_size(d) + Len(data) <= max_size
  PROVE  read_packet_with_compression(
           (encode_varint(varint_size(d) + Len(data)) \o encode_varint(d) \o data) \o rest,
           max_size, threshold)
         = IF d = 0 THEN Unpacked(data, rest)
           ELSE IF d \notin threshold[1] .. max_size THEN Failed
           ELSE IF Len(Decompress(data)) # d THEN Failed
           ELSE Unpacked(Decompress(data), rest)
<1> DEFINE mid  == encode_varint(d)
           body == mid \o data
           n    == varint_size(d) + Len(data)
           b    == (encode_varint(n) \o mid \o data) \o rest
<1>1. mid \in Seq(Bytes) /\ Len(mid) = varint_size(d) /\ varint_size(d) \in 1 .. 5
  BY EncodeShape, SizeOfEncoded
<1>2. decode_varint(body) = Got(d, data)
  BY DecodeEncode
<1> HIDE DEF mid
<1>3. body \in Seq(Bytes) /\ Len(body) = n
  BY <1>1, ConcatProperties
<1>4. n \in Nat /\ n # 0 /\ n <= max_size
  <2>1. Len(data) \in Nat
    BY LenProperties
  <2>2. QED
    BY <1>1, <2>1
<1> HIDE DEF n
<1>5. encode_varint(n) \in Seq(Bytes)
  BY <1>4, LengthIsInt32, EncodeShape
<1>6. encode_varint(n) \o mid \o data = encode_varint(n) \o body
  <2>1. mid \in Seq(Bytes)
    BY <1>1
  <2>2. \A s, u, v \in Seq(Bytes) : (s \o u) \o v = s \o (u \o v)
    BY ConcatAssociative
  <2>3. QED
    BY <1>5, <2>1, <2>2, Zenon
<1> HIDE DEF body
<1>7. b = (encode_varint(Len(body)) \o body) \o rest
  BY <1>3, <1>6
<1> HIDE DEF b
<1>8. read_packet_with_compression(b, max_size, threshold)
        = Opened(body, rest, max_size, threshold)
  BY <1>3, <1>4, <1>7, ReadBody
<1>9. Opened(body, rest, max_size, threshold) =
        LET r == decode_varint(body)
        IN IF ~r.ok THEN Failed
           ELSE IF r.val = 0 THEN Unpacked(r.rest, rest)
           ELSE IF r.val \notin threshold[1] .. max_size THEN Failed
           ELSE IF Len(Decompress(r.rest)) # r.val THEN Failed
           ELSE Unpacked(Decompress(r.rest), rest)
  BY Zenon DEF Opened, Then
<1>10. /\ decode_varint(body).ok = TRUE /\ decode_varint(body).val = d
       /\ decode_varint(body).rest = data
  BY <1>2, SMT DEF Got
<1>11. read_packet_with_compression(b, max_size, threshold)
         = IF d = 0 THEN Unpacked(data, rest)
           ELSE IF d \notin threshold[1] .. max_size THEN Failed
           ELSE IF Len(Decompress(data)) # d THEN Failed
           ELSE Unpacked(Decompress(data), rest)
  BY <1>8, <1>9, <1>10, Zenon
<1>12. QED
  BY <1>11 DEF b, n, mid

(* The length of the body of a packet's frame. *)
BodyLength(p, threshold) ==
  LET len == Len(Packed(p))
  IN IF threshold = <<>> THEN len
     ELSE IF len < threshold[1] THEN 1 + len
     ELSE varint_size(len) + Len(Compress(Packed(p)))

(* read_packet_with_compression reads from what encode_packet_with_compression wrote just
   the packet, at any threshold, and leaves the bytes behind the frame for the next
   read: the lengths that the writer computes with varint_size, without encoding, are the
   lengths that the reader meets.  The limit is one of a packet and of a frame's body. *)
THEOREM FrameDelivered ==
  ASSUME NEW p \in RawPackets, NEW t \in Nat, NEW threshold \in {<<>>, <<t>>},
         NEW max_size \in Nat, max_size <= MaxInt32,
         Len(Packed(p)) <= max_size, BodyLength(p, threshold) <= max_size,
         NEW rest \in Seq(Bytes)
  PROVE  read_packet_with_compression(
           encode_packet_with_compression(p, threshold) \o rest, max_size, threshold)
           = Got(p, rest)
<1> DEFINE q   == Packed(p)
           len == varint_size(p.id) + Len(p.payload)
           z   == Compress(q)
<1>1. q \in Seq(Bytes) /\ Len(q) = len /\ len \in Nat \ {0}
  BY PackedShape
<1>2. Unpacked(q, rest) = Got(p, rest)
  BY UnpackedPacked
<1>3. z \in Seq(Bytes) /\ Decompress(z) = q
  BY <1>1, ZlibInverse
<1>4. len \in Int32
  BY <1>1, LengthIsInt32
<1>5. encode_packet_with_compression(p, threshold) =
        IF threshold = <<>> THEN encode_varint(len) \o q
        ELSE IF len < threshold[1] THEN encode_varint(1 + len) \o encode_varint(0) \o q
        ELSE encode_varint(varint_size(len) + Len(z)) \o encode_varint(len) \o z
  BY Zenon DEF encode_packet_with_compression
<1>6. BodyLength(p, threshold) =
        IF threshold = <<>> THEN len
        ELSE IF len < threshold[1] THEN 1 + len
        ELSE varint_size(len) + Len(z)
  BY <1>1, Zenon DEF BodyLength
<1> HIDE DEF q, len, z
<1>7. CASE threshold = <<>>
  <2>1. encode_packet_with_compression(p, threshold) = encode_varint(Len(q)) \o q
    BY <1>1, <1>5, <1>7, Zenon
  <2>2. Len(q) # 0 /\ Len(q) <= max_size
    BY <1>1 DEF q
  <2>3. read_packet_with_compression(
          encode_packet_with_compression(p, threshold) \o rest, max_size, threshold)
          = Opened(q, rest, max_size, threshold)
    BY <1>1, <2>1, <2>2, ReadBody
  <2>4. Opened(q, rest, max_size, threshold) = Unpacked(q, rest)
    BY <1>7, Zenon DEF Opened
  <2>5. QED
    BY <1>2, <2>3, <2>4
<1>8. CASE threshold = <<t>> /\ len < t
  <2>1. 0 \in Int32 /\ 0 \in Nat /\ varint_size(0) = 1
    BY ZeroIsOneByte
  <2>2. threshold # <<>> /\ threshold[1] = t
    BY <1>8
  <2>3. varint_size(0) + Len(q) <= max_size
    BY <1>1, <1>6, <1>8, <2>1, <2>2
  <2>4. encode_packet_with_compression(p, threshold)
          = encode_varint(varint_size(0) + Len(q)) \o encode_varint(0) \o q
    BY <1>1, <1>5, <1>8, <2>1, <2>2, Zenon
  <2>5. QED
    BY <1>1, <1>2, <2>1, <2>2, <2>3, <2>4, ReadData
<1>9. CASE threshold = <<t>> /\ ~(len < t)
  <2>1. threshold # <<>> /\ threshold[1] = t
    BY <1>9
  <2>2. varint_size(len) + Len(z) <= max_size
    BY <1>6, <1>9, <2>1
  <2>3. encode_packet_with_compression(p, threshold)
          = encode_varint(varint_size(len) + Len(z)) \o encode_varint(len) \o z
    BY <1>5, <1>9, <2>1, Zenon
  <2>4. len \in Nat /\ len # 0 /\ len \in threshold[1] .. max_size
    <3>1. len <= max_size
      BY <1>1 DEF q
    <3>2. QED
      BY <1>1, <1>9, <2>1, <3>1
  <2>5. read_packet_with_compression(
          encode_packet_with_compression(p, threshold) \o rest, max_size, threshold)
        = IF len = 0 THEN Unpacked(z, rest)
          ELSE IF len \notin threshold[1] .. max_size THEN Failed
          ELSE IF Len(Decompress(z)) # len THEN Failed
          ELSE Unpacked(Decompress(z), rest)
    BY <1>3, <1>4, <2>1, <2>2, <2>3, <2>4, ReadData
  <2>6. QED
    BY <1>1, <1>2, <1>3, <2>4, <2>5, Zenon
<1>10. QED
  BY <1>7, <1>8, <1>9

-----------------------------------------------------------------------------
(* What is left behind a front. *)
LEMMA CutRest ==
  ASSUME NEW b \in Seq(Bytes), NEW n \in Nat, n <= Len(b)
  PROVE  /\ SubSeq(b, 1, n) \in Seq(Bytes) /\ Len(SubSeq(b, 1, n)) = n
         /\ SubSeq(b, n + 1, Len(b)) \in Seq(Bytes) /\ Len(SubSeq(b, n + 1, Len(b))) = Len(b) - n
<1>1. Len(b) \in Nat /\ \A i \in 1 .. Len(b) : b[i] \in Bytes
  BY LenProperties, ElementOfSeq
<1>2. /\ n \in Int /\ n + 1 \in Int /\ Len(b) \in Int /\ 1 \in Int
      /\ \A i \in 1 .. n : b[i] \in Bytes
      /\ \A i \in n + 1 .. Len(b) : b[i] \in Bytes
  BY <1>1
<1>3. /\ SubSeq(b, 1, n) \in Seq(Bytes)
      /\ Len(SubSeq(b, 1, n)) = IF 1 <= n THEN n - 1 + 1 ELSE 0
  BY <1>2, SubSeqProperties
<1>4. /\ SubSeq(b, n + 1, Len(b)) \in Seq(Bytes)
      /\ Len(SubSeq(b, n + 1, Len(b))) = IF n + 1 <= Len(b) THEN Len(b) - (n + 1) + 1 ELSE 0
  BY <1>2, SubSeqProperties
<1>5. QED
  BY <1>1, <1>3, <1>4

(* Whatever bytes there are, a VarInt read from them has 32 bits and took a byte. *)
LEMMA DecodeSound ==
  ASSUME NEW b \in Seq(Bytes), decode_varint(b).ok
  PROVE  /\ decode_varint(b).val \in Int32
         /\ decode_varint(b).rest \in Seq(Bytes)
         /\ Len(decode_varint(b).rest) < Len(b)
<1> DEFINE ends     == {k \in 1 .. 5 : k <= Len(b) /\ b[k] < 128}
           n        == Min(ends)
           digit(i) == IF i <= n THEN b[i] % 128 ELSE 0
           high     == IF digit(5) < 8 THEN digit(5) ELSE digit(5) - 16
           sum      == digit(1) + digit(2) * Weight[2] + digit(3) * Weight[3]
                         + digit(4) * Weight[4] + high * Weight[5]
           left     == SubSeq(b, n + 1, Len(b))
<1>1. decode_varint(b) =
        IF ends = {} \/ (n = 5 /\ b[5] >= 16) THEN Failed ELSE Got(sum, left)
  BY DEF decode_varint
<1>2. Len(b) \in Nat /\ \A i \in 1 .. Len(b) : b[i] \in Bytes
  BY LenProperties, ElementOfSeq
<1> HIDE DEF ends, n, digit, high, sum, left
<1>3. ~(ends = {} \/ (n = 5 /\ b[5] >= 16)) /\ decode_varint(b) = Got(sum, left)
  <2>1. ~Failed.ok
    BY DEF Failed
  <2>2. QED
    BY <1>1, <2>1, Zenon
<1>4. n \in 1 .. 5 /\ n <= Len(b)
  <2>1. \A k \in ends : k \in 1 .. 5 /\ k <= Len(b)
    BY DEF ends
  <2>2. \E k \in ends : \A j \in ends : k <= j
    <3>1. CASE 1 \in ends
      BY <2>1, <3>1
    <3>2. CASE 1 \notin ends /\ 2 \in ends
      BY <2>1, <3>2
    <3>3. CASE 1 \notin ends /\ 2 \notin ends /\ 3 \in ends
      BY <2>1, <3>3
    <3>4. CASE 1 \notin ends /\ 2 \notin ends /\ 3 \notin ends /\ 4 \in ends
      BY <2>1, <3>4
    <3>5. CASE 1 \notin ends /\ 2 \notin ends /\ 3 \notin ends /\ 4 \notin ends
      BY <1>3, <2>1, <3>5
    <3>6. QED
      BY <3>1, <3>2, <3>3, <3>4, <3>5
  <2>3. n \in ends
    BY <2>2 DEF n, Min
  <2>4. QED
    BY <2>1, <2>3
<1>5. ASSUME NEW i \in 1 .. 5 PROVE digit(i) \in 0 .. 127
  <2>1. CASE i <= n
    <3>1. i \in 1 .. Len(b)
      BY <1>2, <1>4, <2>1
    <3>2. b[i] \in 0 .. 255
      BY <1>2, <3>1 DEF Bytes
    <3> DEFINE c == b[i]
    <3>3. c \in 0 .. 255
      BY <3>2
    <3> HIDE DEF c
    <3>4. c % 128 \in 0 .. 127
      BY <3>3
    <3>5. QED
      BY <2>1, <3>4, Zenon DEF digit, c
  <2>2. CASE ~(i <= n)
    BY <2>2 DEF digit
  <2>3. QED
    BY <2>1, <2>2
<1>6. digit(5) \in 0 .. 15
  <2>1. CASE n = 5
    <3>1. 5 \in 1 .. Len(b)
      BY <1>2, <1>4, <2>1
    <3>2. b[5] \in 0 .. 255
      BY <1>2, <3>1 DEF Bytes
    <3>3. ~(b[5] >= 16)
      BY <1>3, <2>1
    <3> DEFINE c == b[5]
    <3>4. c \in 0 .. 255 /\ ~(c >= 16)
      BY <3>2, <3>3
    <3> HIDE DEF c
    <3>5. c % 128 \in 0 .. 15
      BY <3>4
    <3>6. digit(5) = c % 128
      BY <2>1 DEF digit, c
    <3>7. QED
      BY <3>5, <3>6
  <2>2. CASE n # 5
    <3>1. ~(5 <= n)
      BY <1>4, <2>2
    <3>2. QED
      BY <3>1 DEF digit
  <2>3. QED
    BY <2>1, <2>2
<1>7. sum \in Int32
  <2>1. /\ digit(1) \in 0 .. 127 /\ digit(2) \in 0 .. 127
        /\ digit(3) \in 0 .. 127 /\ digit(4) \in 0 .. 127
    BY <1>5
  <2>2. high \in -8 .. 7
    <3> DEFINE g == digit(5)
    <3>1. g \in 0 .. 15
      BY <1>6
    <3> HIDE DEF g
    <3>2. (IF g < 8 THEN g ELSE g - 16) \in -8 .. 7
      BY <3>1, SMT
    <3>3. QED
      BY <3>2, Zenon DEF high, g
  <2>3. sum = digit(1) + digit(2) * 128 + digit(3) * 16384 + digit(4) * 2097152 + high * 268435456
    <3>1. /\ Weight[2] = 128 /\ Weight[3] = 16384 /\ Weight[4] = 2097152
          /\ Weight[5] = 268435456
      BY Weights, SMT
    <3>2. QED
      BY <2>1, <2>2, <3>1, SMT DEF sum
  <2> DEFINE d1 == digit(1)  d2 == digit(2)  d3 == digit(3)  d4 == digit(4)
  <2>4. /\ d1 \in 0 .. 127 /\ d2 \in 0 .. 127 /\ d3 \in 0 .. 127 /\ d4 \in 0 .. 127
        /\ sum = d1 + d2 * 128 + d3 * 16384 + d4 * 2097152 + high * 268435456
    BY <2>1, <2>3, SMT
  <2> HIDE DEF d1, d2, d3, d4
  <2>5. QED
    BY <2>2, <2>4, SMT DEF Int32
<1>8. left \in Seq(Bytes) /\ Len(left) = Len(b) - n
  BY <1>4, CutRest DEF left
<1>9. decode_varint(b).val = sum /\ decode_varint(b).rest = left
  BY <1>3, SMT DEF Got
<1>10. Len(left) < Len(b)
  BY <1>2, <1>4, <1>8
<1>11. QED
  BY <1>7, <1>8, <1>9, <1>10, Zenon

(* What is unpacked from any bytes is a packet, and smaller than they are. *)
LEMMA UnpackedSound ==
  ASSUME NEW b \in Seq(Bytes), NEW left, Unpacked(b, left).ok
  PROVE  /\ Unpacked(b, left).val \in RawPackets
         /\ Len(Unpacked(b, left).val.payload) < Len(b)
         /\ Unpacked(b, left).rest = left
<1> DEFINE r == decode_varint(b)
           p == [id |-> r.val, payload |-> r.rest]
<1>1. Unpacked(b, left) = IF r.ok THEN Got(p, left) ELSE Failed
  BY DEF Unpacked, Then
<1>2. ~Failed.ok
  BY DEF Failed
<1>3. r.ok
  BY <1>1, <1>2, Zenon
<1>4. r.val \in Int32 /\ r.rest \in Seq(Bytes) /\ Len(r.rest) < Len(b)
  BY <1>3, DecodeSound
<1> HIDE DEF r
<1>5. p \in RawPackets /\ p.payload = r.rest
  BY <1>4 DEF RawPackets
<1> HIDE DEF p
<1>6. Unpacked(b, left) = Got(p, left)
  BY <1>1, <1>3, Zenon
<1>7. Unpacked(b, left).val = p /\ Unpacked(b, left).rest = left
  BY <1>6, SMT DEF Got
<1>8. QED
  BY <1>4, <1>5, <1>7, Zenon

(* All that is used of zlib for bytes that nobody compressed. *)
LEMMA DecompressSound ==
  ASSUME NEW b \in Seq(Bytes)
  PROVE  Decompress(b) \in Seq(Bytes)
<1>1. CASE b # <<>> /\ b[1] = 120
  <2>1. Tail(b) \in Seq(Bytes)
    BY <1>1, HeadTailProperties
  <2>2. QED
    BY <1>1, <2>1, Zenon DEF Decompress
<1>2. CASE ~(b # <<>> /\ b[1] = 120)
  <2>1. <<>> \in Seq(Bytes)
    BY EmptySeq
  <2>2. QED
    BY <1>2, <2>1, Zenon DEF Decompress
<1>3. QED
  BY <1>1, <1>2

(* The packet in a body fits the limit if the body does. *)
LEMMA OpenedSound ==
  ASSUME NEW body \in Seq(Bytes), NEW left, NEW max_size \in Nat, Len(body) <= max_size,
         NEW threshold, Opened(body, left, max_size, threshold).ok
  PROVE  /\ Opened(body, left, max_size, threshold).val \in RawPackets
         /\ Len(Opened(body, left, max_size, threshold).val.payload) < max_size
         /\ Opened(body, left, max_size, threshold).rest = left
<1> DEFINE o   == Opened(body, left, max_size, threshold)
           r   == decode_varint(body)
           raw == Decompress(r.rest)
<1>1. ASSUME NEW b \in Seq(Bytes), Len(b) <= max_size, o = Unpacked(b, left)
      PROVE  o.val \in RawPackets /\ Len(o.val.payload) < max_size /\ o.rest = left
  <2>1. Unpacked(b, left).ok
    BY <1>1, Zenon
  <2>2. /\ Unpacked(b, left).val \in RawPackets
        /\ Len(Unpacked(b, left).val.payload) < Len(b)
        /\ Unpacked(b, left).rest = left
    BY <2>1, UnpackedSound, Zenon
  <2>3. o.val \in RawPackets /\ Len(o.val.payload) < Len(b) /\ o.rest = left
    BY <1>1, <2>2, Zenon
  <2>4. o.val.payload \in Seq(Bytes)
    BY <2>3 DEF RawPackets
  <2>5. Len(o.val.payload) \in Nat /\ Len(b) \in Nat
    BY <2>4, LenProperties
  <2> HIDE DEF o
  <2>6. QED
    BY <1>1, <2>3, <2>5
<1>2. CASE threshold = <<>>
  <2>1. o = Unpacked(body, left)
    BY <1>2, Zenon DEF Opened
  <2>2. QED
    BY <1>1, <2>1
<1>3. CASE threshold # <<>>
  <2>1. o = IF ~r.ok THEN Failed
            ELSE IF r.val = 0 THEN Unpacked(r.rest, left)
            ELSE IF r.val \notin threshold[1] .. max_size THEN Failed
            ELSE IF Len(raw) # r.val THEN Failed
            ELSE Unpacked(raw, left)
    BY <1>3, Zenon DEF Opened, Then
  <2>2. ~Failed.ok
    BY DEF Failed
  <2>3. r.ok
    BY <2>1, <2>2, Zenon
  <2>4. r.val \in Int32 /\ r.rest \in Seq(Bytes) /\ Len(r.rest) < Len(body)
    BY <2>3, DecodeSound
  <2>5. raw \in Seq(Bytes)
    BY <2>4, DecompressSound
  <2> HIDE DEF r, raw
  <2>6. CASE r.val = 0
    <3>1. o = Unpacked(r.rest, left)
      BY <2>1, <2>3, <2>6, Zenon
    <3>2. Len(r.rest) <= max_size
      <4>1. Len(r.rest) \in Nat /\ Len(body) \in Nat
        BY <2>4, LenProperties
      <4>2. QED
        BY <2>4, <4>1
    <3>3. QED
      BY <1>1, <2>4, <3>1, <3>2
  <2>7. CASE r.val # 0
    <3>1. /\ r.val \in threshold[1] .. max_size /\ Len(raw) = r.val
          /\ o = Unpacked(raw, left)
      BY <2>1, <2>2, <2>3, <2>7, Zenon
    <3>2. Len(raw) <= max_size
      <4>1. Len(raw) \in Nat
        BY <2>5, LenProperties
      <4>2. QED
        BY <3>1, <4>1
    <3>3. QED
      BY <1>1, <2>5, <3>1, <3>2
  <2>8. QED
    BY <2>6, <2>7
<1>4. QED
  BY <1>2, <1>3

(* Whatever bytes arrive, what read_packet_with_compression accepts is a packet with an
   i32 for an id, fits max_size also after it was decompressed (the check of data_length),
   and has taken bytes off the stream, so that a loop of reads advances. *)
THEOREM AcceptedFits ==
  ASSUME NEW b \in Seq(Bytes), NEW max_size \in Nat, NEW t \in Nat, NEW threshold \in {<<>>, <<t>>},
         read_packet_with_compression(b, max_size, threshold).ok
  PROVE  LET r == read_packet_with_compression(b, max_size, threshold)
         IN /\ r.val \in RawPackets /\ Len(r.val.payload) < max_size
            /\ r.rest \in Seq(Bytes) /\ Len(r.rest) < Len(b)
<1> DEFINE r    == read_packet_with_compression(b, max_size, threshold)
           d    == decode_varint(b)
           taken == Take(d.val, d.rest)
           body == SubSeq(d.rest, 1, d.val)
           left == SubSeq(d.rest, d.val + 1, Len(d.rest))
<1>1. r = IF ~d.ok THEN Failed
          ELSE IF d.val \notin 1 .. max_size THEN Failed
          ELSE IF taken.ok THEN Opened(taken.val, taken.rest, max_size, threshold) ELSE Failed
  BY Zenon DEF read_packet_with_compression, Then
<1>2. ~Failed.ok
  BY DEF Failed
<1>3. d.ok /\ d.val \in 1 .. max_size /\ taken.ok
      /\ r = Opened(taken.val, taken.rest, max_size, threshold)
  BY <1>1, <1>2, Zenon
<1>4. d.rest \in Seq(Bytes) /\ Len(d.rest) < Len(b)
  BY <1>3, DecodeSound
<1>5. ~(d.val < 0 \/ Len(d.rest) < d.val) /\ taken = Got(body, left)
  <2>1. taken = IF d.val < 0 \/ Len(d.rest) < d.val THEN Failed ELSE Got(body, left)
    BY Zenon DEF Take
  <2> HIDE DEF taken
  <2>2. QED
    BY <1>2, <1>3, <2>1, Zenon
<1>6. taken.val = body /\ taken.rest = left
  <2>1. taken = Got(body, left)
    BY <1>5
  <2> HIDE DEF taken, body, left
  <2>2. QED
    BY <2>1, SMT DEF Got
<1>7. Len(d.rest) \in Nat /\ Len(b) \in Nat
  BY <1>4, LenProperties
<1> HIDE DEF r, taken
<1>8. d.val \in Nat /\ d.val <= Len(d.rest) /\ d.val <= max_size /\ d.val >= 1
  BY <1>3, <1>5, <1>7
<1>9. /\ body \in Seq(Bytes) /\ Len(body) = d.val
      /\ left \in Seq(Bytes) /\ Len(left) = Len(d.rest) - d.val
  BY <1>4, <1>8, CutRest
<1> HIDE DEF body, left
<1>10. r = Opened(body, left, max_size, threshold)
  BY <1>3, <1>6, Zenon
<1>11. r.ok
  BY DEF r
<1>12. Opened(body, left, max_size, threshold).ok
  BY <1>10, <1>11, Zenon
<1>13. Len(body) <= max_size
  BY <1>8, <1>9, Zenon
<1>14. /\ Opened(body, left, max_size, threshold).val \in RawPackets
       /\ Len(Opened(body, left, max_size, threshold).val.payload) < max_size
       /\ Opened(body, left, max_size, threshold).rest = left
  <2>1. body \in Seq(Bytes)
    BY <1>9
  <2>2. QED
    BY <1>12, <1>13, <2>1, OpenedSound
<1>15. r.val \in RawPackets /\ Len(r.val.payload) < max_size /\ r.rest = left
  BY <1>10, <1>14, Zenon
<1>16. left \in Seq(Bytes) /\ Len(left) < Len(b)
  BY <1>4, <1>7, <1>8, <1>9
<1>17. QED
  BY <1>15, <1>16, Zenon DEF r

-----------------------------------------------------------------------------
Str == Seq(Bytes)

(* What a reader handed back, taken apart. *)
LEMMA GotParts == \A v, s : Got(v, s).ok /\ Got(v, s).val = v /\ Got(v, s).rest = s
BY SMT DEF Got

LEMMA FailedParts == ~Failed.ok /\ \A v, s : Failed # Got(v, s)
<1>1. ~Failed.ok
  BY SMT DEF Failed
<1>2. QED
  BY <1>1, GotParts, SMT

LEMMA WithParts == \A v, s, x : With(Got(v, s), x) = Got(x, s) /\ With(Failed, x) = Failed
<1>1. \A v, s, x : With(Got(v, s), x) = Got(x, s)
  BY GotParts, SMT DEF With
<1>2. \A x : With(Failed, x) = Failed
  BY FailedParts, SMT DEF With
<1>3. QED
  BY <1>1, <1>2, Zenon

(* Concatenation of byte strings. *)
LEMMA Cat ==
  ASSUME NEW a \in Str, NEW b \in Str
  PROVE  a \o b \in Str /\ Len(a \o b) = Len(a) + Len(b) /\ Len(a) \in Nat /\ Len(b) \in Nat
BY ConcatProperties, LenProperties DEF Str

LEMMA Cat3 ==
  ASSUME NEW a \in Str, NEW b \in Str, NEW c \in Str
  PROVE  /\ (a \o b) \o c = a \o (b \o c)
         /\ b \o c \in Str /\ a \o b \in Str /\ (a \o b) \o c \in Str
BY ConcatProperties, ConcatAssociative DEF Str

AssocIs(a, b, c) == (a \o b) \o c = a \o (b \o c)

LEMMA Assoc == ASSUME NEW a \in Str, NEW b \in Str, NEW c \in Str PROVE AssocIs(a, b, c)
BY Cat3, Zenon DEF AssocIs

LEMMA Empty == <<>> \in Str /\ \A a \in Str : a \o <<>> = a /\ <<>> \o a = a
BY EmptySeq, ConcatEmptySeq DEF Str

LEMMA OneByte ==
  ASSUME NEW x \in Bytes
  PROVE  <<x>> \in Str /\ Len(<<x>>) = 1 /\ <<x>>[1] = x
BY DEF Str

(* A string b that is continued by m, when all of it begins with a: either b has all of
   a, or it stops within a. *)
HasOrStops(a, c, b, m) ==
  \/ \E d \in Str : b = a \o d /\ d \o m = c
  \/ Len(b) < Len(a) /\ m # <<>> /\ \A i \in 1 .. Len(b) : b[i] = a[i]

LEMMA Split ==
  ASSUME NEW a \in Str, NEW c \in Str, NEW b \in Str, NEW m \in Str, b \o m = a \o c
  PROVE  HasOrStops(a, c, b, m)
<1> DEFINE n == Len(a)
           k == Len(b)
<1>1. /\ n \in Nat /\ k \in Nat /\ Len(m) \in Nat /\ Len(c) \in Nat
      /\ k + Len(m) = n + Len(c)
  <2>1. Len(b \o m) = Len(b) + Len(m) /\ Len(a \o c) = Len(a) + Len(c)
    BY Cat
  <2>2. QED
    BY <2>1, Cat
<1>2. ASSUME NEW i \in 1 .. k, i <= n PROVE b[i] = a[i]
  <2>1. (b \o m)[i] = b[i]
    BY <1>1, ConcatProperties DEF Str
  <2>2. (a \o c)[i] = a[i]
    BY <1>1, <1>2, ConcatProperties DEF Str
  <2>3. QED
    BY <2>1, <2>2
<1>3. CASE n <= k
  <2> DEFINE f == SubSeq(b, 1, n)
             d == SubSeq(b, n + 1, k)
  <2>1. \A i \in 1 .. k : b[i] \in Bytes
    BY ElementOfSeq DEF Str
  <2>2. f \in Str /\ Len(f) = n /\ \A i \in 1 .. n : f[i] = b[i]
    <3>1. \A i \in 1 .. n : b[i] \in Bytes
      BY <1>1, <1>3, <2>1
    <3>2. /\ f \in Seq(Bytes) /\ Len(f) = IF 1 <= n THEN n - 1 + 1 ELSE 0
          /\ \A i \in 1 .. n - 1 + 1 : f[i] = b[1 + i - 1]
      BY <1>1, <3>1, SubSeqProperties
    <3> HIDE DEF f
    <3>3. QED
      BY <1>1, <3>2 DEF Str
  <2>3. d \in Str
    <3>1. \A i \in n + 1 .. k : b[i] \in Bytes
      BY <1>1, <2>1
    <3>2. n + 1 \in Int /\ k \in Int
      BY <1>1
    <3>3. QED
      BY <3>1, <3>2, SubSeqProperties DEF Str
  <2>4. f \o d = b
    <3>1. 1 \in 1 .. k + 1 /\ n \in 1 - 1 .. k /\ k \in n .. k
      BY <1>1, <1>3
    <3>2. f \o d = SubSeq(b, 1, k)
      BY <3>1, ConcatAdjacentSubSeq DEF Str
    <3>3. SubSeq(b, 1, k) = b
      BY SubSeqFull DEF Str
    <3>4. QED
      BY <3>2, <3>3, Zenon
  <2> HIDE DEF f, d
  <2>5. f = a
    <3>1. \A i \in 1 .. Len(f) : f[i] = a[i]
      BY <1>1, <1>2, <1>3, <2>2
    <3>2. QED
      BY <2>2, <3>1, SeqEqual DEF Str
  <2>6. a \o (d \o m) = a \o c
    <3>1. (a \o d) \o m = a \o (d \o m)
      BY <2>3, Assoc, Zenon DEF AssocIs
    <3>2. QED
      BY <2>4, <2>5, <3>1, Zenon
  <2>7. d \o m = c
    <3>1. d \o m \in Str
      BY <2>3, Cat
    <3>2. QED
      BY <2>6, <3>1, ConcatSimplifications DEF Str
  <2>8. QED
    BY <2>3, <2>4, <2>5, <2>7, Zenon DEF HasOrStops
<1>4. CASE k < n
  <2>1. m # <<>>
    <3>1. Len(m) # 0
      BY <1>1, <1>4
    <3>2. QED
      BY <3>1
  <2>2. \A i \in 1 .. k : b[i] = a[i]
    BY <1>1, <1>2, <1>4
  <2>3. QED
    BY <1>4, <2>1, <2>2 DEF HasOrStops
<1>5. n <= k \/ k < n
  BY <1>1
<1>6. QED
  BY <1>3, <1>4, <1>5, Zenon

-----------------------------------------------------------------------------
(* A reader on a front of a payload has handed back x and is where s is still to come,
   of which the last bytes m are missing; or it has failed, for want of them. *)
At(r, x, s, m) ==
  \/ r = Failed /\ m # <<>>
  \/ \E b \in Str : r = Got(x, b) /\ b \o m = s

LEMMA AtParts ==
  ASSUME NEW r, NEW x, NEW s, NEW m, At(r, x, s, m)
  PROVE  /\ r = Failed => m # <<>>
         /\ r # Failed => r.ok /\ r.val = x /\ r = Got(x, r.rest) /\ r.rest \in Str /\ r.rest \o m = s
         /\ r = Failed => ~r.ok
         /\ \A y : With(r, y) = IF r = Failed THEN Failed ELSE Got(y, r.rest)
         /\ \A y : At(With(r, y), y, s, m)
<1>1. CASE r = Failed /\ m # <<>>
  BY <1>1, FailedParts, WithParts, Zenon DEF At
<1>2. ASSUME NEW b \in Str, r = Got(x, b), b \o m = s
      PROVE  /\ r # Failed /\ r.ok /\ r.val = x /\ r.rest = b
             /\ \A y : With(r, y) = Got(y, b)
  BY <1>2, GotParts, FailedParts, WithParts, SMT
<1>3. CASE \E b \in Str : r = Got(x, b) /\ b \o m = s
  <2>1. PICK b \in Str : r = Got(x, b) /\ b \o m = s
    BY <1>3
  <2>2. /\ r # Failed /\ r.ok /\ r.val = x /\ r.rest = b
        /\ \A y : With(r, y) = Got(y, b)
    BY <1>2, <2>1, Zenon
  <2>3. \A y : At(With(r, y), y, s, m)
    BY <2>1, <2>2, Zenon DEF At
  <2>4. QED
    BY <2>1, <2>2, <2>3, Zenon
<1>4. QED
  BY <1>1, <1>3, Zenon DEF At

(* Each reader on what its writer has written, or on a front of it. *)
LEMMA VarIntAt ==
  ASSUME NEW r, NEW u, NEW x \in Int32, NEW s \in Str, NEW m \in Str,
         At(r, u, encode_varint(x) \o s, m)
  PROVE  At(GetVarInt(r), x, s, m) /\ (r = Failed => GetVarInt(r) = Failed)
<1> DEFINE e == encode_varint(x)
<1>1. /\ e \in Str /\ Len(e) = LastGroup(x)
      /\ \A i \in 1 .. Len(e) : e[i] = Group(x, i) + (IF i < Len(e) THEN 128 ELSE 0)
  BY EncodeShape DEF Str
<1>2. LastGroup(x) \in 1 .. 5
  BY LastShape
<1>3. \A i \in 1 .. 5 : Group(x, i) \in 0 .. 127
  BY GroupsSum
<1> HIDE DEF e
<1>4. CASE r = Failed /\ m # <<>>
  <2>1. GetVarInt(r) = Failed
    BY <1>4, FailedParts, Zenon DEF GetVarInt
  <2>2. QED
    BY <1>4, <2>1, Zenon DEF At
<1>5. CASE \E b \in Str : r = Got(u, b) /\ b \o m = e \o s
  <2>1. PICK b \in Str : r = Got(u, b) /\ b \o m = e \o s
    BY <1>5
  <2>2. GetVarInt(r) = decode_varint(b) /\ r # Failed
    BY <2>1, GotParts, FailedParts, SMT DEF GetVarInt
  <2>3. CASE \E d \in Str : b = e \o d /\ d \o m = s
    <3>1. PICK d \in Str : b = e \o d /\ d \o m = s
      BY <2>3
    <3>2. decode_varint(b) = Got(x, d)
      BY <3>1, DecodeEncode, Zenon DEF Str, e
    <3>3. QED
      BY <2>2, <3>1, <3>2, Zenon DEF At
  <2>4. CASE Len(b) < Len(e) /\ m # <<>> /\ \A i \in 1 .. Len(b) : b[i] = e[i]
    <3>1. ASSUME NEW n \in 1 .. 5, n <= Len(b) PROVE ~(b[n] < 128)
      <4>1. Len(b) \in Nat
        BY Cat
      <4>2. n \in 1 .. Len(b) /\ n \in 1 .. Len(e) /\ n < Len(e)
        BY <1>1, <1>2, <2>4, <3>1, <4>1
      <4>3. b[n] = e[n] /\ e[n] = Group(x, n) + (IF n < Len(e) THEN 128 ELSE 0)
        BY <1>1, <2>4, <4>2, Zenon
      <4>4. b[n] = Group(x, n) + 128 /\ Group(x, n) \in 0 .. 127
        BY <1>3, <4>2, <4>3, Zenon
      <4>5. QED
        BY <4>4
    <3>2. {n \in 1 .. 5 : n <= Len(b) /\ b[n] < 128} = {}
      BY <3>1, Zenon
    <3>3. decode_varint(b) = Failed
      BY <3>2, Zenon DEF decode_varint
    <3>4. QED
      BY <2>2, <2>4, <3>3, Zenon DEF At
  <2>5. HasOrStops(e, s, b, m)
    BY <1>1, <2>1, Split, Zenon
  <2>6. QED
    BY <2>3, <2>4, <2>5, Zenon DEF HasOrStops
<1>6. QED
  BY <1>4, <1>5, Zenon DEF At, e

LEMMA RawAt ==
  ASSUME NEW r, NEW u, NEW t \in Str, NEW s \in Str, NEW m \in Str, At(r, u, t \o s, m)
  PROVE  At(GetRaw(Len(t), r), t, s, m) /\ (r = Failed => GetRaw(Len(t), r) = Failed)
<1>1. CASE r = Failed /\ m # <<>>
  <2>1. GetRaw(Len(t), r) = Failed
    BY <1>1, FailedParts, Zenon DEF GetRaw
  <2>2. QED
    BY <1>1, <2>1, Zenon DEF At
<1>2. CASE \E b \in Str : r = Got(u, b) /\ b \o m = t \o s
  <2>1. PICK b \in Str : r = Got(u, b) /\ b \o m = t \o s
    BY <1>2
  <2>2. GetRaw(Len(t), r) = Take(Len(t), b) /\ r # Failed
    BY <2>1, GotParts, FailedParts, SMT DEF GetRaw
  <2>3. CASE \E d \in Str : b = t \o d /\ d \o m = s
    <3>1. PICK d \in Str : b = t \o d /\ d \o m = s
      BY <2>3
    <3>2. Len(b) = Len(t) + Len(d) /\ Len(t) \in Nat /\ Len(d) \in Nat
      BY <3>1, Cat
    <3>3. SubSeq(b, 1, Len(t)) = t /\ SubSeq(b, Len(t) + 1, Len(b)) = d
      BY <3>1, CutFront DEF Str
    <3>4. ~(Len(t) < 0 \/ Len(b) < Len(t))
      BY <3>2
    <3>5. Take(Len(t), b) = Got(t, d)
      BY <3>3, <3>4, Zenon DEF Take
    <3>6. QED
      BY <2>2, <3>1, <3>5, Zenon DEF At
  <2>4. CASE Len(b) < Len(t) /\ m # <<>> /\ \A i \in 1 .. Len(b) : b[i] = t[i]
    <3>1. Take(Len(t), b) = Failed
      BY <2>4, Zenon DEF Take
    <3>2. QED
      BY <2>2, <2>4, <3>1, Zenon DEF At
  <2>5. HasOrStops(t, s, b, m)
    BY <2>1, Split, Zenon
  <2>6. QED
    BY <2>3, <2>4, <2>5, Zenon DEF HasOrStops
<1>3. QED
  BY <1>1, <1>2, Zenon DEF At

LEMMA U8At ==
  ASSUME NEW r, NEW u, NEW x \in Bytes, NEW s \in Str, NEW m \in Str, At(r, u, <<x>> \o s, m)
  PROVE  At(GetU8(r), x, s, m) /\ (r = Failed => GetU8(r) = Failed)
<1> DEFINE h == <<x>>
<1>1. h \in Str /\ Len(h) = 1 /\ h[1] = x
  BY OneByte
<1> HIDE DEF h
<1>2. CASE r = Failed /\ m # <<>>
  <2>1. GetU8(r) = Failed
    BY <1>2, FailedParts, Zenon DEF GetU8
  <2>2. QED
    BY <1>2, <2>1, Zenon DEF At
<1>3. CASE \E b \in Str : r = Got(u, b) /\ b \o m = h \o s
  <2>1. PICK b \in Str : r = Got(u, b) /\ b \o m = h \o s
    BY <1>3
  <2>2. /\ b # <<>> => GetU8(r) = Got(Head(b), Tail(b))
        /\ b = <<>> => GetU8(r) = Failed
        /\ r # Failed
    BY <2>1, GotParts, FailedParts, SMT DEF GetU8
  <2>3. CASE \E d \in Str : b = h \o d /\ d \o m = s
    <3>1. PICK d \in Str : b = h \o d /\ d \o m = s
      BY <2>3
    <3>2. Len(b) = 1 + Len(d) /\ Len(d) \in Nat /\ b \in Seq(Bytes)
      BY <1>1, <3>1, Cat DEF Str
    <3>3. b[1] = x
      BY <1>1, <3>1, <3>2, ConcatProperties DEF Str
    <3>4. SubSeq(b, 1 + 1, Len(b)) = d
      <4>1. SubSeq(b, Len(h) + 1, Len(b)) = d
        BY <1>1, <3>1, CutFront DEF Str
      <4>2. QED
        BY <1>1, <4>1, Zenon
    <3>5. b # <<>>
      BY <3>2
    <3>6. Head(b) = x /\ Tail(b) = d
      BY <3>2, <3>3, <3>4, <3>5, TailIsSubSeq, HeadTailProperties
    <3>7. QED
      BY <2>2, <3>1, <3>5, <3>6, Zenon DEF At
  <2>4. CASE Len(b) < Len(h) /\ m # <<>> /\ \A i \in 1 .. Len(b) : b[i] = h[i]
    <3>1. Len(b) \in Nat
      BY Cat
    <3>2. Len(b) = 0
      BY <1>1, <2>4, <3>1
    <3>3. b = <<>>
      BY <3>2, EmptySeq DEF Str
    <3>4. QED
      BY <2>2, <2>4, <3>3, Zenon DEF At
  <2>5. HasOrStops(h, s, b, m)
    BY <1>1, <2>1, Split, Zenon
  <2>6. QED
    BY <2>3, <2>4, <2>5, Zenon DEF HasOrStops
<1>4. QED
  BY <1>2, <1>3, Zenon DEF At, h

(* The end of a reader that puts together what others have read. *)
LEMMA AtEnd ==
  ASSUME NEW r, NEW x, NEW s, NEW m, At(r, x, s, m), NEW y, NEW z, r # Failed => y = z
  PROVE  At(With(r, y), z, s, m)
<1>1. CASE r = Failed
  <2>1. With(r, y) = Failed /\ m # <<>>
    BY <1>1, AtParts, WithParts, Zenon
  <2>2. QED
    BY <2>1, Zenon DEF At
<1>2. CASE r # Failed
  BY <1>2, AtParts, Zenon
<1>3. QED
  BY <1>1, <1>2, Zenon

LEMMA AtVal ==
  ASSUME NEW r, NEW x, NEW s, NEW m, At(r, x, s, m), r # Failed
  PROVE  r.val = x /\ r.ok
BY AtParts, Zenon

LEMMA AtFailed ==
  ASSUME NEW r, NEW x, NEW s, NEW m, At(r, x, s, m), r = Failed
  PROVE  m # <<>> /\ ~r.ok /\ \A y, t : At(Failed, y, t, m)
<1>1. m # <<>> /\ ~r.ok
  BY AtParts, Zenon
<1>2. QED
  BY <1>1, Zenon DEF At

(* Strings whose length is an i32. *)
Field == {t \in Str : Len(t) <= MaxInt32}

LEMMA TextShape ==
  ASSUME NEW t \in Field
  PROVE  /\ t \in Str /\ Len(t) \in Int32 /\ encode_varint(Len(t)) \in Str /\ Text(t) \in Str
         /\ Text(t) = encode_varint(Len(t)) \o t
<1>1. t \in Str /\ Len(t) <= MaxInt32
  BY Zenon DEF Field
<1>2. Len(t) \in Int32
  <2>1. Len(t) \in Nat
    BY <1>1, Cat
  <2>2. QED
    BY <1>1, <2>1, SMT DEF Int32, MaxInt32
<1>3. encode_varint(Len(t)) \in Str
  BY <1>2, EncodeShape, Zenon DEF Str
<1>4. encode_varint(Len(t)) \o t \in Str
  BY <1>1, <1>3, Cat, Zenon
<1>5. QED
  BY <1>1, <1>2, <1>3, <1>4, Zenon DEF Text

LEMMA TextAt ==
  ASSUME NEW r, NEW u, NEW t \in Field, NEW s \in Str, NEW m \in Str, At(r, u, Text(t) \o s, m)
  PROVE  At(GetText(r), t, s, m) /\ (r = Failed => GetText(r) = Failed)
<1> DEFINE e == encode_varint(Len(t))
           l == GetVarInt(r)
<1>1. t \in Str /\ Len(t) \in Int32 /\ e \in Str /\ Text(t) = e \o t
  BY TextShape, Zenon
<1>2. t \o s \in Str
  BY <1>1, Cat, Zenon
<1>3. (e \o t) \o s = e \o (t \o s)
  BY <1>1, Assoc, Zenon DEF AssocIs
<1>4. At(r, u, e \o (t \o s), m)
  BY <1>1, <1>3, Zenon
<1>5. At(l, Len(t), t \o s, m) /\ (r = Failed => l = Failed)
  BY <1>1, <1>2, <1>4, VarIntAt, Zenon
<1>6. GetText(r) = GetRaw(l.val, l)
  BY Zenon DEF GetText
<1> HIDE DEF l
<1>7. CASE l = Failed
  <2>1. GetText(r) = Failed
    BY <1>6, <1>7, FailedParts, Zenon DEF GetRaw
  <2>2. QED
    BY <1>5, <1>7, <2>1, AtFailed, Zenon
<1>8. CASE l # Failed
  <2>1. GetText(r) = GetRaw(Len(t), l)
    BY <1>5, <1>6, <1>8, AtVal, Zenon
  <2>2. At(GetRaw(Len(t), l), t, s, m)
    BY <1>1, <1>5, RawAt, Zenon
  <2>3. QED
    BY <1>5, <1>8, <2>1, <2>2, Zenon
<1>9. QED
  BY <1>7, <1>8, Zenon

LEMMA FlagShape ==
  ASSUME NEW x \in BOOLEAN
  PROVE  \E n \in Bytes : Flag(x) = <<n>> /\ (n # 0) = x /\ Flag(x) \in Str
<1>1. 0 \in Bytes /\ 1 \in Bytes
  BY DEF Bytes
<1>2. CASE x = TRUE
  <2>1. Flag(x) = <<1>>
    BY <1>2 DEF Flag
  <2>2. <<1>> \in Str
    BY <1>1, OneByte
  <2>3. (1 # 0) = x
    <3>1. 1 # 0
      OBVIOUS
    <3>2. QED
      BY <1>2, <3>1, Zenon
  <2>4. QED
    BY <1>1, <2>1, <2>2, <2>3, Zenon
<1>3. CASE x = FALSE
  <2>1. Flag(x) = <<0>>
    BY <1>3 DEF Flag
  <2>2. <<0>> \in Str
    BY <1>1, OneByte
  <2>3. (0 # 0) = x
    BY <1>3, Zenon
  <2>4. QED
    BY <1>1, <2>1, <2>2, <2>3, Zenon
<1>4. QED
  BY <1>2, <1>3

LEMMA BoolAt ==
  ASSUME NEW r, NEW u, NEW x \in BOOLEAN, NEW s \in Str, NEW m \in Str, At(r, u, Flag(x) \o s, m)
  PROVE  At(GetBool(r), x, s, m) /\ (r = Failed => GetBool(r) = Failed)
<1>1. PICK n \in Bytes : Flag(x) = <<n>> /\ (n # 0) = x
  BY FlagShape, Zenon
<1> DEFINE g == GetU8(r)
<1>2. At(r, u, <<n>> \o s, m)
  BY <1>1, Zenon
<1>3. At(g, n, s, m) /\ (r = Failed => g = Failed)
  BY <1>2, U8At, Zenon
<1>4. GetBool(r) = With(g, g.val # 0)
  BY Zenon DEF GetBool
<1> HIDE DEF g
<1>5. g # Failed => (g.val # 0) = x
  BY <1>1, <1>3, AtVal, Zenon
<1>6. At(With(g, g.val # 0), x, s, m)
  BY <1>3, <1>5, AtEnd, Zenon
<1>7. g = Failed => With(g, g.val # 0) = Failed
  BY WithParts, Zenon
<1>8. QED
  BY <1>3, <1>4, <1>6, <1>7, Zenon

LEMMA I8Shape ==
  ASSUME NEW x \in -128 .. 127
  PROVE  x % 256 \in Bytes /\ x = IF x % 256 < 128 THEN x % 256 ELSE (x % 256) - 256
BY DEF Bytes

LEMMA I8At ==
  ASSUME NEW r, NEW u, NEW x \in -128 .. 127, NEW s \in Str, NEW m \in Str,
         At(r, u, <<x % 256>> \o s, m)
  PROVE  At(GetI8(r), x, s, m) /\ (r = Failed => GetI8(r) = Failed)
<1> DEFINE n == x % 256
           g == GetU8(r)
           y == IF g.val < 128 THEN g.val ELSE g.val - 256
<1>1. n \in Bytes /\ x = IF n < 128 THEN n ELSE n - 256
  BY I8Shape
<1> HIDE DEF n
<1>2. At(r, u, <<n>> \o s, m)
  BY Zenon DEF n
<1>3. At(g, n, s, m) /\ (r = Failed => g = Failed)
  BY <1>1, <1>2, U8At, Zenon
<1>4. GetI8(r) = With(g, y)
  BY Zenon DEF GetI8
<1> HIDE DEF g
<1>5. g # Failed => y = x
  <2>1. g # Failed => g.val = n
    BY <1>3, AtVal, Zenon
  <2>2. QED
    BY <1>1, <2>1, SMT
<1> HIDE DEF y
<1>6. At(With(g, y), x, s, m)
  BY <1>3, <1>5, AtEnd, Zenon
<1>7. g = Failed => With(g, y) = Failed
  BY WithParts, Zenon
<1>8. QED
  BY <1>3, <1>4, <1>6, <1>7, Zenon

(* u16; folded like MaxInt32. *)
MaxU16 == 65535

LEMMA U16Shape ==
  ASSUME NEW n \in Nat, n <= MaxU16
  PROVE  /\ Short(n) \in Str /\ Len(Short(n)) = 2
         /\ Short(n)[1] * 256 + Short(n)[2] = n
<1> DEFINE h == (n \div 256) % 256
           l == n % 256
           t == <<h, l>>
<1>1. h \in Bytes /\ l \in Bytes /\ h * 256 + l = n
  <2>1. n \div 256 \in 0 .. 255
    BY SMT DEF MaxU16
  <2>2. h = n \div 256
    BY <2>1, SMT
  <2>3. n = (n \div 256) * 256 + (n % 256) /\ l \in 0 .. 255
    BY SMT
  <2>4. h \in 0 .. 255
    BY <2>1, <2>2, Zenon
  <2>5. h * 256 + l = n
    BY <2>2, <2>3, Zenon
  <2>6. QED
    BY <2>3, <2>4, <2>5, Zenon DEF Bytes
<1>2. Short(n) = t
  BY DEF Short
<1> HIDE DEF h, l
<1>3. t \in Str /\ Len(t) = 2 /\ t[1] = h /\ t[2] = l
  BY <1>1 DEF Str
<1> HIDE DEF t
<1>4. QED
  BY <1>1, <1>2, <1>3, Zenon

LEMMA U16At ==
  ASSUME NEW r, NEW u, NEW n \in Nat, n <= MaxU16, NEW s \in Str, NEW m \in Str,
         At(r, u, Short(n) \o s, m)
  PROVE  At(GetU16(r), n, s, m) /\ (r = Failed => GetU16(r) = Failed)
<1> DEFINE t == Short(n)
           g == GetRaw(2, r)
           y == g.val[1] * 256 + g.val[2]
<1>1. t \in Str /\ Len(t) = 2 /\ t[1] * 256 + t[2] = n
  BY U16Shape, Zenon
<1>2. At(r, u, t \o s, m)
  BY Zenon
<1> HIDE DEF t
<1>3. At(g, t, s, m) /\ (r = Failed => g = Failed)
  <2>1. At(GetRaw(Len(t), r), t, s, m) /\ (r = Failed => GetRaw(Len(t), r) = Failed)
    BY <1>1, <1>2, RawAt, Zenon
  <2>2. QED
    BY <1>1, <2>1, Zenon
<1>4. GetU16(r) = With(g, y)
  BY Zenon DEF GetU16
<1> HIDE DEF g
<1>5. g # Failed => y = n
  BY <1>1, <1>3, AtVal, Zenon
<1> HIDE DEF y
<1>6. At(With(g, y), n, s, m)
  BY <1>3, <1>5, AtEnd, Zenon
<1>7. g = Failed => With(g, y) = Failed
  BY WithParts, Zenon
<1>8. QED
  BY <1>3, <1>4, <1>6, <1>7, Zenon

LEMMA OptTextShape ==
  ASSUME NEW o \in Opts(Field)
  PROVE  OptText(o) \in Str
<1>1. Flag(TRUE) \in Str /\ Flag(FALSE) \in Str
  BY FlagShape, Zenon
<1>2. CASE o = <<>>
  BY <1>1, <1>2, Zenon DEF OptText
<1>3. CASE \E t \in Field : o = <<t>>
  <2>1. PICK t \in Field : o = <<t>>
    BY <1>3
  <2>2. o # <<>> /\ o[1] = t
    BY <2>1
  <2>3. Flag(TRUE) \o Text(t) \in Str
    BY <1>1, TextShape, Cat, Zenon
  <2>4. QED
    BY <2>2, <2>3, Zenon DEF OptText
<1>4. QED
  BY <1>2, <1>3, Zenon DEF Opts

LEMMA OptTextAt ==
  ASSUME NEW r, NEW u, NEW o \in Opts(Field), NEW s \in Str, NEW m \in Str,
         At(r, u, OptText(o) \o s, m)
  PROVE  At(GetOptText(r), o, s, m) /\ (r = Failed => GetOptText(r) = Failed)
<1> DEFINE some == GetBool(r)
           x    == GetText(some)
<1>1. GetOptText(r) = IF some.ok /\ some.val THEN With(x, <<x.val>>) ELSE With(some, <<>>)
  BY Zenon DEF GetOptText
<1>2. CASE o = <<>>
  <2>1. OptText(o) = Flag(FALSE)
    BY <1>2, Zenon DEF OptText
  <2>2. At(r, u, Flag(FALSE) \o s, m)
    BY <2>1, Zenon
  <2>3. At(some, FALSE, s, m) /\ (r = Failed => some = Failed)
    BY <2>2, BoolAt, Zenon
  <2> HIDE DEF some
  <2>4. ~(some.ok /\ some.val)
    BY <2>3, AtVal, AtFailed, Zenon
  <2>5. GetOptText(r) = With(some, <<>>)
    BY <1>1, <2>4, Zenon
  <2>6. At(With(some, <<>>), <<>>, s, m) /\ (some = Failed => With(some, <<>>) = Failed)
    BY <2>3, AtEnd, WithParts, Zenon
  <2>7. QED
    BY <1>2, <2>3, <2>5, <2>6, Zenon
<1>3. CASE \E t \in Field : o = <<t>>
  <2>1. PICK t \in Field : o = <<t>>
    BY <1>3
  <2>2. o # <<>> /\ o[1] = t
    BY <2>1
  <2>3. OptText(o) = Flag(TRUE) \o Text(t)
    BY <2>2, Zenon DEF OptText
  <2>4. Flag(TRUE) \in Str /\ Text(t) \in Str /\ Text(t) \o s \in Str
    BY FlagShape, TextShape, Cat, Zenon
  <2>5. (Flag(TRUE) \o Text(t)) \o s = Flag(TRUE) \o (Text(t) \o s)
    BY <2>4, Assoc, Zenon DEF AssocIs
  <2>6. At(r, u, Flag(TRUE) \o (Text(t) \o s), m)
    BY <2>3, <2>5, Zenon
  <2>7. At(some, TRUE, Text(t) \o s, m) /\ (r = Failed => some = Failed)
    BY <2>4, <2>6, BoolAt, Zenon
  <2>8. At(x, t, s, m) /\ (some = Failed => x = Failed)
    BY <2>7, TextAt, Zenon
  <2> HIDE DEF some, x
  <2>9. CASE some = Failed
    <3>1. GetOptText(r) = Failed
      BY <1>1, <2>9, FailedParts, WithParts, Zenon
    <3>2. QED
      BY <2>7, <2>9, <3>1, AtFailed, Zenon
  <2>10. CASE some # Failed
    <3>1. GetOptText(r) = With(x, <<x.val>>)
      BY <1>1, <2>7, <2>10, AtVal, Zenon
    <3>2. x # Failed => <<x.val>> = o
      BY <2>1, <2>8, AtVal, Zenon
    <3>3. At(With(x, <<x.val>>), o, s, m)
      BY <2>8, <3>2, AtEnd, Zenon
    <3>4. QED
      BY <2>7, <2>10, <3>1, <3>3, Zenon
  <2>11. QED
    BY <2>9, <2>10, Zenon
<1>4. QED
  BY <1>2, <1>3, Zenon DEF Opts
-----------------------------------------------------------------------------
(* Concatenations as they are written, and as they are read. *)
Flat2(p1, p2) ==
  /\ p1 \o p2 = p1 \o (p2 \o <<>>)
  /\ p1 \o p2 \in Str
  /\ p2 \o <<>> \in Str

LEMMA FlatIs2 ==
  ASSUME NEW p1 \in Str, NEW p2 \in Str
  PROVE  Flat2(p1, p2)
<1>1. p2 \o <<>> = p2
  BY Empty, Zenon
<1>2. p1 \o p2 \in Str
  BY Cat, Zenon
<1>3. QED
  BY <1>1, <1>2, Zenon DEF Flat2

Flat3(p1, p2, p3) ==
  /\ p1 \o p2 \o p3 = p1 \o (p2 \o (p3 \o <<>>))
  /\ p1 \o p2 \o p3 \in Str
  /\ p2 \o (p3 \o <<>>) \in Str
  /\ p3 \o <<>> \in Str

LEMMA FlatIs3 ==
  ASSUME NEW p1 \in Str, NEW p2 \in Str, NEW p3 \in Str
  PROVE  Flat3(p1, p2, p3)
<1> DEFINE q == p1 \o p2
           t == p3 \o <<>>
<1>1. q \in Str
  BY Cat, Zenon
<1> HIDE DEF q
<1>2. Flat2(q, p3)
  BY <1>1, FlatIs2, Zenon
<1>3. q \o p3 = q \o t /\ t \in Str
  BY <1>2, Zenon DEF Flat2
<1> HIDE DEF t
<1>4. q \o t = p1 \o (p2 \o t) /\ p2 \o t \in Str
  <2>1. t \in Str
    BY <1>3, Zenon
  <2>2. AssocIs(p1, p2, t)
    BY <2>1, Assoc, Zenon
  <2>3. p2 \o t \in Str
    BY <2>1, Cat, Zenon
  <2>4. QED
    BY <2>2, <2>3, Zenon DEF q, AssocIs
<1>5. p1 \o p2 \o p3 = p1 \o (p2 \o t)
  BY <1>3, <1>4, Zenon DEF q
<1>6. p1 \o p2 \o p3 \in Str
  BY <1>2, Zenon DEF Flat2, q
<1>7. p3 \o <<>> \in Str
  BY <1>2, Zenon DEF Flat2
<1>8. QED
  BY <1>4, <1>5, <1>6, <1>7, Zenon DEF Flat3, t

Flat4(p1, p2, p3, p4) ==
  /\ p1 \o p2 \o p3 \o p4 = p1 \o (p2 \o (p3 \o (p4 \o <<>>)))
  /\ p1 \o p2 \o p3 \o p4 \in Str
  /\ p2 \o (p3 \o (p4 \o <<>>)) \in Str
  /\ p3 \o (p4 \o <<>>) \in Str
  /\ p4 \o <<>> \in Str

LEMMA FlatIs4 ==
  ASSUME NEW p1 \in Str, NEW p2 \in Str, NEW p3 \in Str, NEW p4 \in Str
  PROVE  Flat4(p1, p2, p3, p4)
<1> DEFINE q == p1 \o p2
           t == p3 \o (p4 \o <<>>)
<1>1. q \in Str
  BY Cat, Zenon
<1> HIDE DEF q
<1>2. Flat3(q, p3, p4)
  BY <1>1, FlatIs3, Zenon
<1>3. q \o p3 \o p4 = q \o t /\ t \in Str
  BY <1>2, Zenon DEF Flat3
<1> HIDE DEF t
<1>4. q \o t = p1 \o (p2 \o t) /\ p2 \o t \in Str
  <2>1. t \in Str
    BY <1>3, Zenon
  <2>2. AssocIs(p1, p2, t)
    BY <2>1, Assoc, Zenon
  <2>3. p2 \o t \in Str
    BY <2>1, Cat, Zenon
  <2>4. QED
    BY <2>2, <2>3, Zenon DEF q, AssocIs
<1>5. p1 \o p2 \o p3 \o p4 = p1 \o (p2 \o t)
  BY <1>3, <1>4, Zenon DEF q
<1>6. p1 \o p2 \o p3 \o p4 \in Str
  BY <1>2, Zenon DEF Flat3, q
<1>7. p3 \o (p4 \o <<>>) \in Str
      /\ p4 \o <<>> \in Str
  BY <1>2, Zenon DEF Flat3
<1>8. QED
  BY <1>4, <1>5, <1>6, <1>7, Zenon DEF Flat4, t

Flat5(p1, p2, p3, p4, p5) ==
  /\ p1 \o p2 \o p3 \o p4 \o p5 = p1 \o (p2 \o (p3 \o (p4 \o (p5 \o <<>>))))
  /\ p1 \o p2 \o p3 \o p4 \o p5 \in Str
  /\ p2 \o (p3 \o (p4 \o (p5 \o <<>>))) \in Str
  /\ p3 \o (p4 \o (p5 \o <<>>)) \in Str
  /\ p4 \o (p5 \o <<>>) \in Str
  /\ p5 \o <<>> \in Str

LEMMA FlatIs5 ==
  ASSUME NEW p1 \in Str, NEW p2 \in Str, NEW p3 \in Str, NEW p4 \in Str, NEW p5 \in Str
  PROVE  Flat5(p1, p2, p3, p4, p5)
<1> DEFINE q == p1 \o p2
           t == p3 \o (p4 \o (p5 \o <<>>))
<1>1. q \in Str
  BY Cat, Zenon
<1> HIDE DEF q
<1>2. Flat4(q, p3, p4, p5)
  BY <1>1, FlatIs4, Zenon
<1>3. q \o p3 \o p4 \o p5 = q \o t /\ t \in Str
  BY <1>2, Zenon DEF Flat4
<1> HIDE DEF t
<1>4. q \o t = p1 \o (p2 \o t) /\ p2 \o t \in Str
  <2>1. t \in Str
    BY <1>3, Zenon
  <2>2. AssocIs(p1, p2, t)
    BY <2>1, Assoc, Zenon
  <2>3. p2 \o t \in Str
    BY <2>1, Cat, Zenon
  <2>4. QED
    BY <2>2, <2>3, Zenon DEF q, AssocIs
<1>5. p1 \o p2 \o p3 \o p4 \o p5 = p1 \o (p2 \o t)
  BY <1>3, <1>4, Zenon DEF q
<1>6. p1 \o p2 \o p3 \o p4 \o p5 \in Str
  BY <1>2, Zenon DEF Flat4, q
<1>7. p3 \o (p4 \o (p5 \o <<>>)) \in Str
      /\ p4 \o (p5 \o <<>>) \in Str
      /\ p5 \o <<>> \in Str
  BY <1>2, Zenon DEF Flat4
<1>8. QED
  BY <1>4, <1>5, <1>6, <1>7, Zenon DEF Flat5, t

Flat6(p1, p2, p3, p4, p5, p6) ==
  /\ p1 \o p2 \o p3 \o p4 \o p5 \o p6 = p1 \o (p2 \o (p3 \o (p4 \o (p5 \o (p6 \o <<>>)))))
  /\ p1 \o p2 \o p3 \o p4 \o p5 \o p6 \in Str
  /\ p2 \o (p3 \o (p4 \o (p5 \o (p6 \o <<>>)))) \in Str
  /\ p3 \o (p4 \o (p5 \o (p6 \o <<>>))) \in Str
  /\ p4 \o (p5 \o (p6 \o <<>>)) \in Str
  /\ p5 \o (p6 \o <<>>) \in Str
  /\ p6 \o <<>> \in Str

LEMMA FlatIs6 ==
  ASSUME NEW p1 \in Str, NEW p2 \in Str, NEW p3 \in Str, NEW p4 \in Str, NEW p5 \in Str, NEW p6 \in Str
  PROVE  Flat6(p1, p2, p3, p4, p5, p6)
<1> DEFINE q == p1 \o p2
           t == p3 \o (p4 \o (p5 \o (p6 \o <<>>)))
<1>1. q \in Str
  BY Cat, Zenon
<1> HIDE DEF q
<1>2. Flat5(q, p3, p4, p5, p6)
  BY <1>1, FlatIs5, Zenon
<1>3. q \o p3 \o p4 \o p5 \o p6 = q \o t /\ t \in Str
  BY <1>2, Zenon DEF Flat5
<1> HIDE DEF t
<1>4. q \o t = p1 \o (p2 \o t) /\ p2 \o t \in Str
  <2>1. t \in Str
    BY <1>3, Zenon
  <2>2. AssocIs(p1, p2, t)
    BY <2>1, Assoc, Zenon
  <2>3. p2 \o t \in Str
    BY <2>1, Cat, Zenon
  <2>4. QED
    BY <2>2, <2>3, Zenon DEF q, AssocIs
<1>5. p1 \o p2 \o p3 \o p4 \o p5 \o p6 = p1 \o (p2 \o t)
  BY <1>3, <1>4, Zenon DEF q
<1>6. p1 \o p2 \o p3 \o p4 \o p5 \o p6 \in Str
  BY <1>2, Zenon DEF Flat5, q
<1>7. p3 \o (p4 \o (p5 \o (p6 \o <<>>))) \in Str
      /\ p4 \o (p5 \o (p6 \o <<>>)) \in Str
      /\ p5 \o (p6 \o <<>>) \in Str
      /\ p6 \o <<>> \in Str
  BY <1>2, Zenon DEF Flat5
<1>8. QED
  BY <1>4, <1>5, <1>6, <1>7, Zenon DEF Flat6, t

Flat7(p1, p2, p3, p4, p5, p6, p7) ==
  /\ p1 \o p2 \o p3 \o p4 \o p5 \o p6 \o p7 = p1 \o (p2 \o (p3 \o (p4 \o (p5 \o (p6 \o (p7 \o <<>>))))))
  /\ p1 \o p2 \o p3 \o p4 \o p5 \o p6 \o p7 \in Str
  /\ p2 \o (p3 \o (p4 \o (p5 \o (p6 \o (p7 \o <<>>))))) \in Str
  /\ p3 \o (p4 \o (p5 \o (p6 \o (p7 \o <<>>)))) \in Str
  /\ p4 \o (p5 \o (p6 \o (p7 \o <<>>))) \in Str
  /\ p5 \o (p6 \o (p7 \o <<>>)) \in Str
  /\ p6 \o (p7 \o <<>>) \in Str
  /\ p7 \o <<>> \in Str

LEMMA FlatIs7 ==
  ASSUME NEW p1 \in Str, NEW p2 \in Str, NEW p3 \in Str, NEW p4 \in Str, NEW p5 \in Str, NEW p6 \in Str,
         NEW p7 \in Str
  PROVE  Flat7(p1, p2, p3, p4, p5, p6, p7)
<1> DEFINE q == p1 \o p2
           t == p3 \o (p4 \o (p5 \o (p6 \o (p7 \o <<>>))))
<1>1. q \in Str
  BY Cat, Zenon
<1> HIDE DEF q
<1>2. Flat6(q, p3, p4, p5, p6, p7)
  BY <1>1, FlatIs6, Zenon
<1>3. q \o p3 \o p4 \o p5 \o p6 \o p7 = q \o t /\ t \in Str
  BY <1>2, Zenon DEF Flat6
<1> HIDE DEF t
<1>4. q \o t = p1 \o (p2 \o t) /\ p2 \o t \in Str
  <2>1. t \in Str
    BY <1>3, Zenon
  <2>2. AssocIs(p1, p2, t)
    BY <2>1, Assoc, Zenon
  <2>3. p2 \o t \in Str
    BY <2>1, Cat, Zenon
  <2>4. QED
    BY <2>2, <2>3, Zenon DEF q, AssocIs
<1>5. p1 \o p2 \o p3 \o p4 \o p5 \o p6 \o p7 = p1 \o (p2 \o t)
  BY <1>3, <1>4, Zenon DEF q
<1>6. p1 \o p2 \o p3 \o p4 \o p5 \o p6 \o p7 \in Str
  BY <1>2, Zenon DEF Flat6, q
<1>7. p3 \o (p4 \o (p5 \o (p6 \o (p7 \o <<>>)))) \in Str
      /\ p4 \o (p5 \o (p6 \o (p7 \o <<>>))) \in Str
      /\ p5 \o (p6 \o (p7 \o <<>>)) \in Str
      /\ p6 \o (p7 \o <<>>) \in Str
      /\ p7 \o <<>> \in Str
  BY <1>2, Zenon DEF Flat6
<1>8. QED
  BY <1>4, <1>5, <1>6, <1>7, Zenon DEF Flat7, t

Flat8(p1, p2, p3, p4, p5, p6, p7, p8) ==
  /\ p1 \o p2 \o p3 \o p4 \o p5 \o p6 \o p7 \o p8 = p1 \o (p2 \o (p3 \o (p4 \o (p5 \o (p6 \o (p7 \o (p8 \o <<>>)))))))
  /\ p1 \o p2 \o p3 \o p4 \o p5 \o p6 \o p7 \o p8 \in Str
  /\ p2 \o (p3 \o (p4 \o (p5 \o (p6 \o (p7 \o (p8 \o <<>>)))))) \in Str
  /\ p3 \o (p4 \o (p5 \o (p6 \o (p7 \o (p8 \o <<>>))))) \in Str
  /\ p4 \o (p5 \o (p6 \o (p7 \o (p8 \o <<>>)))) \in Str
  /\ p5 \o (p6 \o (p7 \o (p8 \o <<>>))) \in Str
  /\ p6 \o (p7 \o (p8 \o <<>>)) \in Str
  /\ p7 \o (p8 \o <<>>) \in Str
  /\ p8 \o <<>> \in Str

LEMMA FlatIs8 ==
  ASSUME NEW p1 \in Str, NEW p2 \in Str, NEW p3 \in Str, NEW p4 \in Str, NEW p5 \in Str, NEW p6 \in Str,
         NEW p7 \in Str, NEW p8 \in Str
  PROVE  Flat8(p1, p2, p3, p4, p5, p6, p7, p8)
<1> DEFINE q == p1 \o p2
           t == p3 \o (p4 \o (p5 \o (p6 \o (p7 \o (p8 \o <<>>)))))
<1>1. q \in Str
  BY Cat, Zenon
<1> HIDE DEF q
<1>2. Flat7(q, p3, p4, p5, p6, p7, p8)
  BY <1>1, FlatIs7, Zenon
<1>3. q \o p3 \o p4 \o p5 \o p6 \o p7 \o p8 = q \o t /\ t \in Str
  BY <1>2, Zenon DEF Flat7
<1> HIDE DEF t
<1>4. q \o t = p1 \o (p2 \o t) /\ p2 \o t \in Str
  <2>1. t \in Str
    BY <1>3, Zenon
  <2>2. AssocIs(p1, p2, t)
    BY <2>1, Assoc, Zenon
  <2>3. p2 \o t \in Str
    BY <2>1, Cat, Zenon
  <2>4. QED
    BY <2>2, <2>3, Zenon DEF q, AssocIs
<1>5. p1 \o p2 \o p3 \o p4 \o p5 \o p6 \o p7 \o p8 = p1 \o (p2 \o t)
  BY <1>3, <1>4, Zenon DEF q
<1>6. p1 \o p2 \o p3 \o p4 \o p5 \o p6 \o p7 \o p8 \in Str
  BY <1>2, Zenon DEF Flat7, q
<1>7. p3 \o (p4 \o (p5 \o (p6 \o (p7 \o (p8 \o <<>>))))) \in Str
      /\ p4 \o (p5 \o (p6 \o (p7 \o (p8 \o <<>>)))) \in Str
      /\ p5 \o (p6 \o (p7 \o (p8 \o <<>>))) \in Str
      /\ p6 \o (p7 \o (p8 \o <<>>)) \in Str
      /\ p7 \o (p8 \o <<>>) \in Str
      /\ p8 \o <<>> \in Str
  BY <1>2, Zenon DEF Flat7
<1>8. QED
  BY <1>4, <1>5, <1>6, <1>7, Zenon DEF Flat8, t

Flat9(p1, p2, p3, p4, p5, p6, p7, p8, p9) ==
  /\ p1 \o p2 \o p3 \o p4 \o p5 \o p6 \o p7 \o p8 \o p9 = p1 \o (p2 \o (p3 \o (p4 \o (p5 \o (p6 \o (p7 \o (p8 \o (p9 \o <<>>))))))))
  /\ p1 \o p2 \o p3 \o p4 \o p5 \o p6 \o p7 \o p8 \o p9 \in Str
  /\ p2 \o (p3 \o (p4 \o (p5 \o (p6 \o (p7 \o (p8 \o (p9 \o <<>>))))))) \in Str
  /\ p3 \o (p4 \o (p5 \o (p6 \o (p7 \o (p8 \o (p9 \o <<>>)))))) \in Str
  /\ p4 \o (p5 \o (p6 \o (p7 \o (p8 \o (p9 \o <<>>))))) \in Str
  /\ p5 \o (p6 \o (p7 \o (p8 \o (p9 \o <<>>)))) \in Str
  /\ p6 \o (p7 \o (p8 \o (p9 \o <<>>))) \in Str
  /\ p7 \o (p8 \o (p9 \o <<>>)) \in Str
  /\ p8 \o (p9 \o <<>>) \in Str
  /\ p9 \o <<>> \in Str

LEMMA FlatIs9 ==
  ASSUME NEW p1 \in Str, NEW p2 \in Str, NEW p3 \in Str, NEW p4 \in Str, NEW p5 \in Str, NEW p6 \in Str,
         NEW p7 \in Str, NEW p8 \in Str, NEW p9 \in Str
  PROVE  Flat9(p1, p2, p3, p4, p5, p6, p7, p8, p9)
<1> DEFINE q == p1 \o p2
           t == p3 \o (p4 \o (p5 \o (p6 \o (p7 \o (p8 \o (p9 \o <<>>))))))
<1>1. q \in Str
  BY Cat, Zenon
<1> HIDE DEF q
<1>2. Flat8(q, p3, p4, p5, p6, p7, p8, p9)
  BY <1>1, FlatIs8, Zenon
<1>3. q \o p3 \o p4 \o p5 \o p6 \o p7 \o p8 \o p9 = q \o t /\ t \in Str
  BY <1>2, Zenon DEF Flat8
<1> HIDE DEF t
<1>4. q \o t = p1 \o (p2 \o t) /\ p2 \o t \in Str
  <2>1. t \in Str
    BY <1>3, Zenon
  <2>2. AssocIs(p1, p2, t)
    BY <2>1, Assoc, Zenon
  <2>3. p2 \o t \in Str
    BY <2>1, Cat, Zenon
  <2>4. QED
    BY <2>2, <2>3, Zenon DEF q, AssocIs
<1>5. p1 \o p2 \o p3 \o p4 \o p5 \o p6 \o p7 \o p8 \o p9 = p1 \o (p2 \o t)
  BY <1>3, <1>4, Zenon DEF q
<1>6. p1 \o p2 \o p3 \o p4 \o p5 \o p6 \o p7 \o p8 \o p9 \in Str
  BY <1>2, Zenon DEF Flat8, q
<1>7. p3 \o (p4 \o (p5 \o (p6 \o (p7 \o (p8 \o (p9 \o <<>>)))))) \in Str
      /\ p4 \o (p5 \o (p6 \o (p7 \o (p8 \o (p9 \o <<>>))))) \in Str
      /\ p5 \o (p6 \o (p7 \o (p8 \o (p9 \o <<>>)))) \in Str
      /\ p6 \o (p7 \o (p8 \o (p9 \o <<>>))) \in Str
      /\ p7 \o (p8 \o (p9 \o <<>>)) \in Str
      /\ p8 \o (p9 \o <<>>) \in Str
      /\ p9 \o <<>> \in Str
  BY <1>2, Zenon DEF Flat8
<1>8. QED
  BY <1>4, <1>5, <1>6, <1>7, Zenon DEF Flat9, t

Flat10(p1, p2, p3, p4, p5, p6, p7, p8, p9, p10) ==
  /\ p1 \o p2 \o p3 \o p4 \o p5 \o p6 \o p7 \o p8 \o p9 \o p10 = p1 \o (p2 \o (p3 \o (p4 \o (p5 \o (p6 \o (p7 \o (p8 \o (p9 \o (p10 \o <<>>)))))))))
  /\ p1 \o p2 \o p3 \o p4 \o p5 \o p6 \o p7 \o p8 \o p9 \o p10 \in Str
  /\ p2 \o (p3 \o (p4 \o (p5 \o (p6 \o (p7 \o (p8 \o (p9 \o (p10 \o <<>>)))))))) \in Str
  /\ p3 \o (p4 \o (p5 \o (p6 \o (p7 \o (p8 \o (p9 \o (p10 \o <<>>))))))) \in Str
  /\ p4 \o (p5 \o (p6 \o (p7 \o (p8 \o (p9 \o (p10 \o <<>>)))))) \in Str
  /\ p5 \o (p6 \o (p7 \o (p8 \o (p9 \o (p10 \o <<>>))))) \in Str
  /\ p6 \o (p7 \o (p8 \o (p9 \o (p10 \o <<>>)))) \in Str
  /\ p7 \o (p8 \o (p9 \o (p10 \o <<>>))) \in Str
  /\ p8 \o (p9 \o (p10 \o <<>>)) \in Str
  /\ p9 \o (p10 \o <<>>) \in Str
  /\ p10 \o <<>> \in Str

LEMMA FlatIs10 ==
  ASSUME NEW p1 \in Str, NEW p2 \in Str, NEW p3 \in Str, NEW p4 \in Str, NEW p5 \in Str, NEW p6 \in Str,
         NEW p7 \in Str, NEW p8 \in Str, NEW p9 \in Str, NEW p10 \in Str
  PROVE  Flat10(p1, p2, p3, p4, p5, p6, p7, p8, p9, p10)
<1> DEFINE q == p1 \o p2
           t == p3 \o (p4 \o (p5 \o (p6 \o (p7 \o (p8 \o (p9 \o (p10 \o <<>>)))))))
<1>1. q \in Str
  BY Cat, Zenon
<1> HIDE DEF q
<1>2. Flat9(q, p3, p4, p5, p6, p7, p8, p9, p10)
  BY <1>1, FlatIs9, Zenon
<1>3. q \o p3 \o p4 \o p5 \o p6 \o p7 \o p8 \o p9 \o p10 = q \o t /\ t \in Str
  BY <1>2, Zenon DEF Flat9
<1> HIDE DEF t
<1>4. q \o t = p1 \o (p2 \o t) /\ p2 \o t \in Str
  <2>1. t \in Str
    BY <1>3, Zenon
  <2>2. AssocIs(p1, p2, t)
    BY <2>1, Assoc, Zenon
  <2>3. p2 \o t \in Str
    BY <2>1, Cat, Zenon
  <2>4. QED
    BY <2>2, <2>3, Zenon DEF q, AssocIs
<1>5. p1 \o p2 \o p3 \o p4 \o p5 \o p6 \o p7 \o p8 \o p9 \o p10 = p1 \o (p2 \o t)
  BY <1>3, <1>4, Zenon DEF q
<1>6. p1 \o p2 \o p3 \o p4 \o p5 \o p6 \o p7 \o p8 \o p9 \o p10 \in Str
  BY <1>2, Zenon DEF Flat9, q
<1>7. p3 \o (p4 \o (p5 \o (p6 \o (p7 \o (p8 \o (p9 \o (p10 \o <<>>))))))) \in Str
      /\ p4 \o (p5 \o (p6 \o (p7 \o (p8 \o (p9 \o (p10 \o <<>>)))))) \in Str
      /\ p5 \o (p6 \o (p7 \o (p8 \o (p9 \o (p10 \o <<>>))))) \in Str
      /\ p6 \o (p7 \o (p8 \o (p9 \o (p10 \o <<>>)))) \in Str
      /\ p7 \o (p8 \o (p9 \o (p10 \o <<>>))) \in Str
      /\ p8 \o (p9 \o (p10 \o <<>>)) \in Str
      /\ p9 \o (p10 \o <<>>) \in Str
      /\ p10 \o <<>> \in Str
  BY <1>2, Zenon DEF Flat9
<1>8. QED
  BY <1>4, <1>5, <1>6, <1>7, Zenon DEF Flat10, t

Flat11(p1, p2, p3, p4, p5, p6, p7, p8, p9, p10, p11) ==
  /\ p1 \o p2 \o p3 \o p4 \o p5 \o p6 \o p7 \o p8 \o p9 \o p10 \o p11 = p1 \o (p2 \o (p3 \o (p4 \o (p5 \o (p6 \o (p7 \o (p8 \o (p9 \o (p10 \o (p11 \o <<>>))))))))))
  /\ p1 \o p2 \o p3 \o p4 \o p5 \o p6 \o p7 \o p8 \o p9 \o p10 \o p11 \in Str
  /\ p2 \o (p3 \o (p4 \o (p5 \o (p6 \o (p7 \o (p8 \o (p9 \o (p10 \o (p11 \o <<>>))))))))) \in Str
  /\ p3 \o (p4 \o (p5 \o (p6 \o (p7 \o (p8 \o (p9 \o (p10 \o (p11 \o <<>>)))))))) \in Str
  /\ p4 \o (p5 \o (p6 \o (p7 \o (p8 \o (p9 \o (p10 \o (p11 \o <<>>))))))) \in Str
  /\ p5 \o (p6 \o (p7 \o (p8 \o (p9 \o (p10 \o (p11 \o <<>>)))))) \in Str
  /\ p6 \o (p7 \o (p8 \o (p9 \o (p10 \o (p11 \o <<>>))))) \in Str
  /\ p7 \o (p8 \o (p9 \o (p10 \o (p11 \o <<>>)))) \in Str
  /\ p8 \o (p9 \o (p10 \o (p11 \o <<>>))) \in Str
  /\ p9 \o (p10 \o (p11 \o <<>>)) \in Str
  /\ p10 \o (p11 \o <<>>) \in Str
  /\ p11 \o <<>> \in Str

LEMMA FlatIs11 ==
  ASSUME NEW p1 \in Str, NEW p2 \in Str, NEW p3 \in Str, NEW p4 \in Str, NEW p5 \in Str, NEW p6 \in Str,
         NEW p7 \in Str, NEW p8 \in Str, NEW p9 \in Str, NEW p10 \in Str, NEW p11 \in Str
  PROVE  Flat11(p1, p2, p3, p4, p5, p6, p7, p8, p9, p10, p11)
<1> DEFINE q == p1 \o p2
           t == p3 \o (p4 \o (p5 \o (p6 \o (p7 \o (p8 \o (p9 \o (p10 \o (p11 \o <<>>))))))))
<1>1. q \in Str
  BY Cat, Zenon
<1> HIDE DEF q
<1>2. Flat10(q, p3, p4, p5, p6, p7, p8, p9, p10, p11)
  BY <1>1, FlatIs10, Zenon
<1>3. q \o p3 \o p4 \o p5 \o p6 \o p7 \o p8 \o p9 \o p10 \o p11 = q \o t /\ t \in Str
  BY <1>2, Zenon DEF Flat10
<1> HIDE DEF t
<1>4. q \o t = p1 \o (p2 \o t) /\ p2 \o t \in Str
  <2>1. t \in Str
    BY <1>3, Zenon
  <2>2. AssocIs(p1, p2, t)
    BY <2>1, Assoc, Zenon
  <2>3. p2 \o t \in Str
    BY <2>1, Cat, Zenon
  <2>4. QED
    BY <2>2, <2>3, Zenon DEF q, AssocIs
<1>5. p1 \o p2 \o p3 \o p4 \o p5 \o p6 \o p7 \o p8 \o p9 \o p10 \o p11 = p1 \o (p2 \o t)
  BY <1>3, <1>4, Zenon DEF q
<1>6. p1 \o p2 \o p3 \o p4 \o p5 \o p6 \o p7 \o p8 \o p9 \o p10 \o p11 \in Str
  BY <1>2, Zenon DEF Flat10, q
<1>7. p3 \o (p4 \o (p5 \o (p6 \o (p7 \o (p8 \o (p9 \o (p10 \o (p11 \o <<>>)))))))) \in Str
      /\ p4 \o (p5 \o (p6 \o (p7 \o (p8 \o (p9 \o (p10 \o (p11 \o <<>>))))))) \in Str
      /\ p5 \o (p6 \o (p7 \o (p8 \o (p9 \o (p10 \o (p11 \o <<>>)))))) \in Str
      /\ p6 \o (p7 \o (p8 \o (p9 \o (p10 \o (p11 \o <<>>))))) \in Str
      /\ p7 \o (p8 \o (p9 \o (p10 \o (p11 \o <<>>)))) \in Str
      /\ p8 \o (p9 \o (p10 \o (p11 \o <<>>))) \in Str
      /\ p9 \o (p10 \o (p11 \o <<>>)) \in Str
      /\ p10 \o (p11 \o <<>>) \in Str
      /\ p11 \o <<>> \in Str
  BY <1>2, Zenon DEF Flat10
<1>8. QED
  BY <1>4, <1>5, <1>6, <1>7, Zenon DEF Flat11, t


-----------------------------------------------------------------------------
LEMMA VarIntShape == ASSUME NEW x \in Int32 PROVE encode_varint(x) \in Str
BY EncodeShape, Zenon DEF Str

LEMMA FlagStr == ASSUME NEW x \in BOOLEAN PROVE Flag(x) \in Str
BY FlagShape, Zenon

LEMMA RawNAt ==
  ASSUME NEW r, NEW u, NEW t \in Str, NEW n, Len(t) = n, NEW s \in Str, NEW m \in Str,
         At(r, u, t \o s, m)
  PROVE  At(GetRaw(n, r), t, s, m) /\ (r = Failed => GetRaw(n, r) = Failed)
<1>1. At(GetRaw(Len(t), r), t, s, m) /\ (r = Failed => GetRaw(Len(t), r) = Failed)
  BY RawAt, Zenon
<1>2. QED
  BY <1>1, Zenon

(* No reader goes on after a failure. *)
LEMMA Strict ==
  /\ GetVarInt(Failed) = Failed /\ GetText(Failed) = Failed /\ GetU8(Failed) = Failed
  /\ GetI8(Failed) = Failed /\ GetBool(Failed) = Failed /\ GetU16(Failed) = Failed
  /\ GetRest(Failed) = Failed /\ GetOptText(Failed) = Failed
  /\ \A n : GetRaw(n, Failed) = Failed
<1>1. \A n : GetRaw(n, Failed) = Failed
  BY FailedParts, Zenon DEF GetRaw
<1>2. GetVarInt(Failed) = Failed
  BY FailedParts, Zenon DEF GetVarInt
<1>3. GetU8(Failed) = Failed
  BY FailedParts, Zenon DEF GetU8
<1>4. GetText(Failed) = Failed
  BY <1>1, <1>2, Zenon DEF GetText
<1>5. GetI8(Failed) = Failed
  BY <1>3, WithParts, Zenon DEF GetI8
<1>6. GetBool(Failed) = Failed
  BY <1>3, WithParts, Zenon DEF GetBool
<1>7. GetU16(Failed) = Failed
  BY <1>1, WithParts, Zenon DEF GetU16
<1>8. GetRest(Failed) = Failed
  BY FailedParts, Zenon DEF GetRest
<1>9. GetOptText(Failed) = Failed
  BY <1>6, FailedParts, WithParts, Zenon DEF GetOptText
<1>10. QED
  BY <1>1, <1>2, <1>3, <1>4, <1>5, <1>6, <1>7, <1>8, <1>9, Zenon

(* A reader that need not take all that is left has handed back e, or it has failed for
   want of the bytes m. *)
Reads(r, e, m) ==
  \/ r = Failed /\ m # <<>>
  \/ \E t : r = Got(e, t)

LEMMA AtReads == ASSUME NEW r, NEW x, NEW s, NEW m, At(r, x, s, m) PROVE Reads(r, x, m)
BY Zenon DEF At, Reads

LEMMA ReadsVal == ASSUME NEW r, NEW e, NEW m, Reads(r, e, m), r # Failed PROVE r.ok /\ r.val = e
<1>1. PICK t : r = Got(e, t)
  BY Zenon DEF Reads
<1>2. QED
  BY <1>1, GotParts, Zenon

LEMMA ReadsEnd ==
  ASSUME NEW r, NEW x, NEW m, Reads(r, x, m), NEW y, NEW z, r # Failed => y = z
  PROVE  Reads(With(r, y), z, m)
<1>1. CASE r = Failed
  <2>1. With(r, y) = Failed /\ m # <<>>
    BY <1>1, FailedParts, WithParts, Zenon DEF Reads
  <2>2. QED
    BY <2>1, Zenon DEF Reads
<1>2. CASE r # Failed
  <2>1. PICK t : r = Got(x, t)
    BY <1>2, Zenon DEF Reads
  <2>2. With(r, y) = Got(y, t)
    BY <2>1, WithParts, Zenon
  <2>3. QED
    BY <1>2, <2>2, Zenon DEF Reads
<1>3. QED
  BY <1>1, <1>2, Zenon

LEMMA PrefixOf ==
  ASSUME NEW d \in Str, NEW m \in Str, NEW s, d \o m = s
  PROVE  IsPrefix(d, s) /\ (m = <<>> => d = s)
<1>1. Len(s) = Len(d) + Len(m) /\ Len(d) \in Nat /\ Len(m) \in Nat
  BY Cat
<1>2. SubSeq(s, 1, Len(d)) = d
  BY CutFront DEF Str
<1>3. SubSeq(d, 1, Len(d)) = d
  BY SubSeqFull DEF Str
<1>4. Len(d) <= Len(s)
  BY <1>1
<1>5. IsPrefix(d, s)
  BY <1>2, <1>3, <1>4, Zenon DEF IsPrefix
<1>6. QED
  BY <1>5, Empty, Zenon

(* All that is left, of which the end may be missing. *)
ReadsFront(r, s, m) ==
  \E d \in Str : /\ Reads(r, d, m) /\ IsPrefix(d, s) /\ (m = <<>> => d = s)
                 /\ r # Failed => d \o m = s

LEMMA RestAt ==
  ASSUME NEW r, NEW u, NEW s \in Str, NEW m \in Str, At(r, u, s, m)
  PROVE  ReadsFront(GetRest(r), s, m)
<1>1. CASE r = Failed
  <2>1. GetRest(r) = Failed /\ m # <<>>
    BY <1>1, Strict, AtFailed, Zenon
  <2>2. IsPrefix(s, s)
    BY Empty, PrefixOf, Zenon
  <2>3. QED
    BY <2>1, <2>2, Zenon DEF Reads, ReadsFront
<1>2. CASE r # Failed
  <2>1. r.ok /\ r.rest \in Str /\ r.rest \o m = s
    BY <1>2, AtParts, Zenon
  <2>2. GetRest(r) = Got(r.rest, <<>>)
    BY <2>1, Zenon DEF GetRest
  <2>3. IsPrefix(r.rest, s) /\ (m = <<>> => r.rest = s)
    BY <2>1, PrefixOf, Zenon
  <2>4. QED
    BY <2>1, <2>2, <2>3, Zenon DEF Reads, ReadsFront
<1>3. QED
  BY <1>1, <1>2, Zenon

(* A field that is read only if enough bytes are left: it is read, or some are missing. *)
LeftAt(n, r, next, o, x, s, m) ==
  \/ At(IfLeft(n, r, next, o), x, s, m) /\ (r = Failed => IfLeft(n, r, next, o) = Failed)
  \/ m # <<>> /\ IfLeft(n, r, next, o) = Got(o, r.rest) /\ r # Failed /\ Len(r.rest) < n

LEMMA IfLeftAt ==
  ASSUME NEW r, NEW u, NEW p \in Str, NEW s \in Str, NEW m \in Str, At(r, u, p \o s, m),
         NEW n \in Nat, n <= Len(p), NEW next, NEW x, At(next, x, s, m), NEW o,
         r = Failed => next = Failed
  PROVE  LeftAt(n, r, next, o, x, s, m)
<1> DEFINE g == IfLeft(n, r, next, o)
<1>1. g = IF r.ok /\ Len(r.rest) >= n THEN next ELSE With(r, o)
  BY Zenon DEF IfLeft
<1> HIDE DEF g
<1>2. CASE r = Failed
  <2>1. g = Failed
    BY <1>1, <1>2, FailedParts, WithParts, Zenon
  <2>2. QED
    BY <1>2, <2>1, AtFailed, Zenon DEF g, LeftAt
<1>3. CASE r # Failed
  <2>1. r.ok /\ r.rest \in Str /\ r.rest \o m = p \o s /\ With(r, o) = Got(o, r.rest)
    BY <1>3, AtParts, Zenon
  <2>2. CASE Len(r.rest) >= n
    <3>1. g = next
      BY <1>1, <2>1, <2>2, Zenon
    <3>2. QED
      BY <1>3, <3>1, Zenon DEF g, LeftAt
  <2>3. CASE ~(Len(r.rest) >= n)
    <3>1. g = Got(o, r.rest)
      BY <1>1, <2>1, <2>3, Zenon
    <3> DEFINE q == r.rest
    <3>2. /\ q \in Str /\ Len(q \o m) = Len(q) + Len(m) /\ Len(p \o s) = Len(p) + Len(s)
          /\ Len(q) \in Nat /\ Len(m) \in Nat /\ Len(p) \in Nat /\ Len(s) \in Nat
      BY <2>1, Cat
    <3>3. q \o m = p \o s /\ ~(Len(q) >= n)
      BY <2>1, <2>3, Zenon
    <3> HIDE DEF q
    <3>4. Len(q) < n /\ Len(m) # 0
      BY <3>2, <3>3
    <3>5. m # <<>>
      BY <3>4
    <3>6. QED
      BY <1>3, <3>1, <3>4, <3>5, Zenon DEF g, q, LeftAt
  <2>4. QED
    BY <2>2, <2>3, Zenon
<1>4. QED
  BY <1>2, <1>3, Zenon

-----------------------------------------------------------------------------
(* Lists: induction along a list, and how what is written of it is taken off. *)
LEMMA LeastElement ==
  ASSUME NEW S, S \subseteq Nat, S # {}
  PROVE  \E n \in S : \A m \in S : n <= m
<1>1. PICK n \in S : \A m \in S : ~(<<m, n>> \in OpToRel(<, Nat))
  BY WFMin, NatLessThanWellFounded, Zenon
<1>2. \A m \in S : ~(m < n)
  BY <1>1 DEF OpToRel
<1>3. QED
  BY <1>2

LEMMA UpTo ==
  ASSUME NEW N \in Nat, NEW S, 0 \in S, \A i \in 1 .. N : i - 1 \in S => i \in S
  PROVE  \A i \in 0 .. N : i \in S
<1> DEFINE C == {i \in 0 .. N : i \notin S}
<1> SUFFICES ASSUME C # {} PROVE FALSE
  OBVIOUS
<1>1. C \subseteq Nat
  OBVIOUS
<1>2. PICK n \in C : \A i \in C : n <= i
  <2> HIDE DEF C
  <2>1. QED
    BY <1>1, LeastElement
<1>3. n \in 1 .. N /\ n - 1 \in 0 .. N /\ ~(n <= n - 1)
  BY <1>2
<1>4. n - 1 \in S
  BY <1>2, <1>3
<1>5. QED
  BY <1>2, <1>3, <1>4

LEMMA DownFrom ==
  ASSUME NEW N \in Nat, NEW S, N \in S, \A i \in 1 .. N : i \in S => i - 1 \in S
  PROVE  \A i \in 0 .. N : i \in S
<1> DEFINE T == {k \in 0 .. N : N - k \in S}
<1>1. 0 \in T
  OBVIOUS
<1>2. ASSUME NEW k \in 1 .. N, k - 1 \in T PROVE k \in T
  <2>1. N - (k - 1) \in 1 .. N /\ (N - (k - 1)) - 1 = N - k
    OBVIOUS
  <2>2. N - (k - 1) \in S
    BY <1>2
  <2>3. QED
    BY <2>1, <2>2
<1> HIDE DEF T
<1>3. \A k \in 0 .. N : k \in T
  BY <1>1, <1>2, UpTo
<1>4. ASSUME NEW i \in 0 .. N PROVE i \in S
  <2>1. N - i \in T
    BY <1>3
  <2>2. QED
    BY <2>1 DEF T
<1>5. QED
  BY <1>4

Joined(a, b) == a \o b

(* What FlattenSeq has after each of the strings. *)
LEMMA FlattenIs ==
  ASSUME NEW ss, NEW N \in Nat, Len(ss) = N, N # 0
  PROVE  \E g : /\ FlattenSeq(ss) = g[N] /\ g[1] = ss[1]
                /\ \A i \in 2 .. N : g[i] = g[i - 1] \o ss[i]
<1> DEFINE Is(g, n) == g = [i \in 1 .. n |-> IF i = 1 THEN ss[i] ELSE Joined(g[i - 1], ss[i])]
           flatten  == CHOOSE g : Is(g, N)
           S        == {n \in 0 .. N : \E g : Is(g, n)}
<1>1. 0 \in S
  <2> DEFINE g == [i \in 1 .. 0 |-> ss[1]]
  <2>1. Is(g, 0)
    OBVIOUS
  <2>2. 0 \in 0 .. N
    OBVIOUS
  <2> HIDE DEF g
  <2>3. QED
    BY <2>1, <2>2, Zenon
<1>2. ASSUME NEW n \in 1 .. N, n - 1 \in S PROVE n \in S
  <2>1. PICK g : Is(g, n - 1)
    BY <1>2, Zenon
  <2> DEFINE h == [i \in 1 .. n |-> IF i <= n - 1 THEN g[i]
                                    ELSE IF n = 1 THEN ss[1] ELSE Joined(g[n - 1], ss[n])]
  <2>2. ASSUME NEW i \in 1 .. n
        PROVE  h[i] = IF i = 1 THEN ss[i] ELSE Joined(h[i - 1], ss[i])
    <3>1. CASE i <= n - 1 /\ i # 1
      <4>1. h[i] = g[i] /\ h[i - 1] = g[i - 1]
        BY <3>1
      <4>2. g[i] = Joined(g[i - 1], ss[i])
        BY <2>1, <3>1
      <4>3. QED
        BY <3>1, <4>1, <4>2
    <3>2. CASE i <= n - 1 /\ i = 1
      <4>1. h[i] = g[i]
        BY <3>2
      <4>2. g[i] = ss[i]
        BY <2>1, <3>2
      <4>3. QED
        BY <3>2, <4>1, <4>2
    <3>3. CASE i = n /\ n = 1
      BY <3>3
    <3>4. CASE i = n /\ n # 1
      <4>1. h[i] = Joined(g[n - 1], ss[n]) /\ h[i - 1] = g[n - 1]
        BY <3>4
      <4>2. QED
        BY <3>4, <4>1
    <3>5. QED
      BY <3>1, <3>2, <3>3, <3>4
  <2>3. h = [i \in 1 .. n |-> h[i]]
    OBVIOUS
  <2> HIDE DEF h
  <2>4. Is(h, n)
    BY <2>2, <2>3
  <2>5. n \in 0 .. N
    OBVIOUS
  <2>6. QED
    BY <2>4, <2>5, Zenon
<1> HIDE DEF S
<1>3. N \in S
  BY <1>1, <1>2, UpTo
<1>4. Is(flatten, N)
  BY <1>3, Zenon DEF S
<1>5. FlattenSeq(ss) = flatten[N]
  BY DEF FlattenSeq, Joined
<1> HIDE DEF flatten
<1>6. flatten[1] = ss[1] /\ \A i \in 2 .. N : flatten[i] = Joined(flatten[i - 1], ss[i])
  BY <1>4
<1>7. QED
  BY <1>5, <1>6, Zenon DEF Joined

(* The strings of ss and then s: what is still to come, from the i-th on. *)
Peels(R, ss, s, N) ==
  /\ R[0] = FlattenSeq(ss) \o s /\ R[N] = s
  /\ \A i \in 0 .. N : R[i] \in Str
  /\ \A i \in 1 .. N : R[i - 1] = ss[i] \o R[i]

LEMMA FlattenPeels ==
  ASSUME NEW ss, NEW N \in Nat, Len(ss) = N, \A i \in 1 .. N : ss[i] \in Str,
         N = 0 => ss = <<>>, NEW s \in Str
  PROVE  FlattenSeq(ss) \in Str /\ \E R : Peels(R, ss, s, N)
<1>1. CASE N = 0
  <2>1. FlattenSeq(ss) = <<>>
    BY <1>1 DEF FlattenSeq
  <2> DEFINE R == [i \in 0 .. 0 |-> s]
  <2>2. Peels(R, ss, s, N)
    BY <1>1, <2>1, Empty DEF Peels
  <2>3. QED
    BY <2>1, <2>2, Empty
<1>2. CASE N # 0
  <2>1. PICK g : /\ FlattenSeq(ss) = g[N] /\ g[1] = ss[1]
                 /\ \A i \in 2 .. N : g[i] = g[i - 1] \o ss[i]
    BY <1>2, FlattenIs
  <2> DEFINE F == [i \in 0 .. N |-> IF i = 0 THEN <<>> ELSE g[i]]
             all == F[N] \o s
             S == {i \in 0 .. N : F[i] \in Str}
  <2>2. F[0] = <<>> /\ F[N] = FlattenSeq(ss)
    BY <1>2, <2>1
  <2>3. ASSUME NEW i \in 1 .. N, F[i - 1] \in Str PROVE F[i] = F[i - 1] \o ss[i]
    <3>1. CASE i = 1
      <4>1. F[i] = ss[1] /\ F[i - 1] = <<>>
        BY <2>1, <3>1
      <4>2. ss[1] \in Str
        BY <1>2
      <4>3. QED
        BY <3>1, <4>1, <4>2, Empty
    <3>2. CASE i # 1
      <4>1. F[i] = g[i] /\ F[i - 1] = g[i - 1] /\ i \in 2 .. N
        BY <3>2
      <4>2. QED
        BY <2>1, <4>1
    <3>3. QED
      BY <3>1, <3>2
  <2> HIDE DEF F
  <2>4. 0 \in S
    BY <2>2, Empty
  <2>5. ASSUME NEW i \in 1 .. N, i - 1 \in S PROVE i \in S
    <3>1. F[i - 1] \in Str /\ ss[i] \in Str
      BY <2>5
    <3>2. F[i - 1] \o ss[i] \in Str
      BY <3>1, Cat, Zenon
    <3>3. F[i] \in Str
      BY <2>3, <3>1, <3>2, Zenon
    <3>4. QED
      BY <3>3
  <2> HIDE DEF S
  <2>6. \A i \in 0 .. N : i \in S
    BY <2>4, <2>5, UpTo
  <2>7. ASSUME NEW i \in 0 .. N PROVE F[i] \in Str
    <3>1. i \in S
      BY <2>6
    <3>2. QED
      BY <3>1 DEF S
  <2>8. F[N] \in Str
    BY <2>7
  <2>9. all \in Str
    BY <2>8, Cat, Zenon
  <2> DEFINE Ends(i, t) == t \in Str /\ all = F[i] \o t
             T == {i \in 0 .. N : \E t : Ends(i, t)}
  <2>10. N \in T
    <3>1. Ends(N, s)
      OBVIOUS
    <3>2. QED
      BY <3>1
  <2>11. ASSUME NEW i \in 1 .. N, i \in T PROVE i - 1 \in T
    <3>1. PICK t : Ends(i, t)
      BY <2>11
    <3>2. F[i - 1] \in Str /\ F[i] = F[i - 1] \o ss[i] /\ ss[i] \in Str
      BY <2>3, <2>7
    <3>t. t \in Str
      BY <3>1, Zenon
    <3>3. (F[i - 1] \o ss[i]) \o t = F[i - 1] \o (ss[i] \o t) /\ ss[i] \o t \in Str
      <4>1. F[i - 1] \in Str /\ ss[i] \in Str
        BY <3>2, Zenon
      <4> HIDE DEF T
      <4>2. AssocIs(F[i - 1], ss[i], t)
        BY <3>t, <4>1, Assoc, Zenon
      <4>3. ss[i] \o t \in Str
        BY <3>t, <4>1, Cat, Zenon
      <4>4. QED
        BY <4>2, <4>3, Zenon DEF AssocIs
    <3>4. Ends(i - 1, ss[i] \o t)
      BY <3>1, <3>2, <3>3, Zenon
    <3>5. i - 1 \in 0 .. N
      OBVIOUS
    <3>6. QED
      BY <3>4, <3>5, Zenon
  <2> HIDE DEF T
  <2>12. \A i \in 0 .. N : i \in T
    BY <2>10, <2>11, DownFrom
  <2> DEFINE R == [i \in 0 .. N |-> CHOOSE t : Ends(i, t)]
  <2>13. ASSUME NEW i \in 0 .. N PROVE Ends(i, R[i])
    <3>1. \E t : Ends(i, t)
      BY <2>12 DEF T
    <3>2. QED
      BY <3>1, Zenon
  <2> HIDE DEF R
  <2>14. ASSUME NEW i \in 1 .. N PROVE R[i - 1] = ss[i] \o R[i]
    <3>1. /\ i - 1 \in 0 .. N /\ i \in 0 .. N /\ ss[i] \in Str
      OBVIOUS
    <3>2. F[i - 1] \in Str /\ F[i] = F[i - 1] \o ss[i]
      BY <2>3, <2>7, <3>1, Zenon
    <3>3. Ends(i - 1, R[i - 1]) /\ Ends(i, R[i])
      BY <2>13, <3>1, Zenon
    <3>t. R[i] \in Str
      BY <3>3, Zenon
    <3>4. (F[i - 1] \o ss[i]) \o R[i] = F[i - 1] \o (ss[i] \o R[i]) /\ ss[i] \o R[i] \in Str
      BY <3>1, <3>2, <3>t, Cat3, Zenon
    <3>5. F[i - 1] \o R[i - 1] = F[i - 1] \o (ss[i] \o R[i])
      BY <3>2, <3>3, <3>4, Zenon
    <3>6. QED
      BY <3>2, <3>3, <3>4, <3>5, ConcatSimplifications DEF Str
  <2>15. R[0] = all
    <3>0. 0 \in 0 .. N
      OBVIOUS
    <3>1. Ends(0, R[0])
      BY <2>13, <3>0, Zenon
    <3>2. QED
      BY <2>2, <3>1, Empty, Zenon
  <2>16. R[N] = s
    <3>0. N \in 0 .. N
      OBVIOUS
    <3>1. Ends(N, R[N])
      BY <2>13, <3>0, Zenon
    <3>2. F[N] \o R[N] = F[N] \o s
      BY <3>1, Zenon
    <3>3. QED
      BY <2>8, <3>1, <3>2, ConcatSimplifications DEF Str
  <2>17. Peels(R, ss, s, N)
    <3>1. \A i \in 0 .. N : R[i] \in Str
      BY <2>13, Zenon
    <3>2. QED
      BY <2>2, <2>14, <2>15, <2>16, <3>1, Zenon DEF Peels
  <2>18. QED
    BY <2>2, <2>8, <2>17, Zenon
<1>3. QED
  BY <1>1, <1>2, Zenon

(* One more element of a list. *)
LEMMA FrontGrows ==
  ASSUME NEW T, NEW xs \in Seq(T), NEW i \in 1 .. Len(xs)
  PROVE  /\ Append(SubSeq(xs, 1, i - 1), xs[i]) = SubSeq(xs, 1, i) /\ xs[i] \in T
         /\ SubSeq(xs, 1, 0) = <<>> /\ SubSeq(xs, 1, Len(xs)) = xs
OBVIOUS


LEMMA CatLonger ==
  ASSUME NEW a \in Str, NEW b \in Str, 1 <= Len(a) PROVE a \o b \in Str /\ 1 <= Len(a \o b)
<1>1. a \o b \in Str
  BY Cat, Zenon
<1>2. Len(a \o b) = Len(a) + Len(b) /\ Len(b) \in Nat /\ Len(a) \in Nat
  BY Cat, Zenon
<1> DEFINE c == Len(a \o b)
<1>3. c = Len(a) + Len(b)
  BY <1>2, Zenon
<1> HIDE DEF c
<1>4. 1 <= c
  BY <1>2, <1>3
<1>5. QED
  BY <1>1, <1>4, Zenon DEF c

LEMMA VarIntLen ==
  ASSUME NEW x \in Int32 PROVE encode_varint(x) \in Str /\ 1 <= Len(encode_varint(x))
<1>1. encode_varint(x) \in Str /\ Len(encode_varint(x)) = LastGroup(x) /\ LastGroup(x) \in 1 .. 5
  BY EncodeShape, LastShape, Zenon DEF Str
<1> DEFINE n == LastGroup(x)
<1>2. n \in 1 .. 5
  BY <1>1, Zenon
<1> HIDE DEF n
<1>3. 1 <= n
  BY <1>2
<1>4. QED
  BY <1>1, <1>3, Zenon DEF n

(* A reader that was not to go on after a failure would have failed. *)
LEMMA Added ==
  ASSUME NEW a, NEW g, NEW y, a.ok \/ a = Failed, a = Failed => g = Failed
  PROVE  (IF a.ok THEN With(g, y) ELSE Failed) = With(g, y)
<1>1. CASE a.ok
  BY <1>1, Zenon
<1>2. CASE a = Failed
  BY <1>2, FailedParts, WithParts, Zenon
<1>3. QED
  BY <1>1, <1>2, Zenon

(* With nothing missing. *)
LEMMA AtWhole ==
  ASSUME NEW r, NEW x, NEW s \in Str, At(r, x, s, <<>>)
  PROVE  r = Got(x, s) /\ r.ok /\ r.val = x /\ r.rest = s /\ r # Failed
<1>1. PICK b \in Str : r = Got(x, b) /\ b \o <<>> = s
  BY Zenon DEF At
<1>2. r = Got(x, s)
  BY <1>1, Empty, Zenon
<1>3. QED
  BY <1>2, GotParts, FailedParts, Zenon

LEMMA StartAt == ASSUME NEW b \in Str PROVE At(Start(b), <<>>, b, <<>>)
BY Empty, Zenon DEF At, Start

LEMMA ByteZero == 0 \in Bytes
BY SMT DEF Bytes

-----------------------------------------------------------------------------
(* The packets of the Login state, and the worlds of the Play state. *)
(* Where reading starts. *)
LEMMA DecoderAt ==
  ASSUME NEW b \in Str, NEW m \in Str, NEW id, NEW ids, id \in ids
  PROVE  At(Decoder(RawPacket(id, b), ids), <<>>, b \o m, m)
<1>1. RawPacket(id, b).id = id /\ RawPacket(id, b).payload = b
  BY SMT DEF RawPacket
<1>2. Decoder(RawPacket(id, b), ids) = Got(<<>>, b)
  BY <1>1, Zenon DEF Decoder, Start
<1>3. QED
  BY <1>2, Zenon DEF At

LEMMA RawParts == \A id, b : RawPacket(id, b).id = id /\ RawPacket(id, b).payload = b
BY SMT DEF RawPacket

(* The id a packet is written with is one it is read with, in every version. *)
LEMMA OnlyOne == ASSUME NEW i PROVE Only({i}) = i
BY Zenon DEF Only

SmallIds == 0 .. 127

LEMMA IdsKnown ==
  ASSUME NEW v \in Int
  PROVE  /\ ChatCommandId(v) \in is_command_packet(v)
         /\ TabCompleteRequestId(v) \in is_tab_complete_request(v)
         /\ Only(CloseContainerId(v)) \in CloseContainerId(v)
         /\ Only(StopSoundId(v)) \in StopSoundId(v)
         /\ Only(BossBarId(v)) \in BossBarId(v)
         /\ Only(ScoreboardObjectiveId(v)) \in ScoreboardObjectiveId(v)
         /\ Only(DisplayObjectiveId(v)) \in DisplayObjectiveId(v)
<1>1. ChatCommandId(v) \in is_command_packet(v)
  BY DEF ChatCommandId, is_command_packet
<1>2. TabCompleteRequestId(v) \in is_tab_complete_request(v)
  BY DEF TabCompleteRequestId, is_tab_complete_request
<1>3. \A S : S # {} => Only(S) \in S
  BY DEF Only
<1>4. CloseContainerId(v) # {}
  BY DEF CloseContainerId
<1>5. StopSoundId(v) # {}
  BY DEF StopSoundId
<1>6. BossBarId(v) # {}
  BY DEF BossBarId
<1>7. ScoreboardObjectiveId(v) # {}
  BY DEF ScoreboardObjectiveId
<1>8. DisplayObjectiveId(v) # {}
  BY DEF DisplayObjectiveId
<1>9. QED
  BY <1>1, <1>2, <1>3, <1>4, <1>5, <1>6, <1>7, <1>8, Zenon

LEMMA EncryptionResponseRead ==
  ASSUME NEW x, x.shared_secret \in Field, x.verify_token \in Field
  PROVE  \E p \in Str :
           /\ encode_encryption_response(x) = RawPacket(1, p)
           /\ \A b, m \in Str : b \o m = p =>
                At(decode_encryption_response(RawPacket(1, b)),
                   [shared_secret |-> x.shared_secret, verify_token |-> x.verify_token], <<>>,
                     m)
<1> DEFINE p == Text(x.shared_secret) \o Text(x.verify_token)
           s1 == Text(x.verify_token) \o <<>>
           s0 == Text(x.shared_secret) \o s1
<1>1. Text(x.shared_secret) \in Str /\ Text(x.verify_token) \in Str
  BY TextShape, Zenon
<1>2. Flat2(Text(x.shared_secret), Text(x.verify_token))
  BY <1>1, FlatIs2, Zenon
<1>3. p = s0 /\ p \in Str
  BY <1>2, Zenon DEF Flat2
<1>s1. s1 \in Str
  BY <1>2, Zenon DEF Flat2
<1>4. encode_encryption_response(x) = RawPacket(1, p)
  BY Zenon DEF encode_encryption_response
<1>5. ASSUME NEW b \in Str, NEW m \in Str, b \o m = p
      PROVE  At(decode_encryption_response(RawPacket(1, b)),
             [shared_secret |-> x.shared_secret, verify_token |-> x.verify_token], <<>>, m)
  <2> DEFINE r0 == Decoder(RawPacket(1, b), {1})
             r1 == GetText(r0)
             r2 == GetText(r1)
             y  == [shared_secret |-> r1.val, verify_token |-> r2.val]
  <2>1. At(r0, <<>>, b \o m, m)
    BY DecoderAt, Zenon
  <2>2. At(r0, <<>>, s0, m)
    BY <1>3, <1>5, <2>1, Zenon
  <2> HIDE DEF r0
  <2>3. At(r1, x.shared_secret, s1, m)
    BY <1>s1, <2>2, TextAt, Zenon
  <2>4. At(r2, x.verify_token, <<>>, m)
    BY <2>3, TextAt, Empty, Zenon
  <2>f. (r1 = Failed => r2 = Failed)
    BY Strict, Zenon
  <2>5. decode_encryption_response(RawPacket(1, b)) = With(r2, y)
    BY Zenon DEF decode_encryption_response, r0
  <2> HIDE DEF r1, r2
  <2>6. r2 # Failed => r1.val = x.shared_secret /\ r2.val = x.verify_token
    BY <2>3, <2>4, <2>f, AtVal, Zenon
  <2>7. r2 # Failed => y = [shared_secret |-> x.shared_secret, verify_token |-> x.verify_token]
    BY <2>6, Zenon
  <2> HIDE DEF y
  <2>8. At(With(r2, y), [shared_secret |-> x.shared_secret, verify_token |-> x.verify_token],
        <<>>, m)
    BY <2>4, <2>7, AtEnd, Zenon
  <2>9. QED
    BY <2>5, <2>8, Zenon
<1> HIDE DEF p
<1>6. QED
  BY <1>3, <1>4, <1>5, Zenon

LEMMA SetCompressionRead ==
  ASSUME NEW x, x.threshold \in Int32
  PROVE  \E p \in Str :
           /\ encode_set_compression(x) = RawPacket(3, p)
           /\ \A b, m \in Str : b \o m = p =>
                At(decode_set_compression(RawPacket(3, b)),
                   [threshold |-> x.threshold], <<>>, m)
<1> DEFINE p == encode_varint(x.threshold)
           s0 == encode_varint(x.threshold) \o <<>>
<1>1. encode_varint(x.threshold) \in Str
  BY VarIntShape, Zenon
<1>3. p = s0 /\ p \in Str
  BY <1>1, Empty, Zenon
<1>4. encode_set_compression(x) = RawPacket(3, p)
  BY Zenon DEF encode_set_compression
<1>5. ASSUME NEW b \in Str, NEW m \in Str, b \o m = p
      PROVE  At(decode_set_compression(RawPacket(3, b)), [threshold |-> x.threshold], <<>>, m)
  <2> DEFINE r0 == Decoder(RawPacket(3, b), {3})
             r1 == GetVarInt(r0)
             y  == [threshold |-> r1.val]
  <2>1. At(r0, <<>>, b \o m, m)
    BY DecoderAt, Zenon
  <2>2. At(r0, <<>>, s0, m)
    BY <1>3, <1>5, <2>1, Zenon
  <2> HIDE DEF r0
  <2>3. At(r1, x.threshold, <<>>, m)
    BY <2>2, VarIntAt, Empty, Zenon
  <2>4. decode_set_compression(RawPacket(3, b)) = With(r1, y)
    BY Zenon DEF decode_set_compression, r0
  <2> HIDE DEF r1
  <2>5. r1 # Failed => r1.val = x.threshold
    BY <2>3, AtVal, Zenon
  <2>6. r1 # Failed => y = [threshold |-> x.threshold]
    BY <2>5, Zenon
  <2> HIDE DEF y
  <2>7. At(With(r1, y), [threshold |-> x.threshold], <<>>, m)
    BY <2>3, <2>6, AtEnd, Zenon
  <2>8. QED
    BY <2>4, <2>7, Zenon
<1> HIDE DEF p
<1>6. QED
  BY <1>3, <1>4, <1>5, Zenon

LEMMA ChatCommandRead ==
  ASSUME NEW x, x.command \in Field, NEW v \in Int
  PROVE  \E p \in Str :
           /\ encode_chat_command(x, v) = RawPacket(ChatCommandId(v), p)
           /\ \A b, m \in Str : b \o m = p =>
                At(decode_chat_command(RawPacket(ChatCommandId(v), b), v),
                   [command |-> x.command], <<>>, m)
<1> DEFINE p == Text(x.command)
           s0 == Text(x.command) \o <<>>
<1>0. ChatCommandId(v) \in is_command_packet(v)
  BY IdsKnown, Zenon
<1>1. Text(x.command) \in Str
  BY TextShape, Zenon
<1>3. p = s0 /\ p \in Str
  BY <1>1, Empty, Zenon
<1>4. encode_chat_command(x, v) = RawPacket(ChatCommandId(v), p)
  BY Zenon DEF encode_chat_command
<1>5. ASSUME NEW b \in Str, NEW m \in Str, b \o m = p
      PROVE  At(decode_chat_command(RawPacket(ChatCommandId(v), b), v),
             [command |-> x.command], <<>>, m)
  <2> DEFINE r0 == Decoder(RawPacket(ChatCommandId(v), b), is_command_packet(v))
             r1 == GetText(r0)
             y  == [command |-> r1.val]
  <2>1. At(r0, <<>>, b \o m, m)
    BY <1>0, DecoderAt, Zenon
  <2>2. At(r0, <<>>, s0, m)
    BY <1>3, <1>5, <2>1, Zenon
  <2> HIDE DEF r0
  <2>3. At(r1, x.command, <<>>, m)
    BY <2>2, TextAt, Empty, Zenon
  <2>4. decode_chat_command(RawPacket(ChatCommandId(v), b), v) = With(r1, y)
    BY Zenon DEF decode_chat_command, r0
  <2> HIDE DEF r1
  <2>5. r1 # Failed => r1.val = x.command
    BY <2>3, AtVal, Zenon
  <2>6. r1 # Failed => y = [command |-> x.command]
    BY <2>5, Zenon
  <2> HIDE DEF y
  <2>7. At(With(r1, y), [command |-> x.command], <<>>, m)
    BY <2>3, <2>6, AtEnd, Zenon
  <2>8. QED
    BY <2>4, <2>7, Zenon
<1> HIDE DEF p
<1>6. QED
  BY <1>3, <1>4, <1>5, Zenon

LEMMA TabCompleteRequestRead ==
  ASSUME NEW x, x.transaction_id \in Int32, x.text \in Field, NEW v \in Int
  PROVE  \E p \in Str :
           /\ encode_tab_complete_request(x, v) = RawPacket(TabCompleteRequestId(v), p)
           /\ \A b, m \in Str : b \o m = p =>
                At(decode_tab_complete_request(RawPacket(TabCompleteRequestId(v), b), v),
                   [transaction_id |-> x.transaction_id, text |-> x.text], <<>>, m)
<1> DEFINE p == encode_varint(x.transaction_id) \o Text(x.text)
           s1 == Text(x.text) \o <<>>
           s0 == encode_varint(x.transaction_id) \o s1
<1>0. TabCompleteRequestId(v) \in is_tab_complete_request(v)
  BY IdsKnown, Zenon
<1>1. encode_varint(x.transaction_id) \in Str /\ Text(x.text) \in Str
  BY VarIntShape, TextShape, Zenon
<1>2. Flat2(encode_varint(x.transaction_id), Text(x.text))
  BY <1>1, FlatIs2, Zenon
<1>3. p = s0 /\ p \in Str
  BY <1>2, Zenon DEF Flat2
<1>s1. s1 \in Str
  BY <1>2, Zenon DEF Flat2
<1>4. encode_tab_complete_request(x, v) = RawPacket(TabCompleteRequestId(v), p)
  BY Zenon DEF encode_tab_complete_request
<1>5. ASSUME NEW b \in Str, NEW m \in Str, b \o m = p
      PROVE  At(decode_tab_complete_request(RawPacket(TabCompleteRequestId(v), b), v),
             [transaction_id |-> x.transaction_id, text |-> x.text], <<>>, m)
  <2> DEFINE r0 == Decoder(RawPacket(TabCompleteRequestId(v), b), is_tab_complete_request(v))
             r1 == GetVarInt(r0)
             r2 == GetText(r1)
             y  == [transaction_id |-> r1.val, text |-> r2.val]
  <2>1. At(r0, <<>>, b \o m, m)
    BY <1>0, DecoderAt, Zenon
  <2>2. At(r0, <<>>, s0, m)
    BY <1>3, <1>5, <2>1, Zenon
  <2> HIDE DEF r0
  <2>3. At(r1, x.transaction_id, s1, m)
    BY <1>s1, <2>2, VarIntAt, Zenon
  <2>4. At(r2, x.text, <<>>, m)
    BY <2>3, TextAt, Empty, Zenon
  <2>f. (r1 = Failed => r2 = Failed)
    BY Strict, Zenon
  <2>5. decode_tab_complete_request(RawPacket(TabCompleteRequestId(v), b), v) = With(r2, y)
    BY Zenon DEF decode_tab_complete_request, r0
  <2> HIDE DEF r1, r2
  <2>6. r2 # Failed => r1.val = x.transaction_id /\ r2.val = x.text
    BY <2>3, <2>4, <2>f, AtVal, Zenon
  <2>7. r2 # Failed => y = [transaction_id |-> x.transaction_id, text |-> x.text]
    BY <2>6, Zenon
  <2> HIDE DEF y
  <2>8. At(With(r2, y), [transaction_id |-> x.transaction_id, text |-> x.text], <<>>, m)
    BY <2>4, <2>7, AtEnd, Zenon
  <2>9. QED
    BY <2>5, <2>8, Zenon
<1> HIDE DEF p
<1>6. QED
  BY <1>3, <1>4, <1>5, Zenon

LEMMA CloseContainerRead ==
  ASSUME NEW x, x.window_id \in Bytes, NEW v \in Int
  PROVE  \E p \in Str :
           /\ encode_close_container(x, v) = RawPacket(Only(CloseContainerId(v)), p)
           /\ \A b, m \in Str : b \o m = p =>
                At(decode_close_container(RawPacket(Only(CloseContainerId(v)), b), v),
                   [window_id |-> x.window_id], <<>>, m)
<1> DEFINE p == <<x.window_id>>
           s0 == <<x.window_id>> \o <<>>
<1>0. Only(CloseContainerId(v)) \in CloseContainerId(v)
  BY IdsKnown, Zenon
<1>1. <<x.window_id>> \in Str
  BY OneByte, Zenon
<1>3. p = s0 /\ p \in Str
  BY <1>1, Empty, Zenon
<1>4. encode_close_container(x, v) = RawPacket(Only(CloseContainerId(v)), p)
  BY Zenon DEF encode_close_container
<1>5. ASSUME NEW b \in Str, NEW m \in Str, b \o m = p
      PROVE  At(decode_close_container(RawPacket(Only(CloseContainerId(v)), b), v),
             [window_id |-> x.window_id], <<>>, m)
  <2> DEFINE r0 == Decoder(RawPacket(Only(CloseContainerId(v)), b), CloseContainerId(v))
             r1 == GetU8(r0)
             y  == [window_id |-> r1.val]
  <2>1. At(r0, <<>>, b \o m, m)
    BY <1>0, DecoderAt, Zenon
  <2>2. At(r0, <<>>, s0, m)
    BY <1>3, <1>5, <2>1, Zenon
  <2> HIDE DEF r0
  <2>3. At(r1, x.window_id, <<>>, m)
    BY <2>2, U8At, Empty, Zenon
  <2>4. decode_close_container(RawPacket(Only(CloseContainerId(v)), b), v) = With(r1, y)
    BY Zenon DEF decode_close_container, r0
  <2> HIDE DEF r1
  <2>5. r1 # Failed => r1.val = x.window_id
    BY <2>3, AtVal, Zenon
  <2>6. r1 # Failed => y = [window_id |-> x.window_id]
    BY <2>5, Zenon
  <2> HIDE DEF y
  <2>7. At(With(r1, y), [window_id |-> x.window_id], <<>>, m)
    BY <2>3, <2>6, AtEnd, Zenon
  <2>8. QED
    BY <2>4, <2>7, Zenon
<1> HIDE DEF p
<1>6. QED
  BY <1>3, <1>4, <1>5, Zenon

LEMMA BossBarRead ==
  ASSUME NEW x, x.uuid \in Str, Len(x.uuid) = 16, x.action \in Int32, NEW v \in Int
  PROVE  \E p \in Str :
           /\ encode_boss_bar(x, v) = RawPacket(Only(BossBarId(v)), p)
           /\ \A b, m \in Str : b \o m = p =>
                At(decode_boss_bar(RawPacket(Only(BossBarId(v)), b), v),
                   [uuid |-> x.uuid, action |-> x.action], <<>>, m)
<1> DEFINE p == x.uuid \o encode_varint(x.action)
           s1 == encode_varint(x.action) \o <<>>
           s0 == x.uuid \o s1
<1>0. Only(BossBarId(v)) \in BossBarId(v)
  BY IdsKnown, Zenon
<1>1. x.uuid \in Str /\ encode_varint(x.action) \in Str
  BY VarIntShape, Zenon
<1>2. Flat2(x.uuid, encode_varint(x.action))
  BY <1>1, FlatIs2, Zenon
<1>3. p = s0 /\ p \in Str
  BY <1>2, Zenon DEF Flat2
<1>s1. s1 \in Str
  BY <1>2, Zenon DEF Flat2
<1>4. encode_boss_bar(x, v) = RawPacket(Only(BossBarId(v)), p)
  BY Zenon DEF encode_boss_bar
<1>5. ASSUME NEW b \in Str, NEW m \in Str, b \o m = p
      PROVE  At(decode_boss_bar(RawPacket(Only(BossBarId(v)), b), v), [uuid |-> x.uuid,
             action |-> x.action], <<>>, m)
  <2> DEFINE r0 == Decoder(RawPacket(Only(BossBarId(v)), b), BossBarId(v))
             r1 == GetRaw(16, r0)
             r2 == GetVarInt(r1)
             y  == [uuid |-> r1.val, action |-> r2.val]
  <2>1. At(r0, <<>>, b \o m, m)
    BY <1>0, DecoderAt, Zenon
  <2>2. At(r0, <<>>, s0, m)
    BY <1>3, <1>5, <2>1, Zenon
  <2> HIDE DEF r0
  <2>3. At(r1, x.uuid, s1, m)
    BY <1>s1, <2>2, RawNAt, Zenon
  <2>4. At(r2, x.action, <<>>, m)
    BY <2>3, VarIntAt, Empty, Zenon
  <2>f. (r1 = Failed => r2 = Failed)
    BY Strict, Zenon
  <2>5. decode_boss_bar(RawPacket(Only(BossBarId(v)), b), v) = With(r2, y)
    BY Zenon DEF decode_boss_bar, r0
  <2> HIDE DEF r1, r2
  <2>6. r2 # Failed => r1.val = x.uuid /\ r2.val = x.action
    BY <2>3, <2>4, <2>f, AtVal, Zenon
  <2>7. r2 # Failed => y = [uuid |-> x.uuid, action |-> x.action]
    BY <2>6, Zenon
  <2> HIDE DEF y
  <2>8. At(With(r2, y), [uuid |-> x.uuid, action |-> x.action], <<>>, m)
    BY <2>4, <2>7, AtEnd, Zenon
  <2>9. QED
    BY <2>5, <2>8, Zenon
<1> HIDE DEF p
<1>6. QED
  BY <1>3, <1>4, <1>5, Zenon

LEMMA ObjectiveRead ==
  ASSUME NEW x, x.name \in Field, x.action \in Bytes,
         NEW v \in Int
  PROVE  \E p \in Str :
           /\ encode_objective(x, v) = RawPacket(Only(ScoreboardObjectiveId(v)), p)
           /\ \A b, m \in Str : b \o m = p =>
                At(decode_objective(RawPacket(Only(ScoreboardObjectiveId(v)), b), v),
                   [name |-> x.name, action |-> x.action], <<>>, m)
<1> DEFINE p == Text(x.name) \o <<x.action>>
           s1 == <<x.action>> \o <<>>
           s0 == Text(x.name) \o s1
<1>0. Only(ScoreboardObjectiveId(v)) \in ScoreboardObjectiveId(v)
  BY IdsKnown, Zenon
<1>1. Text(x.name) \in Str /\ <<x.action>> \in Str
  BY TextShape, OneByte, Zenon
<1>2. Flat2(Text(x.name), <<x.action>>)
  BY <1>1, FlatIs2, Zenon
<1>3. p = s0 /\ p \in Str
  BY <1>2, Zenon DEF Flat2
<1>s1. s1 \in Str
  BY <1>2, Zenon DEF Flat2
<1>4. encode_objective(x, v) = RawPacket(Only(ScoreboardObjectiveId(v)), p)
  BY Zenon DEF encode_objective
<1>5. ASSUME NEW b \in Str, NEW m \in Str, b \o m = p
      PROVE  At(decode_objective(RawPacket(Only(ScoreboardObjectiveId(v)), b), v),
             [name |-> x.name, action |-> x.action], <<>>, m)
  <2> DEFINE r0 == Decoder(RawPacket(Only(ScoreboardObjectiveId(v)), b),
      ScoreboardObjectiveId(v))
             r1 == GetText(r0)
             r2 == GetU8(r1)
             y  == [name |-> r1.val, action |-> r2.val]
  <2>1. At(r0, <<>>, b \o m, m)
    BY <1>0, DecoderAt, Zenon
  <2>2. At(r0, <<>>, s0, m)
    BY <1>3, <1>5, <2>1, Zenon
  <2> HIDE DEF r0
  <2>3. At(r1, x.name, s1, m)
    BY <1>s1, <2>2, TextAt, Zenon
  <2>4. At(r2, x.action, <<>>, m)
    BY <2>3, U8At, Empty, Zenon
  <2>f. (r1 = Failed => r2 = Failed)
    BY Strict, Zenon
  <2>5. decode_objective(RawPacket(Only(ScoreboardObjectiveId(v)), b), v) = With(r2, y)
    BY Zenon DEF decode_objective, r0
  <2> HIDE DEF r1, r2
  <2>6. r2 # Failed => r1.val = x.name /\ r2.val = x.action
    BY <2>3, <2>4, <2>f, AtVal, Zenon
  <2>7. r2 # Failed => y = [name |-> x.name, action |-> x.action]
    BY <2>6, Zenon
  <2> HIDE DEF y
  <2>8. At(With(r2, y), [name |-> x.name, action |-> x.action], <<>>, m)
    BY <2>4, <2>7, AtEnd, Zenon
  <2>9. QED
    BY <2>5, <2>8, Zenon
<1> HIDE DEF p
<1>6. QED
  BY <1>3, <1>4, <1>5, Zenon

LEMMA DisplayObjectiveRead ==
  ASSUME NEW x, x.position \in Int32, x.name \in Field, NEW v \in Int
  PROVE  \E p \in Str :
           /\ encode_display_objective(x, v) = RawPacket(Only(DisplayObjectiveId(v)), p)
           /\ \A b, m \in Str : b \o m = p =>
                At(decode_display_objective(RawPacket(Only(DisplayObjectiveId(v)), b), v),
                   [position |-> x.position, name |-> x.name], <<>>, m)
<1> DEFINE p == encode_varint(x.position) \o Text(x.name)
           s1 == Text(x.name) \o <<>>
           s0 == encode_varint(x.position) \o s1
<1>0. Only(DisplayObjectiveId(v)) \in DisplayObjectiveId(v)
  BY IdsKnown, Zenon
<1>1. encode_varint(x.position) \in Str /\ Text(x.name) \in Str
  BY VarIntShape, TextShape, Zenon
<1>2. Flat2(encode_varint(x.position), Text(x.name))
  BY <1>1, FlatIs2, Zenon
<1>3. p = s0 /\ p \in Str
  BY <1>2, Zenon DEF Flat2
<1>s1. s1 \in Str
  BY <1>2, Zenon DEF Flat2
<1>4. encode_display_objective(x, v) = RawPacket(Only(DisplayObjectiveId(v)), p)
  BY Zenon DEF encode_display_objective
<1>5. ASSUME NEW b \in Str, NEW m \in Str, b \o m = p
      PROVE  At(decode_display_objective(RawPacket(Only(DisplayObjectiveId(v)), b), v),
             [position |-> x.position, name |-> x.name], <<>>, m)
  <2> DEFINE r0 == Decoder(RawPacket(Only(DisplayObjectiveId(v)), b), DisplayObjectiveId(v))
             r1 == GetVarInt(r0)
             r2 == GetText(r1)
             y  == [position |-> r1.val, name |-> r2.val]
  <2>1. At(r0, <<>>, b \o m, m)
    BY <1>0, DecoderAt, Zenon
  <2>2. At(r0, <<>>, s0, m)
    BY <1>3, <1>5, <2>1, Zenon
  <2> HIDE DEF r0
  <2>3. At(r1, x.position, s1, m)
    BY <1>s1, <2>2, VarIntAt, Zenon
  <2>4. At(r2, x.name, <<>>, m)
    BY <2>3, TextAt, Empty, Zenon
  <2>f. (r1 = Failed => r2 = Failed)
    BY Strict, Zenon
  <2>5. decode_display_objective(RawPacket(Only(DisplayObjectiveId(v)), b), v) = With(r2, y)
    BY Zenon DEF decode_display_objective, r0
  <2> HIDE DEF r1, r2
  <2>6. r2 # Failed => r1.val = x.position /\ r2.val = x.name
    BY <2>3, <2>4, <2>f, AtVal, Zenon
  <2>7. r2 # Failed => y = [position |-> x.position, name |-> x.name]
    BY <2>6, Zenon
  <2> HIDE DEF y
  <2>8. At(With(r2, y), [position |-> x.position, name |-> x.name], <<>>, m)
    BY <2>4, <2>7, AtEnd, Zenon
  <2>9. QED
    BY <2>5, <2>8, Zenon
<1> HIDE DEF p
<1>6. QED
  BY <1>3, <1>4, <1>5, Zenon

LEMMA HandshakeRead ==
  ASSUME NEW x, x.protocol_version \in Int32, x.server_address \in Field, x.server_port \in Nat,
         x.server_port <= MaxU16, x.next_state \in {"Status", "Login"}
  PROVE  \E p \in Str :
           /\ encode_handshake(x) = RawPacket(0, p)
           /\ \A b, m \in Str : b \o m = p =>
                At(decode_handshake(RawPacket(0, b)),
                   [protocol_version |-> x.protocol_version,
                     server_address |-> x.server_address, server_port |-> x.server_port,
                     next_state |-> x.next_state], <<>>, m)
<1> DEFINE n == IF x.next_state = "Status" THEN 1 ELSE 2
           p == encode_varint(x.protocol_version) \o Text(x.server_address)
                \o Short(x.server_port) \o encode_varint(n)
           s3 == encode_varint(n) \o <<>>
           s2 == Short(x.server_port) \o s3
           s1 == Text(x.server_address) \o s2
           s0 == encode_varint(x.protocol_version) \o s1
<1>0. n \in Int32 /\ n \in {1, 2} /\ x.next_state = IF n = 1 THEN "Status" ELSE "Login"
  <2>1. 1 \in Int32 /\ 2 \in Int32
    BY SMT DEF Int32
  <2>2. CASE x.next_state = "Status"
    BY <2>1, <2>2
  <2>3. CASE x.next_state = "Login"
    BY <2>1, <2>3
  <2>4. QED
    BY <2>2, <2>3
<1>1. encode_varint(x.protocol_version) \in Str /\ Text(x.server_address) \in Str
      /\ Short(x.server_port) \in Str /\ encode_varint(n) \in Str
  BY <1>0, VarIntShape, TextShape, U16Shape, Zenon
<1>2. Flat4(encode_varint(x.protocol_version), Text(x.server_address), Short(x.server_port),
      encode_varint(n))
  BY <1>1, FlatIs4, Zenon
<1>3. p = s0 /\ p \in Str
  BY <1>2, Zenon DEF Flat4
<1>s1. s1 \in Str
  BY <1>2, Zenon DEF Flat4
<1>s2. s2 \in Str
  BY <1>2, Zenon DEF Flat4
<1>s3. s3 \in Str
  BY <1>2, Zenon DEF Flat4
<1>4. encode_handshake(x) = RawPacket(0, p)
  BY Zenon DEF encode_handshake
<1> HIDE DEF n
<1>5. ASSUME NEW b \in Str, NEW m \in Str, b \o m = p
      PROVE  At(decode_handshake(RawPacket(0, b)), [protocol_version |-> x.protocol_version,
             server_address |-> x.server_address, server_port |-> x.server_port,
             next_state |-> x.next_state], <<>>, m)
  <2> DEFINE r0 == Decoder(RawPacket(0, b), {0})
             r1 == GetVarInt(r0)
             r2 == GetText(r1)
             r3 == GetU16(r2)
             r4 == GetVarInt(r3)
             y  == [protocol_version |-> r1.val, server_address |-> r2.val,
                   server_port |-> r3.val, 
                     next_state |-> IF r4.val = 1 THEN "Status" ELSE "Login"]
  <2>1. At(r0, <<>>, b \o m, m)
    BY DecoderAt, Zenon
  <2>2. At(r0, <<>>, s0, m)
    BY <1>3, <1>5, <2>1, Zenon
  <2> HIDE DEF r0
  <2>3. At(r1, x.protocol_version, s1, m)
    BY <1>s1, <2>2, VarIntAt, Zenon
  <2>4. At(r2, x.server_address, s2, m)
    BY <1>s2, <2>3, TextAt, Zenon
  <2>5. At(r3, x.server_port, s3, m)
    BY <1>s3, <2>4, U16At, Zenon
  <2>6. At(r4, n, <<>>, m)
    BY <1>0, <2>5, VarIntAt, Empty, Zenon
  <2>f. (r1 = Failed => r2 = Failed) /\ (r2 = Failed => r3 = Failed) /\ (r3 = Failed => r4 =
    Failed)
    BY Strict, Zenon
  <2>7. decode_handshake(RawPacket(0, b)) =
          IF r4.ok /\ r4.val \in {1, 2} THEN Got(y, r4.rest) ELSE Failed
    BY Zenon DEF decode_handshake, r0
  <2> HIDE DEF r1, r2, r3, r4
  <2>8. r4 # Failed => r1.val = x.protocol_version /\ r2.val = x.server_address /\ r3.val =
        x.server_port /\ r4.val = n
    BY <2>3, <2>4, <2>5, <2>6, <2>f, AtVal, Zenon
  <2>9. r4 # Failed => y = [protocol_version |-> x.protocol_version,
        server_address |-> x.server_address, server_port |-> x.server_port,
        next_state |-> x.next_state]
    BY <1>0, <2>8, Zenon
  <2> HIDE DEF y
  <2>10. At(With(r4, y), [protocol_version |-> x.protocol_version,
         server_address |-> x.server_address, server_port |-> x.server_port,
         next_state |-> x.next_state], <<>>, m)
    BY <2>6, <2>9, AtEnd, Zenon
  <2>11. decode_handshake(RawPacket(0, b)) = With(r4, y)
    <3>1. r4.ok => r4.val \in {1, 2}
      BY <1>0, <2>6, <2>8, AtFailed, Zenon
    <3>2. QED
      BY <2>7, <3>1, Zenon DEF With
  <2>12. QED
    BY <2>10, <2>11, Zenon
<1> HIDE DEF p
<1>6. QED
  BY <1>3, <1>4, <1>5, Zenon

(* What was read is e, all of it if nothing is missing and otherwise but for the fields
   that may be left out; or the reader failed, for want of the bytes m. *)
Fits(r, e, kind, m) ==
  \/ r = Failed /\ m # <<>>
  \/ \E y, t : /\ r = Got(y, t) /\ (m = <<>> => y = e)
               /\ \A f \in DOMAIN e : y[f] = e[f] \/ Tolerated(kind, f, y[f], e[f])

LEMMA ReadsFits ==
  ASSUME NEW r, NEW y, NEW m, Reads(r, y, m), NEW e, NEW kind, m = <<>> => y = e,
         \A f \in DOMAIN e : y[f] = e[f] \/ Tolerated(kind, f, y[f], e[f])
  PROVE  Fits(r, e, kind, m)
BY Zenon DEF Reads, Fits

LEMMA AtFits == ASSUME NEW r, NEW e, NEW kind, NEW s, NEW m, At(r, e, s, m) PROVE Fits(r, e, kind, m)
BY AtReads, ReadsFits, Zenon

(* The data of a packet that has no length of its own. *)
LEMMA DataTolerated ==
  ASSUME NEW kind, NEW got, NEW full, IsPrefix(got, full)
  PROVE  Tolerated(kind, "data", got, full) /\ Tolerated(kind, "raw_data", got, full)
<1>1. Tolerated(kind, "data", got, full)
  BY SMT DEF Tolerated
<1>2. Tolerated(kind, "raw_data", got, full)
  BY SMT DEF Tolerated
<1>3. QED
  BY <1>1, <1>2

LEMMA PluginRequestRead ==
  ASSUME NEW x, x.message_id \in Int32, x.channel \in Field, x.data \in Str
  PROVE  \E p \in Str :
           /\ encode_plugin_request(x) = RawPacket(4, p)
           /\ \A b, m \in Str : b \o m = p =>
                Fits(decode_plugin_request(RawPacket(4, b)),
                     [message_id |-> x.message_id, channel |-> x.channel, data |-> x.data],
                       "PluginRequest", m)
<1> DEFINE p == encode_varint(x.message_id) \o Text(x.channel) \o x.data
           s2 == x.data \o <<>>
           s1 == Text(x.channel) \o s2
           s0 == encode_varint(x.message_id) \o s1
<1>1. encode_varint(x.message_id) \in Str /\ Text(x.channel) \in Str /\ x.data \in Str
  BY VarIntShape, TextShape, Zenon
<1>2. Flat3(encode_varint(x.message_id), Text(x.channel), x.data)
  BY <1>1, FlatIs3, Zenon
<1>3. p = s0 /\ p \in Str
  BY <1>2, Zenon DEF Flat3
<1>s1. s1 \in Str
  BY <1>2, Zenon DEF Flat3
<1>s2. s2 \in Str
  BY <1>2, Zenon DEF Flat3
<1>4. encode_plugin_request(x) = RawPacket(4, p)
  BY Zenon DEF encode_plugin_request
<1>5. ASSUME NEW b \in Str, NEW m \in Str, b \o m = p
      PROVE  Fits(decode_plugin_request(RawPacket(4, b)),
                  [message_id |-> x.message_id, channel |-> x.channel, data |-> x.data],
                    "PluginRequest", m)
  <2> DEFINE r0 == Decoder(RawPacket(4, b), {4})
             r1 == GetVarInt(r0)
             r2 == GetText(r1)
             g  == GetRest(r2)
             y  == [message_id |-> r1.val, channel |-> r2.val, data |-> g.val]
  <2>1. At(r0, <<>>, b \o m, m)
    BY DecoderAt, Zenon
  <2>2. At(r0, <<>>, s0, m)
    BY <1>3, <1>5, <2>1, Zenon
  <2> HIDE DEF r0
  <2>3. At(r1, x.message_id, s1, m)
    BY <1>s1, <2>2, VarIntAt, Zenon
  <2>4. At(r2, x.channel, s2, m)
    BY <1>s2, <2>3, TextAt, Zenon
  <2>f. (r1 = Failed => r2 = Failed)
    BY Strict, Zenon
  <2>a. s2 = x.data
    BY <1>1, Empty, Zenon
  <2>b. At(r2, x.channel, x.data, m)
    BY <2>a, <2>4, Zenon
  <2>b2. ReadsFront(g, x.data, m)
    BY <1>1, <2>b, RestAt, Zenon
  <2>c. PICK d \in Str : Reads(g, d, m) /\ IsPrefix(d, x.data) /\ (m = <<>> => d = x.data)
    BY <2>b2, Zenon DEF ReadsFront
  <2>d. r2 = Failed => g = Failed
    BY Strict, Zenon
  <2>e. decode_plugin_request(RawPacket(4, b)) = With(g, y)
    BY Zenon DEF decode_plugin_request, r0
  <2> HIDE DEF r1, r2, g
  <2>g. g # Failed => r1.val = x.message_id /\ r2.val = x.channel /\ g.val = d
    BY <2>3, <2>4, <2>f, <2>c, <2>d, AtVal, ReadsVal, Zenon
  <2> DEFINE z == [message_id |-> x.message_id, channel |-> x.channel, data |-> d]
             full == [message_id |-> x.message_id, channel |-> x.channel, data |-> x.data]
  <2>h. g # Failed => y = z
    BY <2>g, Zenon
  <2>k. m = <<>> => z = full
    BY <2>c, Zenon
  <2>l. \A f \in DOMAIN full : z[f] = full[f] \/ Tolerated("PluginRequest", f, z[f], full[f])
    <3>1. Tolerated("PluginRequest", "data", d, x.data)
      BY <2>c, DataTolerated, Zenon
    <3>2. QED
      BY <3>1, SMT
  <2> HIDE DEF y, z, full
  <2>i. Reads(With(g, y), z, m)
    BY <2>c, <2>h, ReadsEnd, Zenon
  <2>m. Fits(With(g, y), full, "PluginRequest", m)
    BY <2>i, <2>k, <2>l, ReadsFits, Zenon
  <2>j. QED
    BY <2>e, <2>m, Zenon DEF full
<1> HIDE DEF p
<1>6. QED
  BY <1>3, <1>4, <1>5, Zenon

LEMMA RegistryDataRead ==
  ASSUME NEW x, x.registry_id \in Field, x.raw_data \in Str
  PROVE  \E p \in Str :
           /\ encode_registry_data(x) = RawPacket(7, p)
           /\ \A b, m \in Str : b \o m = p =>
                Fits(decode_registry_data(RawPacket(7, b)),
                     [registry_id |-> x.registry_id, raw_data |-> x.raw_data], "RegistryData",
                       m)
<1> DEFINE p == Text(x.registry_id) \o x.raw_data
           s1 == x.raw_data \o <<>>
           s0 == Text(x.registry_id) \o s1
<1>1. Text(x.registry_id) \in Str /\ x.raw_data \in Str
  BY TextShape, Zenon
<1>2. Flat2(Text(x.registry_id), x.raw_data)
  BY <1>1, FlatIs2, Zenon
<1>3. p = s0 /\ p \in Str
  BY <1>2, Zenon DEF Flat2
<1>s1. s1 \in Str
  BY <1>2, Zenon DEF Flat2
<1>4. encode_registry_data(x) = RawPacket(7, p)
  BY Zenon DEF encode_registry_data
<1>5. ASSUME NEW b \in Str, NEW m \in Str, b \o m = p
      PROVE  Fits(decode_registry_data(RawPacket(7, b)),
                  [registry_id |-> x.registry_id, raw_data |-> x.raw_data], "RegistryData", m)
  <2> DEFINE r0 == Decoder(RawPacket(7, b), {7})
             r1 == GetText(r0)
             g  == GetRest(r1)
             y  == [registry_id |-> r1.val, raw_data |-> g.val]
  <2>1. At(r0, <<>>, b \o m, m)
    BY DecoderAt, Zenon
  <2>2. At(r0, <<>>, s0, m)
    BY <1>3, <1>5, <2>1, Zenon
  <2> HIDE DEF r0
  <2>3. At(r1, x.registry_id, s1, m)
    BY <1>s1, <2>2, TextAt, Zenon
  <2>a. s1 = x.raw_data
    BY <1>1, Empty, Zenon
  <2>b. At(r1, x.registry_id, x.raw_data, m)
    BY <2>a, <2>3, Zenon
  <2>b2. ReadsFront(g, x.raw_data, m)
    BY <1>1, <2>b, RestAt, Zenon
  <2>c. PICK d \in Str : Reads(g, d, m) /\ IsPrefix(d, x.raw_data) /\ (m = <<>> => d =
    x.raw_data)
    BY <2>b2, Zenon DEF ReadsFront
  <2>d. r1 = Failed => g = Failed
    BY Strict, Zenon
  <2>e. decode_registry_data(RawPacket(7, b)) = With(g, y)
    BY Zenon DEF decode_registry_data, r0
  <2> HIDE DEF r1, g
  <2>g. g # Failed => r1.val = x.registry_id /\ g.val = d
    BY <2>3, <2>c, <2>d, AtVal, ReadsVal, Zenon
  <2> DEFINE z == [registry_id |-> x.registry_id, raw_data |-> d]
             full == [registry_id |-> x.registry_id, raw_data |-> x.raw_data]
  <2>h. g # Failed => y = z
    BY <2>g, Zenon
  <2>k. m = <<>> => z = full
    BY <2>c, Zenon
  <2>l. \A f \in DOMAIN full : z[f] = full[f] \/ Tolerated("RegistryData", f, z[f], full[f])
    <3>1. Tolerated("RegistryData", "raw_data", d, x.raw_data)
      BY <2>c, DataTolerated, Zenon
    <3>2. QED
      BY <3>1, SMT
  <2> HIDE DEF y, z, full
  <2>i. Reads(With(g, y), z, m)
    BY <2>c, <2>h, ReadsEnd, Zenon
  <2>m. Fits(With(g, y), full, "RegistryData", m)
    BY <2>i, <2>k, <2>l, ReadsFits, Zenon
  <2>j. QED
    BY <2>e, <2>m, Zenon DEF full
<1> HIDE DEF p
<1>6. QED
  BY <1>3, <1>4, <1>5, Zenon

Property == [name : Field, value : Field, signature : Opts(Field)]

LEMMA PropertyFieldsAt ==
  ASSUME NEW r, NEW u, NEW x, x.name \in Field, x.value \in Field, x.signature \in Opts(Field),
         NEW s \in Str, NEW m \in Str,
         At(r, u, Text(x.name) \o (Text(x.value) \o (OptText(x.signature) \o s)), m)
  PROVE  At(GetProperty(r), [name |-> x.name, value |-> x.value, signature |-> x.signature],
         s, m) /\ (r = Failed => GetProperty(r) = Failed)
<1> DEFINE s2 == OptText(x.signature) \o s
           s1 == Text(x.value) \o s2
           r1 == GetText(r)
           r2 == GetText(r1)
           r3 == GetOptText(r2)
           y  == [name |-> r1.val, value |-> r2.val, signature |-> r3.val]
<1>w. Text(x.name) \in Str /\ Text(x.value) \in Str /\ OptText(x.signature) \in Str
  BY TextShape, OptTextShape, Zenon
<1>s2. s2 \in Str
  BY <1>w, Cat, Zenon
<1>s1. s1 \in Str
  BY <1>w, <1>s2, Cat, Zenon
<1>1. At(r1, x.name, s1, m)
  BY <1>w, <1>s1, TextAt, Zenon
<1>2. At(r2, x.value, s2, m)
  BY <1>w, <1>s2, <1>1, TextAt, Zenon
<1>3. At(r3, x.signature, s, m)
  BY <1>w, <1>2, OptTextAt, Zenon
<1>f. (r = Failed => r1 = Failed) /\ (r1 = Failed => r2 = Failed) /\ (r2 = Failed => r3 =
  Failed)
  BY Strict, Zenon
<1>e. GetProperty(r) = With(r3, y)
  BY Zenon DEF GetProperty
<1> HIDE DEF r1, r2, r3
<1>g. r3 # Failed => r1.val = x.name /\ r2.val = x.value /\ r3.val = x.signature
  BY <1>1, <1>2, <1>3, <1>f, AtVal, Zenon
<1>h. r3 # Failed => y = [name |-> x.name, value |-> x.value, signature |-> x.signature]
  BY <1>g, Zenon
<1> HIDE DEF y
<1>i. At(With(r3, y), [name |-> x.name, value |-> x.value, signature |-> x.signature], s, m)
  BY <1>3, <1>h, AtEnd, Zenon
<1>j. r = Failed => With(r3, y) = Failed
  BY <1>f, WithParts, Zenon
<1>k. QED
  BY <1>e, <1>i, <1>j, Zenon

LEMMA PropertyAt ==
  ASSUME NEW r, NEW u, NEW x \in Property, NEW s \in Str, NEW m \in Str,
         At(r, u, WriteProperty(x) \o s, m)
  PROVE  At(GetProperty(r), x, s, m) /\ (r = Failed => GetProperty(r) = Failed)
<1> DEFINE a == Text(x.name)
           b == Text(x.value)
           c == OptText(x.signature)
<1>1. x.name \in Field /\ x.value \in Field /\ x.signature \in Opts(Field)
  BY DEF Property
<1>2. x = [name |-> x.name, value |-> x.value, signature |-> x.signature]
  BY DEF Property
<1>3. a \in Str /\ b \in Str /\ c \in Str
  BY <1>1, TextShape, OptTextShape, Zenon
<1>4. Flat4(a, b, c, s)
  BY <1>3, FlatIs4, Zenon
<1>5. s \o <<>> = s
  BY Empty, Zenon
<1>6. WriteProperty(x) = a \o b \o c
  BY Zenon DEF WriteProperty
<1>7. WriteProperty(x) \o s = a \o (b \o (c \o s))
  BY <1>4, <1>5, <1>6, Zenon DEF Flat4
<1>8. At(r, u, a \o (b \o (c \o s)), m)
  BY <1>7, Zenon
<1>9. /\ At(GetProperty(r), [name |-> x.name, value |-> x.value, signature |-> x.signature], s, m)
      /\ r = Failed => GetProperty(r) = Failed
  BY <1>1, <1>8, PropertyFieldsAt, Zenon
<1>10. QED
  BY <1>2, <1>9, Zenon

LEMMA PropertyStr == ASSUME NEW x \in Property PROVE WriteProperty(x) \in Str
<1> DEFINE a == Text(x.name)
           b == Text(x.value)
           c == OptText(x.signature)
<1>1. x.name \in Field /\ x.value \in Field /\ x.signature \in Opts(Field)
  BY DEF Property
<1>2. a \in Str /\ b \in Str /\ c \in Str
  BY <1>1, TextShape, OptTextShape, Zenon
<1>3. Flat3(a, b, c)
  BY <1>2, FlatIs3, Zenon
<1>4. QED
  BY <1>3, Zenon DEF Flat3, WriteProperty

LEMMA MaxLists == MaxMatches <= MaxInt32 /\ MaxDimensions <= MaxInt32 /\ MaxInt32 \in Nat /\ MaxMatches \in Nat
            /\ MaxDimensions \in Nat
BY SMT DEF MaxInt32, MaxMatches, MaxDimensions

AddProperty(l) ==
  IF l.ok THEN With(GetProperty(l), Append(l.val, GetProperty(l).val)) ELSE Failed

LEMMA PropertyStep ==
  ASSUME NEW a, NEW l, NEW x \in Property, NEW s \in Str, NEW m \in Str,
         At(a, l, WriteProperty(x) \o s, m)
  PROVE  At(AddProperty(a), Append(l, x), s, m)
<1> DEFINE g == GetProperty(a)
<1>1. At(g, x, s, m) /\ (a = Failed => g = Failed)
  BY PropertyAt, Zenon
<1> HIDE DEF g
<1>2. g # Failed => a.val = l /\ g.val = x
  BY <1>1, AtVal, Zenon
<1>3. g # Failed => Append(a.val, g.val) = Append(l, x)
  BY <1>2, Zenon
<1>4. At(With(g, Append(a.val, g.val)), Append(l, x), s, m)
  BY <1>1, <1>3, AtEnd, Zenon
<1>5. a.ok \/ a = Failed
  BY AtParts, Zenon
<1>6. (IF a.ok THEN With(g, Append(a.val, g.val)) ELSE Failed) = With(g, Append(a.val, g.val))
  BY <1>1, <1>5, Added, Zenon
<1>7. QED
  BY <1>4, <1>6, Zenon DEF AddProperty, g

LEMMA PropertiesLoop ==
  ASSUME NEW z, NEW N \in Nat
  PROVE  \E g : g = [i \in 0 .. N |-> IF i = 0 THEN z ELSE AddProperty(g[i - 1])]
<1> DEFINE Is(g, n) == g = [i \in 0 .. n |-> IF i = 0 THEN z ELSE AddProperty(g[i - 1])]
           S        == {n \in 0 .. N : \E g : Is(g, n)}
<1>1. 0 \in S
  <2> DEFINE g == [i \in 0 .. 0 |-> z]
  <2>1. Is(g, 0)
    OBVIOUS
  <2>2. 0 \in 0 .. N
    OBVIOUS
  <2> HIDE DEF g
  <2>3. QED
    BY <2>1, <2>2, Zenon
<1>2. ASSUME NEW n \in 1 .. N, n - 1 \in S PROVE n \in S
  <2>1. PICK g : Is(g, n - 1)
    BY <1>2, Zenon
  <2> DEFINE h == [i \in 0 .. n |-> IF i <= n - 1 THEN g[i] ELSE AddProperty(g[n - 1])]
  <2>2. ASSUME NEW i \in 0 .. n PROVE h[i] = IF i = 0 THEN z ELSE AddProperty(h[i - 1])
    <3>1. CASE i <= n - 1 /\ i # 0
      <4>1. h[i] = g[i] /\ h[i - 1] = g[i - 1]
        BY <3>1
      <4>2. g[i] = AddProperty(g[i - 1])
        BY <2>1, <3>1
      <4>3. QED
        BY <3>1, <4>1, <4>2
    <3>2. CASE i = 0
      <4>1. h[i] = g[i]
        BY <3>2
      <4>2. g[i] = z
        BY <2>1, <3>2
      <4>3. QED
        BY <3>2, <4>1, <4>2
    <3>3. CASE i = n
      <4>1. h[i] = AddProperty(g[n - 1]) /\ h[i - 1] = g[n - 1]
        BY <3>3
      <4>2. QED
        BY <3>3, <4>1
    <3>4. QED
      BY <3>1, <3>2, <3>3
  <2>3. h = [i \in 0 .. n |-> h[i]]
    OBVIOUS
  <2> HIDE DEF h
  <2>4. Is(h, n)
    BY <2>2, <2>3
  <2>5. n \in 0 .. N
    OBVIOUS
  <2>6. QED
    BY <2>4, <2>5, Zenon
<1> HIDE DEF S
<1>3. N \in S
  BY <1>1, <1>2, UpTo
<1>4. QED
  BY <1>3, Zenon DEF S

LEMMA PropertiesAt ==
  ASSUME NEW r, NEW u, NEW xs \in Seq(Property), Len(xs) <= MaxInt32, NEW s \in Str, NEW m \in Str,
         At(r, u, Many(xs, WriteProperty) \o s, m)
  PROVE  At(GetProperties(r), xs, s, m) /\ (r = Failed => GetProperties(r) = Failed)
<1> DEFINE N  == Len(xs)
           ss == [i \in DOMAIN xs |-> WriteProperty(xs[i])]
           F  == FlattenSeq(ss)
           n  == GetVarInt(r)
           Is(g) == g = [i \in 0 .. n.val |-> IF i = 0 THEN With(n, <<>>) ELSE AddProperty(g[i - 1])]
           after == CHOOSE g : Is(g)
<1>1. N \in Nat /\ N \in Int32 /\ DOMAIN xs = 1 .. N
  BY MaxLists, SMT DEF Int32, MaxInt32, MaxMatches, MaxDimensions
<1>2. \A i \in 1 .. N : xs[i] \in Property
  OBVIOUS
<1>3. /\ Len(ss) = N /\ (N = 0 => ss = <<>>)
      /\ \A i \in 1 .. N : ss[i] = WriteProperty(xs[i])
  BY <1>1
<1>4. \A i \in 1 .. N : ss[i] \in Str
  BY <1>2, <1>3, PropertyStr, Zenon
<1>5. Many(xs, WriteProperty) = encode_varint(N) \o F
  BY Zenon DEF Many, GetProperties
<1> HIDE DEF ss
<1>6. F \in Str /\ \E R : Peels(R, ss, s, N)
  BY <1>1, <1>3, <1>4, FlattenPeels, Zenon
<1>7. PICK R : Peels(R, ss, s, N)
  BY <1>6, Zenon
<1>8. /\ R[0] = F \o s /\ R[N] = s
      /\ \A i \in 0 .. N : R[i] \in Str
      /\ \A i \in 1 .. N : R[i - 1] = ss[i] \o R[i]
  BY <1>7, Zenon DEF Peels
<1> HIDE DEF F
<1>9. At(n, N, F \o s, m) /\ (r = Failed => n = Failed)
  <2>1. encode_varint(N) \in Str
    BY <1>1, VarIntShape, Zenon
  <2>2. F \in Str
    BY <1>6, Zenon
  <2>3. AssocIs(encode_varint(N), F, s)
    BY <2>1, <2>2, Assoc, Zenon
  <2>4. At(r, u, encode_varint(N) \o (F \o s), m)
    BY <1>5, <2>3, Zenon DEF AssocIs
  <2>5. F \o s \in Str
    BY <2>2, Cat, Zenon
  <2>6. N \in Int32
    BY <1>1, Zenon
  <2> HIDE DEF N
  <2>7. QED
    BY <2>4, <2>5, <2>6, VarIntAt, Zenon
<1>10. GetProperties(r) = IF n.ok /\ n.val \in 0 .. MaxInt32 THEN after[n.val] ELSE Failed
  BY Zenon DEF GetMany, AddProperty, GetProperties
<1> HIDE DEF n
<1>11. CASE n = Failed
  <2>1. GetProperties(r) = Failed /\ m # <<>>
    BY <1>9, <1>10, <1>11, AtFailed, Zenon
  <2>2. At(Failed, xs, s, m)
    BY <2>1, Zenon DEF At
  <2>3. QED
    BY <2>1, <2>2, Zenon
<1>12. CASE n # Failed
  <2>1. n.ok /\ n.val = N
    BY <1>9, <1>12, AtVal, Zenon
  <2>2. N \in 0 .. MaxInt32
    BY <1>1
  <2>3. GetProperties(r) = after[N]
    BY <1>10, <2>1, <2>2, Zenon
  <2>4. Is(after)
    <3>0. n.val \in Nat
      BY <1>1, <2>1, Zenon
    <3>1. \E g : Is(g)
      BY <3>0, PropertiesLoop, Zenon
    <3>2. QED
      BY <3>1, Zenon
  <2> HIDE DEF after
  <2>5. after[0] = With(n, <<>>) /\ \A i \in 1 .. N : after[i] = AddProperty(after[i - 1])
    <3>1. n.val = N /\ N \in Nat
      BY <1>1, <2>1, Zenon
    <3> HIDE DEF N
    <3>2. QED
      BY <2>4, <3>1
  <2> DEFINE C == {i \in 0 .. N : At(after[i], SubSeq(xs, 1, i), R[i], m)}
  <2>6. 0 \in C
    <3>1. At(With(n, <<>>), <<>>, F \o s, m)
      BY <1>9, AtParts, Zenon
    <3>2. SubSeq(xs, 1, 0) = <<>> /\ 0 \in 0 .. N
      BY <1>1
    <3>3. QED
      BY <1>8, <2>5, <3>1, <3>2, Zenon
  <2>7. ASSUME NEW i \in 1 .. N, i - 1 \in C PROVE i \in C
    <3> DEFINE l == SubSeq(xs, 1, i - 1)
    <3>1. At(after[i - 1], l, R[i - 1], m)
      BY <2>7, Zenon
    <3>0. i \in 0 .. N
      BY <1>1
    <3>2. xs[i] \in Property /\ R[i] \in Str /\ i \in 0 .. N /\ R[i - 1] = ss[i] \o R[i]
      BY <1>2, <1>8, <3>0, Zenon
    <3>3. At(after[i - 1], l, WriteProperty(xs[i]) \o R[i], m)
      BY <1>3, <3>1, <3>2, Zenon
    <3>4. Append(l, xs[i]) = SubSeq(xs, 1, i)
      BY FrontGrows, Zenon
    <3> HIDE DEF l
    <3>5. At(AddProperty(after[i - 1]), Append(l, xs[i]), R[i], m)
      <4>1. xs[i] \in Property
        BY <3>2, Zenon
      <4>2. R[i] \in Str
        BY <3>2, Zenon
      <4>3. QED
        BY <3>3, <4>1, <4>2, PropertyStep, Zenon
    <3>6. QED
      BY <2>5, <3>2, <3>4, <3>5, Zenon
  <2> HIDE DEF C
  <2>8. N \in C
    <3>1. N \in Nat /\ N \in 0 .. N
      BY <1>1
    <3> HIDE DEF N
    <3>2. \A i \in 0 .. N : i \in C
      BY <2>6, <2>7, <3>1, UpTo, Zenon
    <3>3. QED
      BY <3>1, <3>2, Zenon
  <2>9. At(after[N], SubSeq(xs, 1, N), R[N], m)
    BY <2>8, Zenon DEF C
  <2>10. SubSeq(xs, 1, N) = xs
    OBVIOUS
  <2>11. n # Failed /\ (r = Failed => n = Failed)
    BY <1>9, <1>12, Zenon
  <2>12. QED
    BY <1>8, <2>3, <2>9, <2>10, <2>11, Zenon
<1>13. QED
  BY <1>11, <1>12, Zenon

LEMMA PropertiesStr ==
  ASSUME NEW xs \in Seq(Property), Len(xs) <= MaxInt32
  PROVE  Many(xs, WriteProperty) \in Str /\ 1 <= Len(Many(xs, WriteProperty))
<1> DEFINE N  == Len(xs)
           ss == [i \in DOMAIN xs |-> WriteProperty(xs[i])]
           F  == FlattenSeq(ss)
<1>1. N \in Nat /\ N \in Int32 /\ DOMAIN xs = 1 .. N
  BY MaxLists, SMT DEF Int32, MaxInt32, MaxMatches, MaxDimensions
<1>2. \A i \in 1 .. N : xs[i] \in Property
  OBVIOUS
<1>3. /\ Len(ss) = N /\ (N = 0 => ss = <<>>)
      /\ \A i \in 1 .. N : ss[i] = WriteProperty(xs[i])
  BY <1>1
<1>4. \A i \in 1 .. N : ss[i] \in Str
  BY <1>2, <1>3, PropertyStr, Zenon
<1>5. Many(xs, WriteProperty) = encode_varint(N) \o F
  BY Zenon DEF Many
<1> HIDE DEF ss
<1>6. F \in Str
  BY <1>1, <1>3, <1>4, Empty, FlattenPeels, Zenon
<1>7. encode_varint(N) \in Str /\ 1 <= Len(encode_varint(N))
  BY <1>1, VarIntLen, Zenon
<1> HIDE DEF F, N
<1>8. encode_varint(N) \o F \in Str /\ 1 <= Len(encode_varint(N) \o F)
  BY <1>6, <1>7, CatLonger, Zenon
<1>9. QED
  BY <1>5, <1>8, Zenon

AddText(l) == IF l.ok THEN With(GetText(l), Append(l.val, GetText(l).val)) ELSE Failed

LEMMA TextStep ==
  ASSUME NEW a, NEW l, NEW x \in Field, NEW s \in Str, NEW m \in Str,
         At(a, l, Text(x) \o s, m)
  PROVE  At(AddText(a), Append(l, x), s, m)
<1> DEFINE g == GetText(a)
<1>1. At(g, x, s, m) /\ (a = Failed => g = Failed)
  BY TextAt, Zenon
<1> HIDE DEF g
<1>2. g # Failed => a.val = l /\ g.val = x
  BY <1>1, AtVal, Zenon
<1>3. g # Failed => Append(a.val, g.val) = Append(l, x)
  BY <1>2, Zenon
<1>4. At(With(g, Append(a.val, g.val)), Append(l, x), s, m)
  BY <1>1, <1>3, AtEnd, Zenon
<1>5. a.ok \/ a = Failed
  BY AtParts, Zenon
<1>6. (IF a.ok THEN With(g, Append(a.val, g.val)) ELSE Failed) = With(g, Append(a.val, g.val))
  BY <1>1, <1>5, Added, Zenon
<1>7. QED
  BY <1>4, <1>6, Zenon DEF AddText, g

LEMMA TextsLoop ==
  ASSUME NEW z, NEW N \in Nat
  PROVE  \E g : g = [i \in 0 .. N |-> IF i = 0 THEN z ELSE AddText(g[i - 1])]
<1> DEFINE Is(g, n) == g = [i \in 0 .. n |-> IF i = 0 THEN z ELSE AddText(g[i - 1])]
           S        == {n \in 0 .. N : \E g : Is(g, n)}
<1>1. 0 \in S
  <2> DEFINE g == [i \in 0 .. 0 |-> z]
  <2>1. Is(g, 0)
    OBVIOUS
  <2>2. 0 \in 0 .. N
    OBVIOUS
  <2> HIDE DEF g
  <2>3. QED
    BY <2>1, <2>2, Zenon
<1>2. ASSUME NEW n \in 1 .. N, n - 1 \in S PROVE n \in S
  <2>1. PICK g : Is(g, n - 1)
    BY <1>2, Zenon
  <2> DEFINE h == [i \in 0 .. n |-> IF i <= n - 1 THEN g[i] ELSE AddText(g[n - 1])]
  <2>2. ASSUME NEW i \in 0 .. n PROVE h[i] = IF i = 0 THEN z ELSE AddText(h[i - 1])
    <3>1. CASE i <= n - 1 /\ i # 0
      <4>1. h[i] = g[i] /\ h[i - 1] = g[i - 1]
        BY <3>1
      <4>2. g[i] = AddText(g[i - 1])
        BY <2>1, <3>1
      <4>3. QED
        BY <3>1, <4>1, <4>2
    <3>2. CASE i = 0
      <4>1. h[i] = g[i]
        BY <3>2
      <4>2. g[i] = z
        BY <2>1, <3>2
      <4>3. QED
        BY <3>2, <4>1, <4>2
    <3>3. CASE i = n
      <4>1. h[i] = AddText(g[n - 1]) /\ h[i - 1] = g[n - 1]
        BY <3>3
      <4>2. QED
        BY <3>3, <4>1
    <3>4. QED
      BY <3>1, <3>2, <3>3
  <2>3. h = [i \in 0 .. n |-> h[i]]
    OBVIOUS
  <2> HIDE DEF h
  <2>4. Is(h, n)
    BY <2>2, <2>3
  <2>5. n \in 0 .. N
    OBVIOUS
  <2>6. QED
    BY <2>4, <2>5, Zenon
<1> HIDE DEF S
<1>3. N \in S
  BY <1>1, <1>2, UpTo
<1>4. QED
  BY <1>3, Zenon DEF S

LEMMA TextsAt ==
  ASSUME NEW r, NEW u, NEW xs \in Seq(Field), Len(xs) <= MaxDimensions, NEW s \in Str, NEW m \in Str,
         At(r, u, Many(xs, Text) \o s, m)
  PROVE  At(GetMany(r, MaxDimensions, GetText), xs, s, m) /\ (r = Failed => GetMany(r, MaxDimensions, GetText) = Failed)
<1> DEFINE N  == Len(xs)
           ss == [i \in DOMAIN xs |-> Text(xs[i])]
           F  == FlattenSeq(ss)
           n  == GetVarInt(r)
           Is(g) == g = [i \in 0 .. n.val |-> IF i = 0 THEN With(n, <<>>) ELSE AddText(g[i - 1])]
           after == CHOOSE g : Is(g)
<1>1. N \in Nat /\ N \in Int32 /\ DOMAIN xs = 1 .. N
  BY MaxLists, SMT DEF Int32, MaxInt32, MaxMatches, MaxDimensions
<1>2. \A i \in 1 .. N : xs[i] \in Field
  OBVIOUS
<1>3. /\ Len(ss) = N /\ (N = 0 => ss = <<>>)
      /\ \A i \in 1 .. N : ss[i] = Text(xs[i])
  BY <1>1
<1>4. \A i \in 1 .. N : ss[i] \in Str
  BY <1>2, <1>3, TextShape, Zenon
<1>5. Many(xs, Text) = encode_varint(N) \o F
  BY Zenon DEF Many
<1> HIDE DEF ss
<1>6. F \in Str /\ \E R : Peels(R, ss, s, N)
  BY <1>1, <1>3, <1>4, FlattenPeels, Zenon
<1>7. PICK R : Peels(R, ss, s, N)
  BY <1>6, Zenon
<1>8. /\ R[0] = F \o s /\ R[N] = s
      /\ \A i \in 0 .. N : R[i] \in Str
      /\ \A i \in 1 .. N : R[i - 1] = ss[i] \o R[i]
  BY <1>7, Zenon DEF Peels
<1> HIDE DEF F
<1>9. At(n, N, F \o s, m) /\ (r = Failed => n = Failed)
  <2>1. encode_varint(N) \in Str
    BY <1>1, VarIntShape, Zenon
  <2>2. F \in Str
    BY <1>6, Zenon
  <2>3. AssocIs(encode_varint(N), F, s)
    BY <2>1, <2>2, Assoc, Zenon
  <2>4. At(r, u, encode_varint(N) \o (F \o s), m)
    BY <1>5, <2>3, Zenon DEF AssocIs
  <2>5. F \o s \in Str
    BY <2>2, Cat, Zenon
  <2>6. N \in Int32
    BY <1>1, Zenon
  <2> HIDE DEF N
  <2>7. QED
    BY <2>4, <2>5, <2>6, VarIntAt, Zenon
<1>10. GetMany(r, MaxDimensions, GetText) = IF n.ok /\ n.val \in 0 .. MaxDimensions THEN after[n.val] ELSE Failed
  BY Zenon DEF GetMany, AddText
<1> HIDE DEF n
<1>11. CASE n = Failed
  <2>1. GetMany(r, MaxDimensions, GetText) = Failed /\ m # <<>>
    BY <1>9, <1>10, <1>11, AtFailed, Zenon
  <2>2. At(Failed, xs, s, m)
    BY <2>1, Zenon DEF At
  <2>3. QED
    BY <2>1, <2>2, Zenon
<1>12. CASE n # Failed
  <2>1. n.ok /\ n.val = N
    BY <1>9, <1>12, AtVal, Zenon
  <2>2. N \in 0 .. MaxDimensions
    BY <1>1
  <2>3. GetMany(r, MaxDimensions, GetText) = after[N]
    BY <1>10, <2>1, <2>2, Zenon
  <2>4. Is(after)
    <3>0. n.val \in Nat
      BY <1>1, <2>1, Zenon
    <3>1. \E g : Is(g)
      BY <3>0, TextsLoop, Zenon
    <3>2. QED
      BY <3>1, Zenon
  <2> HIDE DEF after
  <2>5. after[0] = With(n, <<>>) /\ \A i \in 1 .. N : after[i] = AddText(after[i - 1])
    <3>1. n.val = N /\ N \in Nat
      BY <1>1, <2>1, Zenon
    <3> HIDE DEF N
    <3>2. QED
      BY <2>4, <3>1
  <2> DEFINE C == {i \in 0 .. N : At(after[i], SubSeq(xs, 1, i), R[i], m)}
  <2>6. 0 \in C
    <3>1. At(With(n, <<>>), <<>>, F \o s, m)
      BY <1>9, AtParts, Zenon
    <3>2. SubSeq(xs, 1, 0) = <<>> /\ 0 \in 0 .. N
      BY <1>1
    <3>3. QED
      BY <1>8, <2>5, <3>1, <3>2, Zenon
  <2>7. ASSUME NEW i \in 1 .. N, i - 1 \in C PROVE i \in C
    <3> DEFINE l == SubSeq(xs, 1, i - 1)
    <3>1. At(after[i - 1], l, R[i - 1], m)
      BY <2>7, Zenon
    <3>0. i \in 0 .. N
      BY <1>1
    <3>2. xs[i] \in Field /\ R[i] \in Str /\ i \in 0 .. N /\ R[i - 1] = ss[i] \o R[i]
      BY <1>2, <1>8, <3>0, Zenon
    <3>3. At(after[i - 1], l, Text(xs[i]) \o R[i], m)
      BY <1>3, <3>1, <3>2, Zenon
    <3>4. Append(l, xs[i]) = SubSeq(xs, 1, i)
      BY FrontGrows, Zenon
    <3> HIDE DEF l
    <3>5. At(AddText(after[i - 1]), Append(l, xs[i]), R[i], m)
      <4>1. xs[i] \in Field
        BY <3>2, Zenon
      <4>2. R[i] \in Str
        BY <3>2, Zenon
      <4>3. QED
        BY <3>3, <4>1, <4>2, TextStep, Zenon
    <3>6. QED
      BY <2>5, <3>2, <3>4, <3>5, Zenon
  <2> HIDE DEF C
  <2>8. N \in C
    <3>1. N \in Nat /\ N \in 0 .. N
      BY <1>1
    <3> HIDE DEF N
    <3>2. \A i \in 0 .. N : i \in C
      BY <2>6, <2>7, <3>1, UpTo, Zenon
    <3>3. QED
      BY <3>1, <3>2, Zenon
  <2>9. At(after[N], SubSeq(xs, 1, N), R[N], m)
    BY <2>8, Zenon DEF C
  <2>10. SubSeq(xs, 1, N) = xs
    OBVIOUS
  <2>11. n # Failed /\ (r = Failed => n = Failed)
    BY <1>9, <1>12, Zenon
  <2>12. QED
    BY <1>8, <2>3, <2>9, <2>10, <2>11, Zenon
<1>13. QED
  BY <1>11, <1>12, Zenon

LEMMA TextsStr ==
  ASSUME NEW xs \in Seq(Field), Len(xs) <= MaxDimensions
  PROVE  Many(xs, Text) \in Str /\ 1 <= Len(Many(xs, Text))
<1> DEFINE N  == Len(xs)
           ss == [i \in DOMAIN xs |-> Text(xs[i])]
           F  == FlattenSeq(ss)
<1>1. N \in Nat /\ N \in Int32 /\ DOMAIN xs = 1 .. N
  BY MaxLists, SMT DEF Int32, MaxInt32, MaxMatches, MaxDimensions
<1>2. \A i \in 1 .. N : xs[i] \in Field
  OBVIOUS
<1>3. /\ Len(ss) = N /\ (N = 0 => ss = <<>>)
      /\ \A i \in 1 .. N : ss[i] = Text(xs[i])
  BY <1>1
<1>4. \A i \in 1 .. N : ss[i] \in Str
  BY <1>2, <1>3, TextShape, Zenon
<1>5. Many(xs, Text) = encode_varint(N) \o F
  BY Zenon DEF Many
<1> HIDE DEF ss
<1>6. F \in Str
  BY <1>1, <1>3, <1>4, Empty, FlattenPeels, Zenon
<1>7. encode_varint(N) \in Str /\ 1 <= Len(encode_varint(N))
  BY <1>1, VarIntLen, Zenon
<1> HIDE DEF F, N
<1>8. encode_varint(N) \o F \in Str /\ 1 <= Len(encode_varint(N) \o F)
  BY <1>6, <1>7, CatLonger, Zenon
<1>9. QED
  BY <1>5, <1>8, Zenon

(* A match may lack the tooltip's flag: nothing is left then, and it was the last. *)
Dry(r, x, s, m) == At(r, x, s, m) \/ (m # <<>> /\ r = Got(x, <<>>))

AddMatch(l) == IF l.ok THEN With(GetMatch(l), Append(l.val, GetMatch(l).val)) ELSE Failed

LEMMA MatchStr == ASSUME NEW x \in Field PROVE WriteMatch(x) \in Str
<1>1. Text(x) \in Str /\ <<0>> \in Str
  BY ByteZero, TextShape, OneByte, Zenon
<1>2. QED
  BY <1>1, Cat, Zenon DEF WriteMatch

LEMMA DryFails == ASSUME NEW x PROVE GetText(Got(x, <<>>)) = Failed
<1>1. {n \in 1 .. 5 : n <= Len(<<>>) /\ <<>>[n] < 128} = {}
  OBVIOUS
<1>2. decode_varint(<<>>) = Failed
  BY <1>1, Zenon DEF decode_varint
<1>3. GetVarInt(Got(x, <<>>)) = Failed
  BY <1>2, GotParts, Zenon DEF GetVarInt
<1>4. QED
  BY <1>3, Strict, Zenon DEF GetText

LEMMA MatchStep ==
  ASSUME NEW a, NEW l, NEW x \in Field, NEW s \in Str, NEW m \in Str,
         Dry(a, l, WriteMatch(x) \o s, m)
  PROVE  Dry(AddMatch(a), Append(l, x), s, m)
<1> DEFINE t == GetText(a)
           next == GetU8(t)
           g == IfLeft(1, t, next, 0)
           k == With(g, t.val)
           y == Append(a.val, k.val)
<1>1. GetMatch(a) = k
  BY Zenon DEF GetMatch
<1>2. AddMatch(a) = With(k, y)
  <2>1. a.ok \/ a = Failed
    <3>1. CASE At(a, l, WriteMatch(x) \o s, m)
      BY <3>1, AtParts, Zenon
    <3>2. CASE a = Got(l, <<>>)
      BY <3>2, GotParts, Zenon
    <3>3. QED
      BY <3>1, <3>2, Zenon DEF Dry
  <2>2. a = Failed => k = Failed
    <3>1. a = Failed => t = Failed
      BY Strict, Zenon
    <3> HIDE DEF t
    <3>2. t = Failed => g = Failed
      BY FailedParts, WithParts, Zenon DEF IfLeft
    <3> HIDE DEF g
    <3>3. QED
      BY <3>1, <3>2, WithParts, Zenon
  <2> HIDE DEF k, y
  <2>3. (IF a.ok THEN With(k, y) ELSE Failed) = With(k, y)
    BY <2>1, <2>2, Added, Zenon
  <2>4. AddMatch(a) = IF a.ok THEN With(k, y) ELSE Failed
    BY <1>1, Zenon DEF AddMatch, y
  <2>5. QED
    BY <2>3, <2>4, Zenon
<1>3. CASE At(a, l, WriteMatch(x) \o s, m)
  <2>1. Text(x) \in Str /\ <<0>> \in Str /\ 0 \in Bytes /\ Len(<<0>>) = 1
    BY ByteZero, TextShape, OneByte, Zenon
  <2>2. AssocIs(Text(x), <<0>>, s)
    BY <2>1, Assoc, Zenon
  <2>3. At(a, l, Text(x) \o (<<0>> \o s), m)
    BY <1>3, <2>2, Zenon DEF AssocIs, WriteMatch
  <2>4. <<0>> \o s \in Str
    BY <2>1, Cat, Zenon
  <2>5. At(t, x, <<0>> \o s, m) /\ (a = Failed => t = Failed)
    BY <2>3, <2>4, TextAt, Zenon
  <2>6. At(next, 0, s, m) /\ (t = Failed => next = Failed)
    BY <2>1, <2>5, U8At, Zenon
  <2> DEFINE p == <<0>>
  <2>7. p \in Str /\ 1 <= Len(p) /\ 1 \in Nat /\ At(t, x, p \o s, m)
    BY <2>1, <2>5
  <2> HIDE DEF p, t, next
  <2>8. \/ At(g, 0, s, m) /\ (t = Failed => g = Failed)
        \/ m # <<>> /\ g = Got(0, t.rest) /\ t # Failed /\ Len(t.rest) < 1
    <3>1. LeftAt(1, t, next, 0, 0, s, m)
      BY <2>6, <2>7, IfLeftAt, Zenon
    <3>2. QED
      BY <3>1, Zenon DEF LeftAt
  <2> HIDE DEF g
  <2>9. t # Failed => t.val = x /\ t.rest \in Str /\ a # Failed
    BY <2>5, AtParts, Zenon
  <2>10. a # Failed => a.val = l
    BY <1>3, AtVal, Zenon
  <2>11. CASE At(g, 0, s, m) /\ (t = Failed => g = Failed)
    <3>1. g # Failed => t.val = x
      BY <2>9, <2>11, Zenon
    <3>2. At(k, x, s, m)
      BY <2>11, <3>1, AtEnd, Zenon
    <3>3. k # Failed => g # Failed
      BY WithParts, Zenon
    <3>4. k # Failed => k.val = x /\ a.val = l
      BY <2>9, <2>10, <2>11, <3>2, <3>3, AtVal, Zenon
    <3> HIDE DEF k
    <3>5. k # Failed => y = Append(l, x)
      BY <3>4, Zenon
    <3> HIDE DEF y
    <3>6. At(With(k, y), Append(l, x), s, m)
      BY <3>2, <3>5, AtEnd, Zenon
    <3>7. QED
      BY <1>2, <3>6, Zenon DEF Dry
  <2>12. CASE m # <<>> /\ g = Got(0, t.rest) /\ t # Failed /\ Len(t.rest) < 1
    <3>1. t.rest = <<>>
      <4>1. t.rest \in Str /\ Len(t.rest) < 1
        BY <2>9, <2>12, Zenon
      <4>2. Len(t.rest) \in Nat
        BY <4>1, Cat
      <4>3. QED
        BY <4>1, <4>2, EmptySeq DEF Str
    <3>2. k = Got(x, <<>>)
      BY <2>9, <2>12, <3>1, WithParts, Zenon
    <3>3. y = Append(l, x)
      BY <2>9, <2>10, <2>12, <3>2, GotParts, Zenon
    <3> HIDE DEF k, y
    <3>4. With(k, y) = Got(Append(l, x), <<>>)
      BY <3>2, <3>3, WithParts, Zenon
    <3>5. QED
      BY <1>2, <2>12, <3>4, Zenon DEF Dry
  <2>13. QED
    BY <2>8, <2>11, <2>12, Zenon
<1>4. CASE m # <<>> /\ a = Got(l, <<>>)
  <2>1. t = Failed
    BY <1>4, DryFails, Zenon
  <2> HIDE DEF t
  <2>2. g = Failed
    BY <2>1, FailedParts, WithParts, Zenon DEF IfLeft
  <2> HIDE DEF g
  <2>3. k = Failed
    BY <2>2, WithParts, Zenon
  <2> HIDE DEF k
  <2>4. With(k, y) = Failed
    BY <2>3, WithParts, Zenon
  <2>5. QED
    BY <1>2, <1>4, <2>4, Zenon DEF Dry, At
<1>5. QED
  BY <1>3, <1>4, Zenon DEF Dry

LEMMA MatchesLoop ==
  ASSUME NEW z, NEW N \in Nat
  PROVE  \E g : g = [i \in 0 .. N |-> IF i = 0 THEN z ELSE AddMatch(g[i - 1])]
<1> DEFINE Is(g, n) == g = [i \in 0 .. n |-> IF i = 0 THEN z ELSE AddMatch(g[i - 1])]
           S        == {n \in 0 .. N : \E g : Is(g, n)}
<1>1. 0 \in S
  <2> DEFINE g == [i \in 0 .. 0 |-> z]
  <2>1. Is(g, 0)
    OBVIOUS
  <2>2. 0 \in 0 .. N
    OBVIOUS
  <2> HIDE DEF g
  <2>3. QED
    BY <2>1, <2>2, Zenon
<1>2. ASSUME NEW n \in 1 .. N, n - 1 \in S PROVE n \in S
  <2>1. PICK g : Is(g, n - 1)
    BY <1>2, Zenon
  <2> DEFINE h == [i \in 0 .. n |-> IF i <= n - 1 THEN g[i] ELSE AddMatch(g[n - 1])]
  <2>2. ASSUME NEW i \in 0 .. n PROVE h[i] = IF i = 0 THEN z ELSE AddMatch(h[i - 1])
    <3>1. CASE i <= n - 1 /\ i # 0
      <4>1. h[i] = g[i] /\ h[i - 1] = g[i - 1]
        BY <3>1
      <4>2. g[i] = AddMatch(g[i - 1])
        BY <2>1, <3>1
      <4>3. QED
        BY <3>1, <4>1, <4>2
    <3>2. CASE i = 0
      <4>1. h[i] = g[i]
        BY <3>2
      <4>2. g[i] = z
        BY <2>1, <3>2
      <4>3. QED
        BY <3>2, <4>1, <4>2
    <3>3. CASE i = n
      <4>1. h[i] = AddMatch(g[n - 1]) /\ h[i - 1] = g[n - 1]
        BY <3>3
      <4>2. QED
        BY <3>3, <4>1
    <3>4. QED
      BY <3>1, <3>2, <3>3
  <2>3. h = [i \in 0 .. n |-> h[i]]
    OBVIOUS
  <2> HIDE DEF h
  <2>4. Is(h, n)
    BY <2>2, <2>3
  <2>5. n \in 0 .. N
    OBVIOUS
  <2>6. QED
    BY <2>4, <2>5, Zenon
<1> HIDE DEF S
<1>3. N \in S
  BY <1>1, <1>2, UpTo
<1>4. QED
  BY <1>3, Zenon DEF S

LEMMA MatchesAt ==
  ASSUME NEW r, NEW u, NEW xs \in Seq(Field), Len(xs) <= MaxMatches, NEW s \in Str, NEW m \in Str,
         At(r, u, Many(xs, WriteMatch) \o s, m)
  PROVE  Dry(GetMany(r, MaxMatches, GetMatch), xs, s, m) /\ (r = Failed => GetMany(r, MaxMatches, GetMatch) = Failed)
<1> DEFINE N  == Len(xs)
           ss == [i \in DOMAIN xs |-> WriteMatch(xs[i])]
           F  == FlattenSeq(ss)
           n  == GetVarInt(r)
           Is(g) == g = [i \in 0 .. n.val |-> IF i = 0 THEN With(n, <<>>) ELSE AddMatch(g[i - 1])]
           after == CHOOSE g : Is(g)
<1>1. N \in Nat /\ N \in Int32 /\ DOMAIN xs = 1 .. N
  BY MaxLists, SMT DEF Int32, MaxInt32, MaxMatches, MaxDimensions
<1>2. \A i \in 1 .. N : xs[i] \in Field
  OBVIOUS
<1>3. /\ Len(ss) = N /\ (N = 0 => ss = <<>>)
      /\ \A i \in 1 .. N : ss[i] = WriteMatch(xs[i])
  BY <1>1
<1>4. \A i \in 1 .. N : ss[i] \in Str
  BY <1>2, <1>3, MatchStr, Zenon
<1>5. Many(xs, WriteMatch) = encode_varint(N) \o F
  BY Zenon DEF Many
<1> HIDE DEF ss
<1>6. F \in Str /\ \E R : Peels(R, ss, s, N)
  BY <1>1, <1>3, <1>4, FlattenPeels, Zenon
<1>7. PICK R : Peels(R, ss, s, N)
  BY <1>6, Zenon
<1>8. /\ R[0] = F \o s /\ R[N] = s
      /\ \A i \in 0 .. N : R[i] \in Str
      /\ \A i \in 1 .. N : R[i - 1] = ss[i] \o R[i]
  BY <1>7, Zenon DEF Peels
<1> HIDE DEF F
<1>9. At(n, N, F \o s, m) /\ (r = Failed => n = Failed)
  <2>1. encode_varint(N) \in Str
    BY <1>1, VarIntShape, Zenon
  <2>2. F \in Str
    BY <1>6, Zenon
  <2>3. AssocIs(encode_varint(N), F, s)
    BY <2>1, <2>2, Assoc, Zenon
  <2>4. At(r, u, encode_varint(N) \o (F \o s), m)
    BY <1>5, <2>3, Zenon DEF AssocIs
  <2>5. F \o s \in Str
    BY <2>2, Cat, Zenon
  <2>6. N \in Int32
    BY <1>1, Zenon
  <2> HIDE DEF N
  <2>7. QED
    BY <2>4, <2>5, <2>6, VarIntAt, Zenon
<1>10. GetMany(r, MaxMatches, GetMatch) = IF n.ok /\ n.val \in 0 .. MaxMatches THEN after[n.val] ELSE Failed
  BY Zenon DEF GetMany, AddMatch
<1> HIDE DEF n
<1>11. CASE n = Failed
  <2>1. GetMany(r, MaxMatches, GetMatch) = Failed /\ m # <<>>
    BY <1>9, <1>10, <1>11, AtFailed, Zenon
  <2>2. At(Failed, xs, s, m)
    BY <2>1, Zenon DEF At
  <2>3. QED
    BY <2>1, <2>2, Zenon DEF Dry
<1>12. CASE n # Failed
  <2>1. n.ok /\ n.val = N
    BY <1>9, <1>12, AtVal, Zenon
  <2>2. N \in 0 .. MaxMatches
    BY <1>1
  <2>3. GetMany(r, MaxMatches, GetMatch) = after[N]
    BY <1>10, <2>1, <2>2, Zenon
  <2>4. Is(after)
    <3>0. n.val \in Nat
      BY <1>1, <2>1, Zenon
    <3>1. \E g : Is(g)
      BY <3>0, MatchesLoop, Zenon
    <3>2. QED
      BY <3>1, Zenon
  <2> HIDE DEF after
  <2>5. after[0] = With(n, <<>>) /\ \A i \in 1 .. N : after[i] = AddMatch(after[i - 1])
    <3>1. n.val = N /\ N \in Nat
      BY <1>1, <2>1, Zenon
    <3> HIDE DEF N
    <3>2. QED
      BY <2>4, <3>1
  <2> DEFINE C == {i \in 0 .. N : Dry(after[i], SubSeq(xs, 1, i), R[i], m)}
  <2>6. 0 \in C
    <3>1. At(With(n, <<>>), <<>>, F \o s, m)
      BY <1>9, AtParts, Zenon
    <3>2. SubSeq(xs, 1, 0) = <<>> /\ 0 \in 0 .. N
      BY <1>1
    <3>3. QED
      BY <1>8, <2>5, <3>1, <3>2, Zenon DEF Dry
  <2>7. ASSUME NEW i \in 1 .. N, i - 1 \in C PROVE i \in C
    <3> DEFINE l == SubSeq(xs, 1, i - 1)
    <3>1. Dry(after[i - 1], l, R[i - 1], m)
      BY <2>7, Zenon
    <3>0. i \in 0 .. N
      BY <1>1
    <3>2. xs[i] \in Field /\ R[i] \in Str /\ i \in 0 .. N /\ R[i - 1] = ss[i] \o R[i]
      BY <1>2, <1>8, <3>0, Zenon
    <3>3. Dry(after[i - 1], l, WriteMatch(xs[i]) \o R[i], m)
      BY <1>3, <3>1, <3>2, Zenon
    <3>4. Append(l, xs[i]) = SubSeq(xs, 1, i)
      BY FrontGrows, Zenon
    <3> HIDE DEF l
    <3>5. Dry(AddMatch(after[i - 1]), Append(l, xs[i]), R[i], m)
      <4>1. xs[i] \in Field
        BY <3>2, Zenon
      <4>2. R[i] \in Str
        BY <3>2, Zenon
      <4>3. QED
        BY <3>3, <4>1, <4>2, MatchStep, Zenon
    <3>6. QED
      BY <2>5, <3>2, <3>4, <3>5, Zenon
  <2> HIDE DEF C
  <2>8. N \in C
    <3>1. N \in Nat /\ N \in 0 .. N
      BY <1>1
    <3> HIDE DEF N
    <3>2. \A i \in 0 .. N : i \in C
      BY <2>6, <2>7, <3>1, UpTo, Zenon
    <3>3. QED
      BY <3>1, <3>2, Zenon
  <2>9. Dry(after[N], SubSeq(xs, 1, N), R[N], m)
    BY <2>8, Zenon DEF C
  <2>10. SubSeq(xs, 1, N) = xs
    OBVIOUS
  <2>11. n # Failed /\ (r = Failed => n = Failed)
    BY <1>9, <1>12, Zenon
  <2>12. QED
    BY <1>8, <2>3, <2>9, <2>10, <2>11, Zenon
<1>13. QED
  BY <1>11, <1>12, Zenon

LEMMA MatchesStr ==
  ASSUME NEW xs \in Seq(Field), Len(xs) <= MaxMatches
  PROVE  Many(xs, WriteMatch) \in Str /\ 1 <= Len(Many(xs, WriteMatch))
<1> DEFINE N  == Len(xs)
           ss == [i \in DOMAIN xs |-> WriteMatch(xs[i])]
           F  == FlattenSeq(ss)
<1>1. N \in Nat /\ N \in Int32 /\ DOMAIN xs = 1 .. N
  BY MaxLists, SMT DEF Int32, MaxInt32, MaxMatches, MaxDimensions
<1>2. \A i \in 1 .. N : xs[i] \in Field
  OBVIOUS
<1>3. /\ Len(ss) = N /\ (N = 0 => ss = <<>>)
      /\ \A i \in 1 .. N : ss[i] = WriteMatch(xs[i])
  BY <1>1
<1>4. \A i \in 1 .. N : ss[i] \in Str
  BY <1>2, <1>3, MatchStr, Zenon
<1>5. Many(xs, WriteMatch) = encode_varint(N) \o F
  BY Zenon DEF Many
<1> HIDE DEF ss
<1>6. F \in Str
  BY <1>1, <1>3, <1>4, Empty, FlattenPeels, Zenon
<1>7. encode_varint(N) \in Str /\ 1 <= Len(encode_varint(N))
  BY <1>1, VarIntLen, Zenon
<1> HIDE DEF F, N
<1>8. encode_varint(N) \o F \in Str /\ 1 <= Len(encode_varint(N) \o F)
  BY <1>6, <1>7, CatLonger, Zenon
<1>9. QED
  BY <1>5, <1>8, Zenon

LEMMA NothingLeft ==
  ASSUME NEW a \in Str, NEW m \in Str, a \o m = <<>> PROVE a = <<>> /\ m = <<>>
<1>1. Len(a) = 0 /\ Len(m) = 0
  BY Cat
<1>2. QED
  BY <1>1, EmptySeq DEF Str

(* A response was read with the data d, a front of w. *)
HasData(r, x, w, m) ==
  \E d \in Str :
    /\ Reads(r, [message_id |-> x.message_id, successful |-> x.successful, data |-> d], m)
    /\ IsPrefix(d, w) /\ (m = <<>> => d = w) /\ (r # Failed => d \o m = w)

LEMMA PluginResponseAt ==
  ASSUME NEW x, x.message_id \in Int32, x.successful \in BOOLEAN, x.data \in Str,
         NEW w, w = IF x.successful THEN x.data ELSE <<>>
  PROVE  \E p \in Str :
           /\ encode_plugin_response(x) = RawPacket(2, p)
           /\ \A b, m \in Str : b \o m = p =>
                HasData(decode_plugin_response(RawPacket(2, b)), x, w, m)
<1> DEFINE p == encode_varint(x.message_id) \o Flag(x.successful) \o w
           s2 == w \o <<>>
           s1 == Flag(x.successful) \o s2
           s0 == encode_varint(x.message_id) \o s1
<1>w. w \in Str
  BY Empty, Zenon
<1>1. encode_varint(x.message_id) \in Str /\ Flag(x.successful) \in Str /\ w \in Str
  BY <1>w, VarIntShape, FlagStr, Zenon
<1>2. Flat3(encode_varint(x.message_id), Flag(x.successful), w)
  BY <1>1, FlatIs3, Zenon
<1>3. p = s0 /\ p \in Str
  BY <1>2, Zenon DEF Flat3
<1>s1. s1 \in Str
  BY <1>2, Zenon DEF Flat3
<1>s2. s2 \in Str
  BY <1>2, Zenon DEF Flat3
<1>4. encode_plugin_response(x) = RawPacket(2, p)
  BY Zenon DEF encode_plugin_response
<1>5. ASSUME NEW b \in Str, NEW m \in Str, b \o m = p
      PROVE  HasData(decode_plugin_response(RawPacket(2, b)), x, w, m)
  <2> DEFINE r0 == Decoder(RawPacket(2, b), {2})
             r1 == GetVarInt(r0)
             r2 == GetBool(r1)
             g  == GetRest(r2)
             y  == [message_id |-> r1.val, successful |-> r2.val,
                   data |-> IF r2.val THEN g.val ELSE <<>>]
  <2>1. At(r0, <<>>, b \o m, m)
    BY DecoderAt, Zenon
  <2>2. At(r0, <<>>, s0, m)
    BY <1>3, <1>5, <2>1, Zenon
  <2> HIDE DEF r0
  <2>3. At(r1, x.message_id, s1, m)
    BY <1>s1, <2>2, VarIntAt, Zenon
  <2>4. At(r2, x.successful, s2, m)
    BY <1>s2, <2>3, BoolAt, Zenon
  <2>f. (r1 = Failed => r2 = Failed)
    BY Strict, Zenon
  <2>a. s2 = w
    BY <1>1, Empty, Zenon
  <2>b. At(r2, x.successful, w, m)
    BY <2>a, <2>4, Zenon
  <2>b2. ReadsFront(g, w, m)
    BY <1>1, <2>b, RestAt, Zenon
  <2>c. PICK d \in Str : /\ Reads(g, d, m) /\ IsPrefix(d, w) /\ (m = <<>> => d = w)
                         /\ g # Failed => d \o m = w
    BY <2>b2, Zenon DEF ReadsFront
  <2>d. r2 = Failed => g = Failed
    BY Strict, Zenon
  <2>e. decode_plugin_response(RawPacket(2, b)) = With(g, y)
    BY Zenon DEF decode_plugin_response, r0
  <2> HIDE DEF r1, r2, g
  <2>g. g # Failed => r1.val = x.message_id /\ r2.val = x.successful /\ g.val = d
    BY <2>3, <2>4, <2>f, <2>c, <2>d, AtVal, ReadsVal, Zenon
  <2> DEFINE z == [message_id |-> x.message_id, successful |-> x.successful, data |-> d]
  <2>h. g # Failed => y = z
    <3>1. CASE x.successful
      BY <2>g, <3>1, Zenon
    <3>2. CASE ~x.successful
      <4>1. g # Failed => d = <<>>
        <5>1. w = <<>>
          BY <3>2, Zenon
        <5>2. g # Failed => d \o m = <<>>
          BY <2>c, <5>1, Zenon
        <5>3. QED
          BY <5>2, NothingLeft, Zenon
      <4>2. g # Failed => y = [message_id |-> x.message_id, successful |-> x.successful,
                               data |-> <<>>]
        BY <2>g, <3>2, Zenon
      <4>3. QED
        BY <4>1, <4>2, Zenon
    <3>3. QED
      BY <3>1, <3>2, Zenon
  <2> HIDE DEF y, z
  <2>i. Reads(With(g, y), z, m)
    BY <2>c, <2>h, ReadsEnd, Zenon
  <2>k. With(g, y) # Failed => g # Failed
    BY WithParts, Zenon
  <2>j. QED
    BY <2>c, <2>e, <2>i, <2>k, Zenon DEF z, HasData
<1> HIDE DEF p
<1>6. QED
  BY <1>3, <1>4, <1>5, Zenon

LEMMA PluginResponseRead ==
  ASSUME NEW x, x.message_id \in Int32, x.successful \in BOOLEAN, x.data \in Str,
         NEW w, w = IF x.successful THEN x.data ELSE <<>>
  PROVE  \E p \in Str :
           /\ encode_plugin_response(x) = RawPacket(2, p)
           /\ \A b, m \in Str : b \o m = p =>
                Fits(decode_plugin_response(RawPacket(2, b)),
                     [message_id |-> x.message_id, successful |-> x.successful, data |-> w],
                     "PluginResponse", m)
<1> DEFINE full == [message_id |-> x.message_id, successful |-> x.successful, data |-> w]
           R(b) == decode_plugin_response(RawPacket(2, b))
<1>1. PICK p \in Str :
        /\ encode_plugin_response(x) = RawPacket(2, p)
        /\ \A b, m \in Str : b \o m = p => HasData(R(b), x, w, m)
  BY PluginResponseAt, Zenon
<1>2. ASSUME NEW b \in Str, NEW m \in Str, b \o m = p
      PROVE  Fits(R(b), full, "PluginResponse", m)
  <2>0. HasData(R(b), x, w, m)
    BY <1>1, <1>2, Zenon
  <2>1. PICK d \in Str :
          /\ Reads(R(b), [message_id |-> x.message_id, successful |-> x.successful,
                          data |-> d], m)
          /\ IsPrefix(d, w) /\ (m = <<>> => d = w)
    BY <2>0, Zenon DEF HasData
  <2> DEFINE z == [message_id |-> x.message_id, successful |-> x.successful, data |-> d]
  <2>2. m = <<>> => z = full
    BY <2>1, Zenon
  <2>3. \A f \in DOMAIN full : z[f] = full[f] \/ Tolerated("PluginResponse", f, z[f], full[f])
    <3>1. Tolerated("PluginResponse", "data", d, w)
      BY <2>1, DataTolerated, Zenon
    <3>2. QED
      BY <3>1, SMT
  <2>4. Reads(R(b), z, m)
    BY <2>1, Zenon
  <2> HIDE DEF z, full
  <2>5. QED
    BY <2>2, <2>3, <2>4, ReadsFits, Zenon
<1>3. QED
  BY <1>1, <1>2, Zenon

(* The signature is a string of 32 bytes. *)
LEMMA HmacShape ==
  ASSUME NEW p \in Str, 1 <= Len(p)
  PROVE  Hmac(p) \in Str /\ Len(Hmac(p)) = 32
<1>1. Len(p) \in Nat
  BY Cat
<1>2. ASSUME NEW i \in 1 .. 32 PROVE (Len(p) + p[(i % Len(p)) + 1]) % 256 \in Bytes
  <2> DEFINE n == Len(p)
             k == (i % n) + 1
  <2>1. n \in Nat /\ 1 <= n
    BY <1>1
  <2>2. k \in 1 .. n
    <3> HIDE DEF n
    <3>1. QED
      BY <2>1
  <2> HIDE DEF k
  <2>3. p[k] \in Bytes
    BY <2>2, ElementOfSeq DEF Str
  <2> DEFINE q == p[k]
  <2>4. q \in Int
    <3>1. \A z \in Bytes : z \in Int
      BY DEF Bytes
    <3>2. QED
      BY <2>3, <3>1, Zenon
  <2> HIDE DEF q, n
  <2>5. (n + q) % 256 \in Bytes
    BY <2>1, <2>4 DEF Bytes
  <2>6. QED
    BY <2>5, Zenon DEF q, n, k
<1> DEFINE H == [i \in 1 .. 32 |-> (Len(p) + p[(i % Len(p)) + 1]) % 256]
<1>3. H \in [1 .. 32 -> Bytes]
  BY <1>2, Zenon
<1>4. Hmac(p) = H
  BY Zenon DEF Hmac
<1> HIDE DEF H
<1>5. H \in Str /\ Len(H) = 32
  <2>1. DOMAIN H = 1 .. 32
    BY <1>3, Zenon
  <2>2. H \in Str
    <3>1. 32 \in Nat
      OBVIOUS
    <3>2. H \in UNION {[1 .. n -> Bytes] : n \in Nat}
      BY <1>3, <3>1, Zenon
    <3>3. QED
      BY <3>2, SeqDef, Zenon DEF Str
  <2>3. QED
    BY <2>1, <2>2, LenProperties DEF Str
<1>6. QED
  BY <1>4, <1>5, Zenon

LEMMA VelocityPayload ==
  ASSUME NEW x, x.client_ip \in Field, x.id \in Str, x.name \in Field,
         x.properties \in Seq(Property), Len(x.properties) <= MaxInt32
  PROVE  LET p == create_velocity_forwarding_payload(x, x.client_ip)
         IN /\ Flat5(encode_varint(4), Text(x.client_ip), x.id, Text(x.name),
                     Many(x.properties, WriteProperty))
            /\ p = encode_varint(4) \o Text(x.client_ip) \o x.id \o Text(x.name)
                     \o Many(x.properties, WriteProperty)
            /\ p \in Str /\ 1 <= Len(p)
<1> DEFINE p == create_velocity_forwarding_payload(x, x.client_ip)
           a == encode_varint(4)
           t == Text(x.client_ip) \o (x.id \o (Text(x.name)
                  \o (Many(x.properties, WriteProperty) \o <<>>)))
<1>1. 4 \in Int32
  BY SMT DEF Int32
<1>2. a \in Str /\ 1 <= Len(a)
  BY <1>1, VarIntLen, Zenon
<1>3. Text(x.client_ip) \in Str /\ Text(x.name) \in Str
  BY TextShape, Zenon
<1>4. Many(x.properties, WriteProperty) \in Str
  BY PropertiesStr, Zenon
<1>5. Flat5(a, Text(x.client_ip), x.id, Text(x.name), Many(x.properties, WriteProperty))
  BY <1>2, <1>3, <1>4, FlatIs5, Zenon
<1>6. p = a \o Text(x.client_ip) \o x.id \o Text(x.name) \o Many(x.properties, WriteProperty)
  BY Zenon DEF create_velocity_forwarding_payload
<1>7. p = a \o t /\ t \in Str
  BY <1>5, <1>6, Zenon DEF Flat5
<1> HIDE DEF p, a, t
<1>8. p \in Str /\ 1 <= Len(p)
  <2>1. a \o t \in Str /\ 1 <= Len(a \o t)
    BY <1>2, <1>7, CatLonger, Zenon
  <2>2. QED
    BY <1>7, <2>1, Zenon
<1>9. QED
  BY <1>5, <1>6, <1>8, Zenon DEF p, a

(* A backend reads from the data the player it was made for, or finds out that it is not
   complete. *)
LEMMA VelocityDataAt ==
  ASSUME NEW x, x.client_ip \in Field, x.id \in Str, Len(x.id) = 16, x.name \in Field,
         x.properties \in Seq(Property), Len(x.properties) <= MaxInt32,
         NEW d \in Str, NEW m \in Str,
         d \o m = create_velocity_response_data(x, x.client_ip)
  PROVE  At(ReadVelocityData(d),
            [version |-> 4, client_ip |-> x.client_ip, id |-> x.id, name |-> x.name,
             properties |-> x.properties], <<>>, m)
<1> DEFINE p  == create_velocity_forwarding_payload(x, x.client_ip)
           s5 == <<>>
           s4 == Many(x.properties, WriteProperty) \o s5
           s3 == Text(x.name) \o s4
           s2 == x.id \o s3
           s1 == Text(x.client_ip) \o s2
           s0 == encode_varint(4) \o s1
           r0 == GetRaw(32, Start(d))
           r1 == GetVarInt(r0)
           r2 == GetText(r1)
           r3 == GetRaw(16, r2)
           r4 == GetText(r3)
           r5 == GetProperties(r4)
           full == [version |-> 4, client_ip |-> x.client_ip, id |-> x.id, name |-> x.name,
                    properties |-> x.properties]
           y == [version |-> r1.val, client_ip |-> r2.val, id |-> r3.val, name |-> r4.val,
                 properties |-> r5.val]
<1>1. /\ Flat5(encode_varint(4), Text(x.client_ip), x.id, Text(x.name),
               Many(x.properties, WriteProperty))
      /\ p = encode_varint(4) \o Text(x.client_ip) \o x.id \o Text(x.name)
               \o Many(x.properties, WriteProperty)
      /\ p \in Str /\ 1 <= Len(p)
  BY VelocityPayload, Zenon
<1>2. p = s0
  BY <1>1, Zenon DEF Flat5
<1>s1. s1 \in Str
  BY <1>1, Zenon DEF Flat5
<1>s2. s2 \in Str
  BY <1>1, Zenon DEF Flat5
<1>s3. s3 \in Str
  BY <1>1, Zenon DEF Flat5
<1>s4. s4 \in Str
  BY <1>1, Zenon DEF Flat5
<1>s5. s5 \in Str
  BY Empty, Zenon
<1>3. Hmac(p) \in Str /\ Len(Hmac(p)) = 32
  BY <1>1, HmacShape, Zenon
<1>4. d \o m = Hmac(p) \o p
  BY Zenon DEF create_velocity_response_data
<1>5. ReadVelocityData(d) = IF r0.ok /\ r0.rest # <<>> /\ r0.val = Hmac(r0.rest)
                            THEN With(r5, y) ELSE Failed
  BY Zenon DEF ReadVelocityData
<1> HIDE DEF p
<1>6. At(Start(d), <<>>, Hmac(p) \o p, m)
  BY <1>4, Zenon DEF Start, At
<1>7. At(r0, Hmac(p), p, m)
  <2>1. p \in Str
    BY <1>1, Zenon
  <2>2. QED
    BY <1>3, <1>6, <2>1, RawNAt, Zenon
<1> HIDE DEF r0
<1>8. At(r0, Hmac(p), s0, m)
  BY <1>2, <1>7, Zenon
<1>9. At(r1, 4, s1, m)
  <2>1. 4 \in Int32
    BY SMT DEF Int32
  <2>2. QED
    BY <1>s1, <1>8, <2>1, VarIntAt, Zenon
<1>10. At(r2, x.client_ip, s2, m)
  BY <1>s2, <1>9, TextAt, Zenon
<1>11. At(r3, x.id, s3, m)
  BY <1>s3, <1>10, RawNAt, Zenon
<1>12. At(r4, x.name, s4, m)
  BY <1>s4, <1>11, TextAt, Zenon
<1>13. At(r5, x.properties, s5, m) /\ (r4 = Failed => r5 = Failed)
  BY <1>s5, <1>12, PropertiesAt, Zenon
<1>14. /\ (r0 = Failed => r1 = Failed) /\ (r1 = Failed => r2 = Failed)
       /\ (r2 = Failed => r3 = Failed) /\ (r3 = Failed => r4 = Failed)
  BY Strict, Zenon
<1> HIDE DEF r1, r2, r3, r4, r5
<1>15. r5 # Failed => /\ r1.val = 4 /\ r2.val = x.client_ip /\ r3.val = x.id
                      /\ r4.val = x.name /\ r5.val = x.properties
  BY <1>9, <1>10, <1>11, <1>12, <1>13, <1>14, AtVal, Zenon
<1>16. r5 # Failed => y = full
  BY <1>15, Zenon
<1> HIDE DEF y, full
<1>17. At(With(r5, y), full, s5, m)
  BY <1>13, <1>16, AtEnd, Zenon
<1>18. CASE m = <<>>
  <2>1. r0 # Failed
    BY <1>7, <1>18, AtFailed, Zenon
  <2>2. r0.ok /\ r0.rest \in Str /\ r0.rest \o m = p /\ r0.val = Hmac(p)
    BY <1>7, <2>1, AtParts, Zenon
  <2>3. r0.rest = p
    BY <1>18, <2>2, Empty, Zenon
  <2>4. p # <<>>
    <3>1. 1 <= Len(p)
      BY <1>1, Zenon
    <3>2. QED
      BY <3>1
  <2>5. ReadVelocityData(d) = With(r5, y)
    BY <1>5, <2>2, <2>3, <2>4, Zenon
  <2>6. QED
    BY <1>17, <2>5, Zenon DEF full
<1>19. CASE m # <<>>
  <2>1. ReadVelocityData(d) = With(r5, y) \/ ReadVelocityData(d) = Failed
    BY <1>5, Zenon
  <2>2. At(Failed, full, s5, m)
    BY <1>19, Zenon DEF At
  <2>3. QED
    BY <1>17, <2>1, <2>2, Zenon DEF full
<1>20. QED
  BY <1>18, <1>19, Zenon

ReadVelocity(raw) ==
  LET x == decode_plugin_response(raw) IN IF x.ok THEN ReadVelocityData(x.val.data) ELSE Failed

VelocityResponse(x) ==
  [message_id |-> 7, successful |-> TRUE, data |-> create_velocity_response_data(x, x.client_ip)]

LEMMA VelocityRead ==
  ASSUME NEW x, x.client_ip \in Field, x.id \in Str, Len(x.id) = 16, x.name \in Field,
         x.properties \in Seq(Property), Len(x.properties) <= MaxInt32
  PROVE  \E p \in Str :
           /\ encode_plugin_response(VelocityResponse(x)) = RawPacket(2, p)
           /\ \A b, m \in Str : b \o m = p =>
                At(ReadVelocity(RawPacket(2, b)),
                   [version |-> 4, client_ip |-> x.client_ip, id |-> x.id, name |-> x.name,
                    properties |-> x.properties], <<>>, m)
<1> DEFINE q == VelocityResponse(x)
           w == create_velocity_response_data(x, x.client_ip)
           full == [version |-> 4, client_ip |-> x.client_ip, id |-> x.id, name |-> x.name,
                    properties |-> x.properties]
<1>1. q.message_id = 7 /\ q.successful = TRUE /\ q.data = w
  BY DEF VelocityResponse
<1>2. w \in Str
  <2> DEFINE p == create_velocity_forwarding_payload(x, x.client_ip)
  <2>1. p \in Str /\ 1 <= Len(p)
    BY VelocityPayload, Zenon
  <2> HIDE DEF p
  <2>2. Hmac(p) \in Str
    BY <2>1, HmacShape, Zenon
  <2>3. Hmac(p) \o p \in Str
    BY <2>1, <2>2, Cat, Zenon
  <2>4. QED
    BY <2>3, Zenon DEF create_velocity_response_data, p
<1>3. q.message_id \in Int32 /\ q.successful \in BOOLEAN /\ q.data \in Str
  <2>1. 7 \in Int32
    BY SMT DEF Int32
  <2>2. QED
    BY <1>1, <1>2, <2>1, Zenon
<1>4. w = IF q.successful THEN q.data ELSE <<>>
  BY <1>1, Zenon
<1> HIDE DEF q, w
<1>5. PICK p \in Str :
        /\ encode_plugin_response(q) = RawPacket(2, p)
        /\ \A b, m \in Str : b \o m = p =>
             HasData(decode_plugin_response(RawPacket(2, b)), q, w, m)
  BY <1>3, <1>4, PluginResponseAt, Zenon
<1>6. ASSUME NEW b \in Str, NEW m \in Str, b \o m = p
      PROVE  At(ReadVelocity(RawPacket(2, b)), full, <<>>, m)
  <2> DEFINE r == decode_plugin_response(RawPacket(2, b))
  <2>1. HasData(r, q, w, m)
    BY <1>5, <1>6, Zenon
  <2>2. ReadVelocity(RawPacket(2, b)) = IF r.ok THEN ReadVelocityData(r.val.data) ELSE Failed
    BY Zenon DEF ReadVelocity
  <2> HIDE DEF r
  <2>3. PICK d \in Str :
          /\ Reads(r, [message_id |-> q.message_id, successful |-> q.successful, data |-> d], m)
          /\ r # Failed => d \o m = w
    BY <2>1, Zenon DEF HasData
  <2> HIDE DEF full
  <2>4. CASE r = Failed
    <3>1. m # <<>>
      BY <2>3, <2>4, FailedParts, Zenon DEF Reads
    <3>2. ReadVelocity(RawPacket(2, b)) = Failed
      BY <2>2, <2>4, FailedParts, Zenon
    <3>3. QED
      BY <3>1, <3>2, Zenon DEF At
  <2>5. CASE r # Failed
    <3> DEFINE z == [message_id |-> q.message_id, successful |-> q.successful, data |-> d]
    <3>1. z.data = d
      OBVIOUS
    <3> HIDE DEF z
    <3>2. r.ok /\ r.val = z
      BY <2>3, <2>5, ReadsVal, Zenon DEF z
    <3>3. ReadVelocity(RawPacket(2, b)) = ReadVelocityData(d)
      BY <2>2, <3>1, <3>2, Zenon
    <3>4. d \o m = create_velocity_response_data(x, x.client_ip)
      BY <2>3, <2>5, Zenon DEF w
    <3>5. At(ReadVelocityData(d), full, <<>>, m)
      BY <3>4, VelocityDataAt, Zenon DEF full
    <3>6. QED
      BY <3>3, <3>5, Zenon
  <2>6. QED
    BY <2>4, <2>5, Zenon
<1>7. QED
  BY <1>5, <1>6, Zenon DEF q

LEMMA LoginAcknowledgedRead ==
  \A b, m \in Str : b \o m = <<>> => At(decode_login_acknowledged(RawPacket(3, b)), <<>>, <<>>, m)
<1> SUFFICES ASSUME NEW b \in Str, NEW m \in Str, b \o m = <<>>
             PROVE  At(decode_login_acknowledged(RawPacket(3, b)), <<>>, <<>>, m)
  BY Zenon
<1>1. At(Decoder(RawPacket(3, b), {3}), <<>>, b \o m, m)
  BY DecoderAt, Zenon
<1>2. QED
  BY <1>1, Zenon DEF decode_login_acknowledged

(* A field that was left out. *)
LEMMA LackFits ==
  ASSUME NEW r, NEW y, NEW t, r = Got(y, t), NEW m, m # <<>>, NEW e, NEW kind,
         \A f \in DOMAIN e : y[f] = e[f] \/ Tolerated(kind, f, y[f], e[f])
  PROVE  Fits(r, e, kind, m)
BY Zenon DEF Fits

LEMMA LoginStartRead ==
  ASSUME NEW x, x.username \in Field, x.username \in Seq(NameBytes),
         Len(x.username) \in 1 .. 16,
         x.player_uuid \in Str, Len(x.player_uuid) = 16
  PROVE  \E p \in Str :
           /\ encode_login_start(x) = RawPacket(0, p)
           /\ \A b, m \in Str : b \o m = p =>
                Fits(decode_login_start(RawPacket(0, b)),
                     [username |-> x.username, player_uuid |-> x.player_uuid], "LoginStart", m)
<1> DEFINE p == Text(x.username) \o x.player_uuid
           s1 == x.player_uuid \o <<>>
           s0 == Text(x.username) \o s1
<1>1. Text(x.username) \in Str /\ x.player_uuid \in Str
  BY TextShape, Zenon
<1>2. Flat2(Text(x.username), x.player_uuid)
  BY <1>1, FlatIs2, Zenon
<1>3. p = s0 /\ p \in Str
  BY <1>2, Zenon DEF Flat2
<1>s1. s1 \in Str
  BY <1>2, Zenon DEF Flat2
<1>4. encode_login_start(x) = RawPacket(0, p)
  BY Zenon DEF encode_login_start
<1>5. ASSUME NEW b \in Str, NEW m \in Str, b \o m = p
      PROVE  Fits(decode_login_start(RawPacket(0, b)),
                  [username |-> x.username, player_uuid |-> x.player_uuid], "LoginStart", m)
  <2> DEFINE r0 == Decoder(RawPacket(0, b), {0})
             r1 == GetText(r0)
             r2 == GetRaw(16, r1)
             g  == IfLeft(16, r1, r2, Nil)
             y  == [username |-> r1.val, player_uuid |-> g.val]
  <2>1. At(r0, <<>>, b \o m, m)
    BY DecoderAt, Zenon
  <2>2. At(r0, <<>>, s0, m)
    BY <1>3, <1>5, <2>1, Zenon
  <2> HIDE DEF r0
  <2>3. At(r1, x.username, s1, m)
    BY <1>s1, <2>2, TextAt, Zenon
  <2>4. At(r2, x.player_uuid, <<>>, m)
    BY <2>3, RawNAt, Empty, Zenon
  <2>f. (r1 = Failed => r2 = Failed)
    BY Strict, Zenon
  <2> DEFINE full == [username |-> x.username, player_uuid |-> x.player_uuid]
             none == [username |-> x.username, player_uuid |-> Nil]
  <2>a. decode_login_start(RawPacket(0, b)) =
          IF r1.ok /\ Len(r1.val) \in 1 .. 16 /\ ToSet(r1.val) \subseteq NameBytes
          THEN With(g, y) ELSE Failed
    BY Zenon DEF decode_login_start, r0
  <2> HIDE DEF r1, r2
  <2>b. LeftAt(16, r1, r2, Nil, x.player_uuid, <<>>, m)
    <3>1. 16 \in Nat /\ 16 <= Len(x.player_uuid)
      OBVIOUS
    <3>2. <<>> \in Str
      BY Empty, Zenon
    <3>3. At(r2, x.player_uuid, <<>>, m) /\ (r1 = Failed => r2 = Failed)
      BY <2>4, <2>f, Zenon
    <3>4. At(r1, x.username, x.player_uuid \o <<>>, m)
      BY <2>3, Zenon
    <3>5. QED
      BY <3>1, <3>2, <3>3, <3>4, IfLeftAt, Zenon
  <2>c. ToSet(x.username) \subseteq NameBytes
    BY DEF ToSet
  <2>d. r1 # Failed => /\ r1.val = x.username /\ r1.ok
    BY <2>3, AtVal, Zenon
  <2>e. r1 = Failed => ~r1.ok
    BY <2>3, AtFailed, Zenon
  <2>g. \/ At(g, x.player_uuid, <<>>, m) /\ (r1 = Failed => g = Failed)
        \/ m # <<>> /\ g = Got(Nil, r1.rest) /\ r1 # Failed
    BY <2>b, Zenon DEF LeftAt
  <2> HIDE DEF g
  <2>h. CASE At(g, x.player_uuid, <<>>, m) /\ (r1 = Failed => g = Failed)
    <3>1. decode_login_start(RawPacket(0, b)) = With(g, y)
      <4>1. CASE r1 = Failed
        BY <2>a, <2>e, <2>h, <4>1, WithParts, Zenon
      <4>2. CASE r1 # Failed
        BY <2>a, <2>c, <2>d, <4>2, Zenon
      <4>3. QED
        BY <4>1, <4>2, Zenon
    <3>2. g # Failed => r1.val = x.username /\ g.val = x.player_uuid
      BY <2>d, <2>h, AtVal, Zenon
    <3>3. g # Failed => y = full
      BY <3>2, Zenon
    <3> HIDE DEF y, full
    <3>4. At(With(g, y), full, <<>>, m)
      BY <2>h, <3>3, AtEnd, Zenon
    <3>5. QED
      BY <3>1, <3>4, AtFits, Zenon DEF full
  <2>i. CASE m # <<>> /\ g = Got(Nil, r1.rest) /\ r1 # Failed
    <3>1. decode_login_start(RawPacket(0, b)) = With(g, y)
      BY <2>a, <2>c, <2>d, <2>i, Zenon
    <3>2. y = none
      BY <2>d, <2>i, GotParts, Zenon
    <3>3. \A f \in DOMAIN full : none[f] = full[f] \/ Tolerated("LoginStart", f, none[f], full[f])
      <4>1. Tolerated("LoginStart", "player_uuid", Nil, x.player_uuid)
        BY SMT DEF Tolerated
      <4>2. QED
        BY <4>1, SMT
    <3> HIDE DEF y, full, none
    <3>4. With(g, y) = Got(none, r1.rest)
      BY <2>i, <3>2, WithParts, Zenon
    <3>5. QED
      BY <2>i, <3>1, <3>3, <3>4, LackFits, Zenon DEF full
  <2>j. QED
    BY <2>g, <2>h, <2>i, Zenon
<1> HIDE DEF p
<1>6. QED
  BY <1>3, <1>4, <1>5, Zenon

LEMMA EncryptionRequestNew ==
  ASSUME NEW x, x.server_id \in Field, x.public_key \in Field, x.verify_token \in Field,
         x.should_authenticate \in BOOLEAN, NEW v \in Int, v >= 766
  PROVE  \E p \in Str :
           /\ encode_encryption_request(x, v) = RawPacket(1, p)
           /\ \A b, m \in Str : b \o m = p =>
                Fits(decode_encryption_request(RawPacket(1, b)),
                     [server_id |-> x.server_id, public_key |-> x.public_key,
                       verify_token |-> x.verify_token,
                       should_authenticate |-> x.should_authenticate],
                     "EncryptionRequest", m)
<1> DEFINE p == Text(x.server_id) \o Text(x.public_key) \o Text(x.verify_token)
    \o Flag(x.should_authenticate)
           s3 == Flag(x.should_authenticate) \o <<>>
           s2 == Text(x.verify_token) \o s3
           s1 == Text(x.public_key) \o s2
           s0 == Text(x.server_id) \o s1
<1>1. Text(x.server_id) \in Str /\ Text(x.public_key) \in Str /\ Text(x.verify_token) \in Str
      /\ Flag(x.should_authenticate) \in Str
  BY TextShape, FlagStr, Zenon
<1>2. Flat4(Text(x.server_id), Text(x.public_key), Text(x.verify_token),
      Flag(x.should_authenticate))
  BY <1>1, FlatIs4, Zenon
<1>3. p = s0 /\ p \in Str
  BY <1>2, Zenon DEF Flat4
<1>s1. s1 \in Str
  BY <1>2, Zenon DEF Flat4
<1>s2. s2 \in Str
  BY <1>2, Zenon DEF Flat4
<1>s3. s3 \in Str
  BY <1>2, Zenon DEF Flat4
<1>4. encode_encryption_request(x, v) = RawPacket(1, p)
  BY Zenon DEF encode_encryption_request
<1>5. ASSUME NEW b \in Str, NEW m \in Str, b \o m = p
      PROVE  Fits(decode_encryption_request(RawPacket(1, b)),
                  [server_id |-> x.server_id, public_key |-> x.public_key,
                    verify_token |-> x.verify_token,
                    should_authenticate |-> x.should_authenticate],
                  "EncryptionRequest", m)
  <2> DEFINE r0 == Decoder(RawPacket(1, b), {1})
             r1 == GetText(r0)
             r2 == GetText(r1)
             r3 == GetText(r2)
             r4 == GetBool(r3)
             g  == IfLeft(1, r3, r4, TRUE)
             y  == [server_id |-> r1.val, public_key |-> r2.val, verify_token |-> r3.val,
                   should_authenticate |-> g.val]
  <2>1. At(r0, <<>>, b \o m, m)
    BY DecoderAt, Zenon
  <2>2. At(r0, <<>>, s0, m)
    BY <1>3, <1>5, <2>1, Zenon
  <2> HIDE DEF r0
  <2>3. At(r1, x.server_id, s1, m)
    BY <1>s1, <2>2, TextAt, Zenon
  <2>4. At(r2, x.public_key, s2, m)
    BY <1>s2, <2>3, TextAt, Zenon
  <2>5. At(r3, x.verify_token, s3, m)
    BY <1>s3, <2>4, TextAt, Zenon
  <2>6. At(r4, x.should_authenticate, <<>>, m)
    BY <2>5, BoolAt, Empty, Zenon
  <2>f. (r1 = Failed => r2 = Failed) /\ (r2 = Failed => r3 = Failed) /\ (r3 = Failed => r4 =
    Failed)
    BY Strict, Zenon
  <2> DEFINE full == [server_id |-> x.server_id, public_key |-> x.public_key,
      verify_token |-> x.verify_token, should_authenticate |-> x.should_authenticate]
  <2>a. decode_encryption_request(RawPacket(1, b)) = With(g, y)
    BY Zenon DEF decode_encryption_request, r0
  <2> DEFINE none == [server_id |-> x.server_id, public_key |-> x.public_key,
      verify_token |-> x.verify_token, should_authenticate |-> TRUE]
  <2> HIDE DEF r1, r2, r3, r4
  <2>b. LeftAt(1, r3, r4, TRUE, x.should_authenticate, <<>>, m)
    <3>1. 1 \in Nat /\ 1 <= Len(Flag(x.should_authenticate))
      BY DEF Flag
    <3>2. <<>> \in Str /\ Flag(x.should_authenticate) \in Str
      BY Empty, <1>1, Zenon
    <3>3. At(r4, x.should_authenticate, <<>>, m) /\ (r3 = Failed => r4 = Failed)
      BY <2>6, <2>f, Zenon
    <3>4. At(r3, x.verify_token, Flag(x.should_authenticate) \o <<>>, m)
      BY <2>5, Zenon
    <3>5. QED
      BY <3>1, <3>2, <3>3, <3>4, IfLeftAt, Zenon
  <2>d. r3 # Failed => r1.val = x.server_id /\ r2.val = x.public_key /\ r3.val = x.verify_token
    BY <2>3, <2>4, <2>5, <2>f, AtVal, Zenon
  <2>g. \/ At(g, x.should_authenticate, <<>>, m) /\ (r3 = Failed => g = Failed)
        \/ m # <<>> /\ g = Got(TRUE, r3.rest) /\ r3 # Failed
    BY <2>b, Zenon DEF LeftAt
  <2> HIDE DEF g
  <2>h. CASE At(g, x.should_authenticate, <<>>, m) /\ (r3 = Failed => g = Failed)
    <3>1. g # Failed => r3 # Failed /\ g.val = x.should_authenticate
      BY <2>h, AtVal, Zenon
    <3>2. g # Failed => y = full
      BY <2>d, <3>1, Zenon
    <3> HIDE DEF y, full
    <3>3. At(With(g, y), full, <<>>, m)
      BY <2>h, <3>2, AtEnd, Zenon
    <3>4. QED
      BY <2>a, <3>3, AtFits, Zenon DEF full
  <2>i. CASE m # <<>> /\ g = Got(TRUE, r3.rest) /\ r3 # Failed
    <3>1. y = none
      BY <2>d, <2>i, GotParts, Zenon
    <3>2. \A f \in DOMAIN full :
            none[f] = full[f] \/ Tolerated("EncryptionRequest", f, none[f], full[f])
      <4> DEFINE yes == TRUE
                 z == [server_id |-> x.server_id, public_key |-> x.public_key,
                       verify_token |-> x.verify_token, should_authenticate |-> yes]
      <4>1. Tolerated("EncryptionRequest", "should_authenticate", yes, x.should_authenticate)
        BY Zenon DEF Tolerated
      <4>2. none = z
        BY Zenon
      <4> HIDE DEF yes, none
      <4>3. \A f \in DOMAIN full :
              z[f] = full[f] \/ Tolerated("EncryptionRequest", f, z[f], full[f])
        BY <4>1, SMT
      <4> HIDE DEF z, full
      <4>4. QED
        BY <4>2, <4>3, Zenon
    <3> HIDE DEF y, full, none
    <3>3. With(g, y) = Got(none, r3.rest)
      BY <2>i, <3>1, WithParts, Zenon
    <3>4. QED
      BY <2>a, <2>i, <3>2, <3>3, LackFits, Zenon DEF full
  <2>j. QED
    BY <2>g, <2>h, <2>i, Zenon
<1> HIDE DEF p
<1>6. QED
  BY <1>3, <1>4, <1>5, Zenon

LEMMA EncryptionRequestOld ==
  ASSUME NEW x, x.server_id \in Field, x.public_key \in Field, x.verify_token \in Field,
         x.should_authenticate \in BOOLEAN, NEW v \in Int, v < 766
  PROVE  \E p \in Str :
           /\ encode_encryption_request(x, v) = RawPacket(1, p)
           /\ \A b, m \in Str : b \o m = p =>
                Fits(decode_encryption_request(RawPacket(1, b)),
                     [server_id |-> x.server_id, public_key |-> x.public_key,
                       verify_token |-> x.verify_token, should_authenticate |-> TRUE],
                     "EncryptionRequest", m)
<1> DEFINE p == Text(x.server_id) \o Text(x.public_key) \o Text(x.verify_token) \o <<>>
           s3 == <<>> \o <<>>
           s2 == Text(x.verify_token) \o s3
           s1 == Text(x.public_key) \o s2
           s0 == Text(x.server_id) \o s1
<1>v. ~(v >= 766)
  OBVIOUS
<1>1. Text(x.server_id) \in Str /\ Text(x.public_key) \in Str /\ Text(x.verify_token) \in Str
      /\ <<>> \in Str
  BY TextShape, Empty, Zenon
<1>2. Flat4(Text(x.server_id), Text(x.public_key), Text(x.verify_token), <<>>)
  BY <1>1, FlatIs4, Zenon
<1>3. p = s0 /\ p \in Str
  BY <1>2, Zenon DEF Flat4
<1>s1. s1 \in Str
  BY <1>2, Zenon DEF Flat4
<1>s2. s2 \in Str
  BY <1>2, Zenon DEF Flat4
<1>s3. s3 \in Str
  BY <1>2, Zenon DEF Flat4
<1>4. encode_encryption_request(x, v) = RawPacket(1, p)
  BY <1>v, Zenon DEF encode_encryption_request
<1>5. ASSUME NEW b \in Str, NEW m \in Str, b \o m = p
      PROVE  Fits(decode_encryption_request(RawPacket(1, b)),
                  [server_id |-> x.server_id, public_key |-> x.public_key,
                    verify_token |-> x.verify_token, should_authenticate |-> TRUE],
                  "EncryptionRequest", m)
  <2> DEFINE r0 == Decoder(RawPacket(1, b), {1})
             r1 == GetText(r0)
             r2 == GetText(r1)
             r3 == GetText(r2)
             r4 == GetBool(r3)
             g  == IfLeft(1, r3, r4, TRUE)
             y  == [server_id |-> r1.val, public_key |-> r2.val, verify_token |-> r3.val,
                   should_authenticate |-> g.val]
  <2>1. At(r0, <<>>, b \o m, m)
    BY DecoderAt, Zenon
  <2>2. At(r0, <<>>, s0, m)
    BY <1>3, <1>5, <2>1, Zenon
  <2> HIDE DEF r0
  <2>3. At(r1, x.server_id, s1, m)
    BY <1>s1, <2>2, TextAt, Zenon
  <2>4. At(r2, x.public_key, s2, m)
    BY <1>s2, <2>3, TextAt, Zenon
  <2>5. At(r3, x.verify_token, s3, m)
    BY <1>s3, <2>4, TextAt, Zenon
  <2>f. (r1 = Failed => r2 = Failed) /\ (r2 = Failed => r3 = Failed)
    BY Strict, Zenon
  <2> DEFINE full == [server_id |-> x.server_id, public_key |-> x.public_key,
      verify_token |-> x.verify_token, should_authenticate |-> TRUE]
  <2>a. decode_encryption_request(RawPacket(1, b)) = With(g, y)
    BY Zenon DEF decode_encryption_request, r0
  <2> HIDE DEF r1, r2, r3, r4
  <2>b. At(r3, x.verify_token, <<>>, m)
    <3>1. <<>> \o <<>> = <<>>
      BY Empty, Zenon
    <3>2. QED
      BY <2>5, <3>1, Zenon
  <2>c. g = With(r3, TRUE)
    <3>1. CASE r3 = Failed
      BY <3>1, FailedParts, Zenon DEF IfLeft
    <3>2. CASE r3 # Failed
      <4>1. r3.rest \in Str /\ r3.rest \o m = <<>>
        BY <2>b, <3>2, AtParts, Zenon
      <4>2. r3.rest = <<>>
        BY <4>1, NothingLeft, Zenon
      <4>3. ~(Len(r3.rest) >= 1)
        BY <4>2
      <4>4. QED
        BY <4>3, Zenon DEF IfLeft
    <3>3. QED
      BY <3>1, <3>2, Zenon
  <2> HIDE DEF g
  <2>d. At(g, TRUE, <<>>, m) /\ (r3 = Failed => g = Failed)
    BY <2>b, <2>c, AtParts, WithParts, Zenon
  <2>g. g # Failed => r1.val = x.server_id /\ r2.val = x.public_key /\ r3.val =
    x.verify_token /\ g.val = TRUE
    BY <2>3, <2>4, <2>5, <2>f, <2>d, AtVal, Zenon
  <2>h. g # Failed => y = full
    BY <2>g, Zenon
  <2> HIDE DEF y, full
  <2>i. At(With(g, y), full, <<>>, m)
    BY <2>d, <2>h, AtEnd, Zenon
  <2>j. QED
    BY <2>a, <2>i, AtFits, Zenon DEF full
<1> HIDE DEF p
<1>6. QED
  BY <1>3, <1>4, <1>5, Zenon

(* LoginSuccess.  Nothing may be left after its last field. *)
LEMMA WholeAt ==
  ASSUME NEW g, NEW u, NEW m \in Str, At(g, u, <<>>, m), NEW a, NEW c, g # Failed => a = c,
         NEW y, NEW full, g # Failed => y = full
  PROVE  At(IF g.ok /\ g.rest = <<>> /\ a = c THEN Got(y, <<>>) ELSE Failed, full, <<>>, m)
<1> DEFINE d == IF g.ok /\ g.rest = <<>> /\ a = c THEN Got(y, <<>>) ELSE Failed
<1>1. CASE g = Failed
  <2>1. d = Failed /\ m # <<>>
    BY <1>1, AtFailed, Zenon
  <2> HIDE DEF d
  <2>2. At(d, full, <<>>, m)
    BY <2>1, Zenon DEF At
  <2>3. QED
    BY <2>2, Zenon DEF d
<1>2. CASE g # Failed
  <2>1. g.ok /\ g.rest \in Str /\ g.rest \o m = <<>>
    BY <1>2, AtParts, Zenon
  <2>2. g.rest = <<>> /\ m = <<>>
    BY <2>1, NothingLeft, Zenon
  <2>3. d = Got(full, <<>>)
    BY <1>2, <2>1, <2>2, Zenon
  <2> HIDE DEF d
  <2>4. <<>> \in Str /\ <<>> \o m = <<>>
    BY <2>2, Empty, Zenon
  <2>5. At(d, full, <<>>, m)
    BY <2>3, <2>4, Zenon DEF At
  <2>6. QED
    BY <2>5, Zenon DEF d
<1>3. QED
  BY <1>1, <1>2, Zenon

(* Up to the name, from 707 on. *)
LoginNamed(b, x, s, m) ==
  LET u == GetRaw(16, Decoder(RawPacket(2, b), {2}))
  IN At(GetText(u), x.username, s, m) /\ (GetText(u) # Failed => u.val = x.uuid)

(* The session id that is written, if any. *)
SessionBytes(x, v) ==
  IF v < 776 THEN <<>> ELSE IF x.session_id = <<>> THEN Nil ELSE x.session_id[1]

LEMMA LoginSuccessNamed ==
  ASSUME NEW x, x.uuid \in Str, Len(x.uuid) = 16, x.username \in Field,
         x.properties \in Seq(Property), Len(x.properties) <= MaxInt32, NEW v \in Int, v >= 707,
         NEW sid \in Str,
         sid = SessionBytes(x, v)
  PROVE  \E p \in Str :
           /\ encode_login_success(x, v) = RawPacket(2, p)
           /\ \A b, m \in Str : b \o m = p =>
                LoginNamed(b, x, Many(x.properties, WriteProperty) \o sid, m)
<1> DEFINE q  == Many(x.properties, WriteProperty)
           p  == x.uuid \o Text(x.username) \o q \o sid
           s3 == sid \o <<>>
           s2 == q \o s3
           s1 == Text(x.username) \o s2
           s0 == x.uuid \o s1
<1>1. q \in Str /\ Text(x.username) \in Str
  BY PropertiesStr, TextShape, Zenon
<1>2. encode_login_success(x, v) = RawPacket(2, p)
  BY Zenon DEF encode_login_success, SessionBytes
<1> HIDE DEF q
<1>3. Flat4(x.uuid, Text(x.username), q, sid)
  BY <1>1, FlatIs4, Zenon
<1>4. p = s0 /\ p \in Str
  BY <1>3, Zenon DEF Flat4
<1>s1. s1 \in Str
  BY <1>3, Zenon DEF Flat4
<1>s2. s2 \in Str
  BY <1>3, Zenon DEF Flat4
<1>5. s3 = sid
  BY Empty, Zenon
<1>6. ASSUME NEW b \in Str, NEW m \in Str, b \o m = p
      PROVE  LoginNamed(b, x, q \o sid, m)
  <2> DEFINE r0 == Decoder(RawPacket(2, b), {2})
             r1 == GetRaw(16, r0)
             r2 == GetText(r1)
  <2>1. At(r0, <<>>, b \o m, m)
    BY DecoderAt, Zenon
  <2>2. At(r0, <<>>, s0, m)
    BY <1>4, <1>6, <2>1, Zenon
  <2> HIDE DEF r0
  <2>3. At(r1, x.uuid, s1, m)
    BY <1>s1, <2>2, RawNAt, Zenon
  <2>4. At(r2, x.username, s2, m)
    BY <1>s2, <2>3, TextAt, Zenon
  <2>5. r1 = Failed => r2 = Failed
    BY Strict, Zenon
  <2>6. r2 # Failed => r1.val = x.uuid
    BY <2>3, <2>5, AtVal, Zenon
  <2>7. At(r2, x.username, q \o sid, m)
    BY <1>5, <2>4, Zenon
  <2>8. QED
    BY <2>6, <2>7, Zenon DEF LoginNamed, r0
<1> HIDE DEF p
<1>7. QED
  BY <1>2, <1>4, <1>6, Zenon DEF q

LEMMA UuidFront ==
  ASSUME NEW u \in Str, Len(u) = 16
  PROVE  SubSeq(u, 1, 16) = u
BY SubSeqFull DEF Str

(* From 707 to 758 properties are written and none are read: the whole of the packet need
   not be understood. *)
LEMMA LoginSuccessMiddle ==
  ASSUME NEW x, x.uuid \in Str, Len(x.uuid) = 16, NEW v \in Int, v >= 707, v < 759,
         NEW b \in Str, NEW m \in Str, NEW s, LoginNamed(b, x, s, m), m # <<>>
  PROVE  Fits(decode_login_success(RawPacket(2, b), v),
              [uuid |-> x.uuid, username |-> x.username, properties |-> <<>>,
               session_id |-> <<>>], "LoginSuccess", m)
<1> DEFINE r0 == Decoder(RawPacket(2, b), {2})
           u  == IF v >= 707 THEN GetRaw(16, r0) ELSE GetText(r0)
           n  == GetText(u)
           q  == IF v >= 759 THEN IfLeft(1, n, GetProperties(n), <<>>) ELSE With(n, <<>>)
           id == GetRaw(16, q)
           g  == IF v >= 776 THEN With(id, <<id.val>>) ELSE With(q, <<>>)
           y  == [uuid |-> SubSeq(u.val, 1, 16), username |-> n.val, properties |-> q.val,
                  session_id |-> g.val]
           full == [uuid |-> x.uuid, username |-> x.username, properties |-> <<>>,
                    session_id |-> <<>>]
           L  == IF v >= 707 THEN 16 ELSE 36
           d  == decode_login_success(RawPacket(2, b), v)
<1>1. d = IF g.ok /\ g.rest = <<>> /\ Len(u.val) = L THEN Got(y, <<>>) ELSE Failed
  BY Zenon DEF decode_login_success, GetPropertiesIn, GetSessionId
<1>v. v >= 707 /\ ~(v >= 759) /\ ~(v >= 776)
  OBVIOUS
<1>2. u = GetRaw(16, r0)
  BY <1>v
<1>3. At(GetText(GetRaw(16, r0)), x.username, s, m)
      /\ (GetText(GetRaw(16, r0)) # Failed => GetRaw(16, r0).val = x.uuid)
  BY Zenon DEF LoginNamed
<1> HIDE DEF r0, u
<1>4. At(n, x.username, s, m) /\ (n # Failed => u.val = x.uuid)
  BY <1>2, <1>3, Zenon
<1> HIDE DEF n
<1>5. q = With(n, <<>>)
  BY <1>v
<1> HIDE DEF q, id
<1>6. g = With(q, <<>>)
  BY <1>v
<1> HIDE DEF g, d
<1>7. CASE n = Failed
  <2>1. g = Failed
    BY <1>5, <1>6, <1>7, WithParts, Zenon
  <2>2. d = Failed
    BY <1>1, <2>1, FailedParts, Zenon
  <2>3. QED
    BY <2>2, Zenon DEF Fits, d
<1>8. CASE n # Failed
  <2>1. n.val = x.username
    BY <1>4, <1>8, AtParts, Zenon
  <2>2. q = Got(<<>>, n.rest)
    BY <1>4, <1>5, <1>8, AtParts, Zenon
  <2>3. g = Got(<<>>, n.rest)
    BY <1>6, <2>2, WithParts, Zenon
  <2>4. q.val = <<>> /\ g.val = <<>>
    BY <2>2, <2>3, GotParts, Zenon
  <2>5. SubSeq(u.val, 1, 16) = x.uuid
    BY <1>4, <1>8, UuidFront, Zenon
  <2>6. y = full
    BY <2>1, <2>4, <2>5, Zenon
  <2> HIDE DEF y, full
  <2>7. d = Got(full, <<>>) \/ d = Failed
    BY <1>1, <2>6, Zenon
  <2>8. QED
    BY <2>7, Zenon DEF Fits, d, full
<1>9. QED
  BY <1>7, <1>8, Zenon

LEMMA LoginSuccessProperties ==
  ASSUME NEW x, x.uuid \in Str, Len(x.uuid) = 16, x.properties \in Seq(Property),
         Len(x.properties) <= MaxInt32, NEW v \in Int, v >= 759, v < 776,
         NEW sid, sid = <<>>,
         NEW b \in Str, NEW m \in Str,
         LoginNamed(b, x, Many(x.properties, WriteProperty) \o sid, m)
  PROVE  Fits(decode_login_success(RawPacket(2, b), v),
              [uuid |-> x.uuid, username |-> x.username, properties |-> x.properties,
               session_id |-> <<>>], "LoginSuccess", m)
<1> DEFINE r0 == Decoder(RawPacket(2, b), {2})
           u  == IF v >= 707 THEN GetRaw(16, r0) ELSE GetText(r0)
           n  == GetText(u)
           ps == GetProperties(n)
           q  == IF v >= 759 THEN IfLeft(1, n, ps, <<>>) ELSE With(n, <<>>)
           id == GetRaw(16, q)
           g  == IF v >= 776 THEN With(id, <<id.val>>) ELSE With(q, <<>>)
           y  == [uuid |-> SubSeq(u.val, 1, 16), username |-> n.val, properties |-> q.val,
                  session_id |-> g.val]
           full == [uuid |-> x.uuid, username |-> x.username, properties |-> x.properties,
                    session_id |-> <<>>]
           none == [uuid |-> x.uuid, username |-> x.username, properties |-> <<>>,
                    session_id |-> <<>>]
           L  == IF v >= 707 THEN 16 ELSE 36
           d  == decode_login_success(RawPacket(2, b), v)
           M  == Many(x.properties, WriteProperty)
<1>1. d = IF g.ok /\ g.rest = <<>> /\ Len(u.val) = L THEN Got(y, <<>>) ELSE Failed
  BY Zenon DEF decode_login_success, GetPropertiesIn, GetSessionId
<1>v. v >= 707 /\ v >= 759 /\ ~(v >= 776)
  OBVIOUS
<1>2. u = GetRaw(16, r0) /\ L = 16
  BY <1>v
<1>3. /\ At(GetText(GetRaw(16, r0)), x.username, M \o sid, m)
      /\ GetText(GetRaw(16, r0)) # Failed => GetRaw(16, r0).val = x.uuid
  BY Zenon DEF LoginNamed
<1> HIDE DEF r0, u, L
<1>4. At(n, x.username, M \o sid, m) /\ (n # Failed => u.val = x.uuid)
  BY <1>2, <1>3, Zenon
<1> HIDE DEF n
<1>s. sid \in Str
  BY Empty, Zenon
<1>m. M \in Str /\ 1 <= Len(M)
  BY PropertiesStr, Zenon
<1>5. At(ps, x.properties, sid, m) /\ (n = Failed => ps = Failed)
  BY <1>s, <1>4, PropertiesAt, Zenon
<1> HIDE DEF ps, M
<1>6. LeftAt(1, n, ps, <<>>, x.properties, sid, m)
  <2>1. 1 \in Nat
    OBVIOUS
  <2>2. QED
    BY <1>s, <1>4, <1>5, <1>m, <2>1, IfLeftAt, Zenon
<1>7. q = IfLeft(1, n, ps, <<>>)
  BY <1>v
<1> HIDE DEF q
<1>8. \/ At(q, x.properties, sid, m) /\ (n = Failed => q = Failed)
      \/ m # <<>> /\ q = Got(<<>>, n.rest) /\ n # Failed /\ Len(n.rest) < 1
  BY <1>6, <1>7, Zenon DEF LeftAt
<1>9. n # Failed => /\ n.val = x.username /\ SubSeq(u.val, 1, 16) = x.uuid
                    /\ Len(u.val) = L /\ n.rest \in Str
  BY <1>2, <1>4, AtParts, UuidFront, Zenon
<1> HIDE DEF id
<1>10. g = With(q, <<>>)
  BY <1>v
<1> HIDE DEF g, d
<1>12. CASE At(q, x.properties, sid, m) /\ (n = Failed => q = Failed)
  <2>1. At(g, <<>>, <<>>, m) /\ (q = Failed => g = Failed)
    BY <1>10, <1>12, AtParts, WithParts, Zenon
  <2>2. g # Failed => n # Failed /\ q.val = x.properties /\ g.val = <<>>
    BY <1>12, <2>1, AtVal, Zenon
  <2>3. g # Failed => y = full
    BY <1>9, <2>2, Zenon
  <2>4. g # Failed => Len(u.val) = L
    BY <1>9, <2>2, Zenon
  <2> HIDE DEF y, full
  <2>5. At(d, full, <<>>, m)
    <3>1. At(IF g.ok /\ g.rest = <<>> /\ Len(u.val) = L THEN Got(y, <<>>) ELSE Failed, full,
             <<>>, m)
      BY <2>1, <2>3, <2>4, WholeAt, Zenon
    <3>2. QED
      BY <1>1, <3>1, Zenon
  <2>6. QED
    BY <2>5, AtFits, Zenon DEF full, d
<1>13. CASE m # <<>> /\ q = Got(<<>>, n.rest) /\ n # Failed /\ Len(n.rest) < 1
  <2>1. g = Got(<<>>, n.rest)
    BY <1>10, <1>13, WithParts, Zenon
  <2>2. q.val = <<>> /\ g.val = <<>>
    BY <1>13, <2>1, GotParts, Zenon
  <2>3. y = none
    BY <1>9, <1>13, <2>2, Zenon
  <2>4. \A f \in DOMAIN full : none[f] = full[f] \/ Tolerated("LoginSuccess", f, none[f], full[f])
    <3>1. Tolerated("LoginSuccess", "properties", <<>>, x.properties)
      BY Zenon DEF Tolerated
    <3>2. QED
      BY <3>1, SMT
  <2> HIDE DEF y, full, none
  <2>5. d = Got(none, <<>>) \/ d = Failed
    BY <1>1, <2>3, Zenon
  <2>6. CASE d = Failed
    BY <1>13, <2>6, Zenon DEF Fits, d, full
  <2>7. CASE d = Got(none, <<>>)
    BY <1>13, <2>4, <2>7, LackFits, Zenon DEF d, full
  <2>8. QED
    BY <2>5, <2>6, <2>7, Zenon
<1>14. QED
  BY <1>8, <1>12, <1>13, Zenon

LEMMA LoginSuccessSession ==
  ASSUME NEW x, x.uuid \in Str, Len(x.uuid) = 16, x.properties \in Seq(Property),
         Len(x.properties) <= MaxInt32, NEW v \in Int, v >= 776,
         NEW sid \in Str, Len(sid) = 16,
         NEW b \in Str, NEW m \in Str,
         LoginNamed(b, x, Many(x.properties, WriteProperty) \o sid, m)
  PROVE  Fits(decode_login_success(RawPacket(2, b), v),
              [uuid |-> x.uuid, username |-> x.username, properties |-> x.properties,
               session_id |-> <<sid>>], "LoginSuccess", m)
<1> DEFINE r0 == Decoder(RawPacket(2, b), {2})
           u  == IF v >= 707 THEN GetRaw(16, r0) ELSE GetText(r0)
           n  == GetText(u)
           ps == GetProperties(n)
           q  == IF v >= 759 THEN IfLeft(1, n, ps, <<>>) ELSE With(n, <<>>)
           id == GetRaw(16, q)
           g  == IF v >= 776 THEN With(id, <<id.val>>) ELSE With(q, <<>>)
           y  == [uuid |-> SubSeq(u.val, 1, 16), username |-> n.val, properties |-> q.val,
                  session_id |-> g.val]
           full == [uuid |-> x.uuid, username |-> x.username, properties |-> x.properties,
                    session_id |-> <<sid>>]
           L  == IF v >= 707 THEN 16 ELSE 36
           d  == decode_login_success(RawPacket(2, b), v)
           M  == Many(x.properties, WriteProperty)
<1>1. d = IF g.ok /\ g.rest = <<>> /\ Len(u.val) = L THEN Got(y, <<>>) ELSE Failed
  BY Zenon DEF decode_login_success, GetPropertiesIn, GetSessionId
<1>v. v >= 707 /\ v >= 759 /\ v >= 776
  OBVIOUS
<1>2. u = GetRaw(16, r0) /\ L = 16
  BY <1>v
<1>3. /\ At(GetText(GetRaw(16, r0)), x.username, M \o sid, m)
      /\ GetText(GetRaw(16, r0)) # Failed => GetRaw(16, r0).val = x.uuid
  BY Zenon DEF LoginNamed
<1> HIDE DEF r0, u, L
<1>4. At(n, x.username, M \o sid, m) /\ (n # Failed => u.val = x.uuid)
  BY <1>2, <1>3, Zenon
<1> HIDE DEF n
<1>s. sid \in Str
  BY Empty, Zenon
<1>m. M \in Str /\ 1 <= Len(M)
  BY PropertiesStr, Zenon
<1>5. At(ps, x.properties, sid, m) /\ (n = Failed => ps = Failed)
  BY <1>s, <1>4, PropertiesAt, Zenon
<1> HIDE DEF ps, M
<1>6. LeftAt(1, n, ps, <<>>, x.properties, sid, m)
  <2>1. 1 \in Nat
    OBVIOUS
  <2>2. QED
    BY <1>s, <1>4, <1>5, <1>m, <2>1, IfLeftAt, Zenon
<1>7. q = IfLeft(1, n, ps, <<>>)
  BY <1>v
<1> HIDE DEF q
<1>8. \/ At(q, x.properties, sid, m) /\ (n = Failed => q = Failed)
      \/ m # <<>> /\ q = Got(<<>>, n.rest) /\ n # Failed /\ Len(n.rest) < 1
  BY <1>6, <1>7, Zenon DEF LeftAt
<1>9. n # Failed => /\ n.val = x.username /\ SubSeq(u.val, 1, 16) = x.uuid
                    /\ Len(u.val) = L /\ n.rest \in Str
  BY <1>2, <1>4, AtParts, UuidFront, Zenon
<1>10. g = With(id, <<id.val>>)
  BY <1>v
<1> HIDE DEF g, d
<1>12. CASE At(q, x.properties, sid, m) /\ (n = Failed => q = Failed)
  <2>1. At(id, sid, <<>>, m) /\ (q = Failed => id = Failed)
    <3>1. sid \o <<>> = sid
      BY Empty, Zenon
    <3>2. At(q, x.properties, sid \o <<>>, m)
      BY <1>12, <3>1, Zenon
    <3>3. <<>> \in Str
      BY Empty, Zenon
    <3>4. At(id, sid, <<>>, m)
      BY <3>2, <3>3, RawNAt, Zenon
    <3>5. q = Failed => id = Failed
      BY Strict, Zenon
    <3>6. QED
      BY <3>4, <3>5, Zenon
  <2> HIDE DEF id
  <2>2. id # Failed => <<id.val>> = <<sid>>
    BY <2>1, AtVal, Zenon
  <2>3. At(g, <<sid>>, <<>>, m)
    BY <1>10, <2>1, <2>2, AtEnd, Zenon
  <2>3f. id = Failed => g = Failed
    BY <1>10, WithParts, Zenon
  <2>4. g # Failed => n # Failed /\ q.val = x.properties /\ g.val = <<sid>>
    BY <1>12, <2>1, <2>3, <2>3f, AtVal, Zenon
  <2>5. g # Failed => y = full
    BY <1>9, <2>4, Zenon
  <2>6. g # Failed => Len(u.val) = L
    BY <1>9, <2>4, Zenon
  <2> HIDE DEF y, full
  <2>7. At(d, full, <<>>, m)
    <3>1. At(IF g.ok /\ g.rest = <<>> /\ Len(u.val) = L THEN Got(y, <<>>) ELSE Failed, full,
             <<>>, m)
      BY <2>3, <2>5, <2>6, WholeAt, Zenon
    <3>2. QED
      BY <1>1, <3>1, Zenon
  <2>8. QED
    BY <2>7, AtFits, Zenon DEF full, d
<1>13. CASE m # <<>> /\ q = Got(<<>>, n.rest) /\ n # Failed /\ Len(n.rest) < 1
  <2>1. q.ok /\ q.rest = n.rest
    BY <1>13, GotParts, Zenon
  <2>2. id = Take(16, n.rest)
    BY <2>1, Zenon DEF GetRaw
  <2>3. Len(n.rest) < 16
    <3> DEFINE k == n.rest
    <3>1. k \in Str /\ Len(k) < 1
      BY <1>9, <1>13, Zenon
    <3>2. Len(k) \in Nat
      BY <3>1, Cat
    <3> HIDE DEF k
    <3>3. Len(k) < 16
      BY <3>1, <3>2
    <3>4. QED
      BY <3>3, Zenon DEF k
  <2>4. id = Failed
    BY <2>2, <2>3, Zenon DEF Take
  <2> HIDE DEF id
  <2>5. g = Failed
    BY <1>10, <2>4, WithParts, Zenon
  <2>6. d = Failed
    BY <1>1, <2>5, FailedParts, Zenon
  <2>7. QED
    BY <1>13, <2>6, Zenon DEF Fits, d
<1>14. QED
  BY <1>8, <1>12, <1>13, Zenon

LEMMA HyphenatedShape ==
  ASSUME NEW u \in Str, Len(u) = 16
  PROVE  Hyphenated(u) \in Field /\ Len(Hyphenated(u)) = 36 /\ SubSeq(Hyphenated(u), 1, 16) = u
<1> DEFINE h == [i \in 1 .. 20 |-> 45]
<1>1. h \in Str /\ Len(h) = 20
  BY DEF Str, Bytes
<1>2. Hyphenated(u) = u \o h
  BY Zenon DEF Hyphenated
<1> HIDE DEF h
<1>3. u \o h \in Str /\ Len(u \o h) = Len(u) + Len(h)
  BY <1>1, Cat, Zenon
<1> DEFINE k == Len(u \o h)
<1>4. k = 36
  <2>1. k = 16 + 20
    BY <1>1, <1>3, Zenon
  <2> HIDE DEF k
  <2>2. QED
    BY <2>1
<1>5. SubSeq(u \o h, 1, Len(u)) = u
  BY <1>1, CutFront DEF Str
<1>6. k <= MaxInt32
  <2> HIDE DEF k
  <2>1. QED
    BY <1>4 DEF MaxInt32
<1>7. QED
  BY <1>2, <1>3, <1>4, <1>5, <1>6, Zenon DEF Field

LEMMA LoginSuccessOld ==
  ASSUME NEW x, x.uuid \in Str, Len(x.uuid) = 16, x.username \in Field, NEW v \in Int, v < 707
  PROVE  \E p \in Str :
           /\ encode_login_success(x, v) = RawPacket(2, p)
           /\ \A b, m \in Str : b \o m = p =>
                At(decode_login_success(RawPacket(2, b), v),
                   [uuid |-> x.uuid, username |-> x.username, properties |-> <<>>,
                     session_id |-> <<>>], <<>>, m)
<1> DEFINE p == Text(Hyphenated(x.uuid)) \o Text(x.username)
           s1 == Text(x.username) \o <<>>
           s0 == Text(Hyphenated(x.uuid)) \o s1
<1>h. Hyphenated(x.uuid) \in Field /\ Len(Hyphenated(x.uuid)) = 36
  /\ SubSeq(Hyphenated(x.uuid), 1, 16) = x.uuid
  BY HyphenatedShape, Zenon
<1>v. ~(v >= 707) /\ ~(v >= 759) /\ ~(v >= 776)
  OBVIOUS
<1>1. Text(Hyphenated(x.uuid)) \in Str /\ Text(x.username) \in Str
  BY <1>h, TextShape, Zenon
<1>2. Flat2(Text(Hyphenated(x.uuid)), Text(x.username))
  BY <1>1, FlatIs2, Zenon
<1>3. p = s0 /\ p \in Str
  BY <1>2, Zenon DEF Flat2
<1>s1. s1 \in Str
  BY <1>2, Zenon DEF Flat2
<1>4. encode_login_success(x, v) = RawPacket(2, p)
  BY <1>v, Zenon DEF encode_login_success
<1>5. ASSUME NEW b \in Str, NEW m \in Str, b \o m = p
      PROVE  At(decode_login_success(RawPacket(2, b), v),
                [uuid |-> x.uuid, username |-> x.username, properties |-> <<>>,
                  session_id |-> <<>>], <<>>, m)
  <2> DEFINE r0 == Decoder(RawPacket(2, b), {2})
             u  == IF v >= 707 THEN GetRaw(16, r0) ELSE GetText(r0)
             n  == GetText(u)
             q  == IF v >= 759 THEN IfLeft(1, n, GetProperties(n), <<>>) ELSE With(n, <<>>)
             id == GetRaw(16, q)
             g  == IF v >= 776 THEN With(id, <<id.val>>) ELSE With(q, <<>>)
             y  == [uuid |-> SubSeq(u.val, 1, 16), username |-> n.val, properties |-> q.val,
                    session_id |-> g.val]
             full == [uuid |-> x.uuid, username |-> x.username, properties |-> <<>>,
                      session_id |-> <<>>]
             L  == IF v >= 707 THEN 16 ELSE 36
             d  == decode_login_success(RawPacket(2, b), v)
  <2>a. d = IF g.ok /\ g.rest = <<>> /\ Len(u.val) = L THEN Got(y, <<>>) ELSE Failed
    BY Zenon DEF decode_login_success, GetPropertiesIn, GetSessionId
  <2>b. u = GetText(r0) /\ L = 36
    BY <1>v
  <2>1. At(r0, <<>>, b \o m, m)
    BY DecoderAt, Zenon
  <2>2. At(r0, <<>>, s0, m)
    BY <1>3, <1>5, <2>1, Zenon
  <2> HIDE DEF r0
  <2>3. At(GetText(r0), Hyphenated(x.uuid), s1, m)
    BY <1>h, <1>s1, <2>2, TextAt, Zenon
  <2>c. At(u, Hyphenated(x.uuid), s1, m)
    BY <2>b, <2>3, Zenon
  <2> HIDE DEF u, L
  <2>4. At(n, x.username, <<>>, m)
    BY <2>c, TextAt, Empty, Zenon
  <2>f. u = Failed => n = Failed
    BY Strict, Zenon
  <2> HIDE DEF n
  <2>5. q = With(n, <<>>)
    BY <1>v
  <2> HIDE DEF q, id
  <2>6. g = With(q, <<>>)
    BY <1>v
  <2> HIDE DEF g, d
  <2>7. At(q, <<>>, <<>>, m) /\ (n = Failed => q = Failed)
    BY <2>4, <2>5, AtParts, WithParts, Zenon
  <2>8. At(g, <<>>, <<>>, m) /\ (q = Failed => g = Failed)
    BY <2>6, <2>7, AtParts, WithParts, Zenon
  <2>9. g # Failed => u.val = Hyphenated(x.uuid) /\ n.val = x.username /\ q.val = <<>>
        /\ g.val = <<>>
    BY <2>c, <2>4, <2>7, <2>8, <2>f, AtVal, Zenon
  <2>10. g # Failed => SubSeq(u.val, 1, 16) = x.uuid /\ Len(u.val) = L
    BY <1>h, <2>b, <2>9, Zenon
  <2>11. g # Failed => y = full
    BY <2>9, <2>10, Zenon
  <2>12. g # Failed => Len(u.val) = L
    BY <2>10, Zenon
  <2> HIDE DEF y, full
  <2>13. At(IF g.ok /\ g.rest = <<>> /\ Len(u.val) = L THEN Got(y, <<>>) ELSE Failed, full,
         <<>>, m)
    BY <2>8, <2>11, <2>12, WholeAt, Zenon
  <2>14. QED
    BY <2>a, <2>13, Zenon DEF d, full
<1> HIDE DEF p
<1>6. QED
  BY <1>3, <1>4, <1>5, Zenon

LEMMA DryReads == ASSUME NEW r, NEW x, NEW s, NEW m, Dry(r, x, s, m) PROVE Reads(r, x, m)
<1>1. CASE At(r, x, s, m)
  BY <1>1, AtReads, Zenon
<1>2. CASE m # <<>> /\ r = Got(x, <<>>)
  BY <1>2, Zenon DEF Reads
<1>3. QED
  BY <1>1, <1>2, Zenon DEF Dry

(* Reading e and nothing else fits, also where more may be missing. *)
LEMMA ReadsAll == ASSUME NEW r, NEW e, NEW kind, NEW m, Reads(r, e, m) PROVE Fits(r, e, kind, m)
BY Zenon DEF Reads, Fits

LEMMA TabCompleteResponseRead ==
  ASSUME NEW x, x.transaction_id \in Int32, x.start \in Int32, x.length \in Int32,
         x.matches \in Seq(Field), Len(x.matches) <= MaxMatches, NEW v
  PROVE  \E p \in Str :
           /\ encode_tab_complete_response(x, v) = RawPacket(TabCompleteResponseId(v), p)
           /\ \A b, m \in Str : b \o m = p =>
                Fits(decode_tab_complete_response(RawPacket(TabCompleteResponseId(v), b), v),
                     [transaction_id |-> x.transaction_id, start |-> x.start,
                       length |-> x.length, matches |-> x.matches],
                     "TabCompleteResponse", m)
<1> DEFINE p == encode_varint(x.transaction_id) \o encode_varint(x.start)
    \o encode_varint(x.length) \o Many(x.matches, WriteMatch)
           s3 == Many(x.matches, WriteMatch) \o <<>>
           s2 == encode_varint(x.length) \o s3
           s1 == encode_varint(x.start) \o s2
           s0 == encode_varint(x.transaction_id) \o s1
<1>m. Many(x.matches, WriteMatch) \in Str
  BY MatchesStr, Zenon
<1>0. TabCompleteResponseId(v) \in {TabCompleteResponseId(v), 15, 16}
  OBVIOUS
<1>1. encode_varint(x.transaction_id) \in Str /\ encode_varint(x.start) \in Str
      /\ encode_varint(x.length) \in Str /\ Many(x.matches, WriteMatch) \in Str
  BY <1>m, VarIntShape, Zenon
<1>2. Flat4(encode_varint(x.transaction_id), encode_varint(x.start), encode_varint(x.length),
      Many(x.matches, WriteMatch))
  BY <1>1, FlatIs4, Zenon
<1>3. p = s0 /\ p \in Str
  BY <1>2, Zenon DEF Flat4
<1>s1. s1 \in Str
  BY <1>2, Zenon DEF Flat4
<1>s2. s2 \in Str
  BY <1>2, Zenon DEF Flat4
<1>s3. s3 \in Str
  BY <1>2, Zenon DEF Flat4
<1>4. encode_tab_complete_response(x, v) = RawPacket(TabCompleteResponseId(v), p)
  BY Zenon DEF encode_tab_complete_response
<1>5. ASSUME NEW b \in Str, NEW m \in Str, b \o m = p
      PROVE  Fits(decode_tab_complete_response(RawPacket(TabCompleteResponseId(v), b), v),
                  [transaction_id |-> x.transaction_id, start |-> x.start,
                    length |-> x.length, matches |-> x.matches],
                  "TabCompleteResponse", m)
  <2> DEFINE r0 == Decoder(RawPacket(TabCompleteResponseId(v), b),
      {TabCompleteResponseId(v), 15, 16})
             r1 == GetVarInt(r0)
             r2 == GetVarInt(r1)
             r3 == GetVarInt(r2)
             g  == GetMany(r3, MaxMatches, GetMatch)
             y  == [transaction_id |-> r1.val, start |-> r2.val, length |-> r3.val,
                   matches |-> g.val]
  <2>1. At(r0, <<>>, b \o m, m)
    BY <1>0, DecoderAt, Zenon
  <2>2. At(r0, <<>>, s0, m)
    BY <1>3, <1>5, <2>1, Zenon
  <2> HIDE DEF r0
  <2>3. At(r1, x.transaction_id, s1, m)
    BY <1>s1, <2>2, VarIntAt, Zenon
  <2>4. At(r2, x.start, s2, m)
    BY <1>s2, <2>3, VarIntAt, Zenon
  <2>5. At(r3, x.length, s3, m)
    BY <1>s3, <2>4, VarIntAt, Zenon
  <2>f. (r1 = Failed => r2 = Failed) /\ (r2 = Failed => r3 = Failed)
    BY Strict, Zenon
  <2> DEFINE full == [transaction_id |-> x.transaction_id, start |-> x.start,
      length |-> x.length, matches |-> x.matches]
  <2>a. Dry(g, x.matches, <<>>, m) /\ (r3 = Failed => g = Failed)
    BY <2>5, MatchesAt, Empty, Zenon
  <2>b. decode_tab_complete_response(RawPacket(TabCompleteResponseId(v), b), v) = With(g, y)
    BY Zenon DEF decode_tab_complete_response, r0
  <2> HIDE DEF r1, r2, r3, g
  <2>c. Reads(g, x.matches, m)
    BY <2>a, DryReads, Zenon
  <2>d. g # Failed => r1.val = x.transaction_id /\ r2.val = x.start /\ r3.val = x.length
    /\ g.val = x.matches
    BY <2>3, <2>4, <2>5, <2>f, <2>a, <2>c, AtVal, ReadsVal, Zenon
  <2>e. g # Failed => y = full
    BY <2>d, Zenon
  <2> HIDE DEF y, full
  <2>g. Reads(With(g, y), full, m)
    BY <2>c, <2>e, ReadsEnd, Zenon
  <2>h. QED
    BY <2>b, <2>g, ReadsAll, Zenon DEF full
<1> HIDE DEF p
<1>6. QED
  BY <1>3, <1>4, <1>5, Zenon

(* A part that is there only if a flag says so. *)
LEMMA StopSoundRead ==
  ASSUME NEW x, x.flags \in Bytes, x.source \in Opts(Int32), x.sound \in Opts(Field),
         Bit(x.flags, 1) <=> x.source # <<>>, Bit(x.flags, 2) <=> x.sound # <<>>, NEW v \in Int
  PROVE  \E p \in Str :
           /\ encode_stop_sound(x, v) = RawPacket(Only(StopSoundId(v)), p)
           /\ \A b, m \in Str : b \o m = p =>
                At(decode_stop_sound(RawPacket(Only(StopSoundId(v)), b), v),
                   [flags |-> x.flags, source |-> x.source, sound |-> x.sound], <<>>, m)
<1> DEFINE A  == IF Bit(x.flags, 1) /\ x.source # <<>> THEN encode_varint(x.source[1]) ELSE <<>>
           B  == IF Bit(x.flags, 2) /\ x.sound # <<>> THEN Text(x.sound[1]) ELSE <<>>
           p  == <<x.flags>> \o A \o B
           s2 == B \o <<>>
           s1 == A \o s2
           s0 == <<x.flags>> \o s1
           i  == Only(StopSoundId(v))
<1>0. i \in StopSoundId(v)
  BY IdsKnown, Zenon
<1>1. encode_stop_sound(x, v) = RawPacket(i, p)
  BY Zenon DEF encode_stop_sound
<1>a. \/ ~Bit(x.flags, 1) /\ x.source = <<>> /\ A = <<>>
      \/ Bit(x.flags, 1) /\ \E k \in Int32 : x.source = <<k>> /\ A = encode_varint(k)
  <2>1. \A k : <<k>> # <<>> /\ <<k>>[1] = k
    OBVIOUS
  <2>2. CASE x.source = <<>>
    BY <2>2, Zenon
  <2>3. CASE x.source # <<>>
    <3>1. PICK k \in Int32 : x.source = <<k>>
      BY <2>3, Zenon DEF Opts
    <3>2. x.source[1] = k
      BY <2>1, <3>1, Zenon
    <3>3. A = encode_varint(k) /\ Bit(x.flags, 1)
      BY <2>3, <3>2, Zenon
    <3>4. QED
      BY <3>1, <3>3, Zenon
  <2>4. QED
    BY <2>2, <2>3, Zenon
<1>b. \/ ~Bit(x.flags, 2) /\ x.sound = <<>> /\ B = <<>>
      \/ Bit(x.flags, 2) /\ \E t \in Field : x.sound = <<t>> /\ B = Text(t)
  <2>1. \A k : <<k>> # <<>> /\ <<k>>[1] = k
    OBVIOUS
  <2>2. CASE x.sound = <<>>
    BY <2>2, Zenon
  <2>3. CASE x.sound # <<>>
    <3>1. PICK k \in Field : x.sound = <<k>>
      BY <2>3, Zenon DEF Opts
    <3>2. x.sound[1] = k
      BY <2>1, <3>1, Zenon
    <3>3. B = Text(k) /\ Bit(x.flags, 2)
      BY <2>3, <3>2, Zenon
    <3>4. QED
      BY <3>1, <3>3, Zenon
  <2>4. QED
    BY <2>2, <2>3, Zenon
<1> HIDE DEF A, B, i
<1>2. A \in Str /\ B \in Str /\ <<x.flags>> \in Str
  <2>1. A \in Str
    BY <1>a, Empty, VarIntShape, Zenon
  <2>2. B \in Str
    BY <1>b, Empty, TextShape, Zenon
  <2>3. <<x.flags>> \in Str
    BY OneByte, Zenon
  <2>4. QED
    BY <2>1, <2>2, <2>3, Zenon
<1>3. Flat3(<<x.flags>>, A, B)
  BY <1>2, FlatIs3, Zenon
<1>4. p = s0 /\ p \in Str
  BY <1>3, Zenon DEF Flat3
<1>s1. s1 \in Str
  BY <1>3, Zenon DEF Flat3
<1>s2. s2 \in Str
  BY <1>3, Zenon DEF Flat3
<1>5. ASSUME NEW b \in Str, NEW m \in Str, b \o m = p
      PROVE  At(decode_stop_sound(RawPacket(i, b), v),
                [flags |-> x.flags, source |-> x.source, sound |-> x.sound], <<>>, m)
  <2> DEFINE r0 == Decoder(RawPacket(i, b), StopSoundId(v))
             r1 == GetU8(r0)
             r2 == IF r1.ok /\ Bit(r1.val, 1) THEN GetVarInt(r1) ELSE r1
             r3 == IF r1.ok /\ Bit(r1.val, 2) THEN GetText(r2) ELSE r2
             y  == [flags |-> r1.val,
                    source |-> IF r1.ok /\ Bit(r1.val, 1) THEN <<r2.val>> ELSE <<>>,
                    sound |-> IF r1.ok /\ Bit(r1.val, 2) THEN <<r3.val>> ELSE <<>>]
             full == [flags |-> x.flags, source |-> x.source, sound |-> x.sound]
  <2>1. decode_stop_sound(RawPacket(i, b), v) = With(r3, y)
    BY Zenon DEF decode_stop_sound
  <2>2. At(r0, <<>>, b \o m, m)
    BY <1>0, DecoderAt, Zenon
  <2>3. At(r0, <<>>, s0, m)
    BY <1>4, <1>5, <2>2, Zenon
  <2> HIDE DEF r0
  <2>4. At(r1, x.flags, s1, m)
    BY <1>s1, <2>3, U8At, Zenon
  <2> HIDE DEF r1
  <2>5. CASE r1 = Failed
    <3>1. ~r1.ok /\ m # <<>>
      BY <2>4, <2>5, AtFailed, Zenon
    <3>2. r2 = Failed
      BY <2>5, <3>1, Zenon
    <3> HIDE DEF r2
    <3>3. r3 = Failed
      BY <3>1, <3>2, Zenon
    <3> HIDE DEF r3, y
    <3>4. With(r3, y) = Failed
      BY <3>3, WithParts, Zenon
    <3>5. QED
      BY <2>1, <3>1, <3>4, Zenon DEF At
  <2>6. CASE r1 # Failed
    <3>1. r1.ok /\ r1.val = x.flags
      BY <2>4, <2>6, AtVal, Zenon
    <3>2. \E k : /\ At(r2, k, s2, m) /\ (r2 # Failed => r2.val = k)
                 /\ (IF r1.ok /\ Bit(r1.val, 1) THEN <<k>> ELSE <<>>) = x.source
      <4>1. CASE ~Bit(x.flags, 1) /\ x.source = <<>> /\ A = <<>>
        <5>1. r2 = r1 /\ s1 = s2
          BY <1>s2, <3>1, <4>1, Empty, Zenon
        <5>2. At(r2, x.flags, s2, m)
          BY <2>4, <5>1, Zenon
        <5>3. r2.val = x.flags
          BY <3>1, <5>1, Zenon
        <5>4. (IF r1.ok /\ Bit(r1.val, 1) THEN <<x.flags>> ELSE <<>>) = x.source
          BY <3>1, <4>1, Zenon
        <5> HIDE DEF r2
        <5>5. QED
          BY <5>2, <5>3, <5>4, Zenon
      <4>2. CASE Bit(x.flags, 1) /\ \E k \in Int32 : x.source = <<k>> /\ A = encode_varint(k)
        <5>1. PICK k \in Int32 : x.source = <<k>> /\ A = encode_varint(k)
          BY <4>2, Zenon
        <5>2. r2 = GetVarInt(r1)
          BY <3>1, <4>2, Zenon
        <5> HIDE DEF r2
        <5>3. At(r1, x.flags, encode_varint(k) \o s2, m)
          BY <2>4, <5>1, Zenon
        <5> HIDE DEF s2
        <5>4. At(GetVarInt(r1), k, s2, m)
          BY <1>s2, <5>3, VarIntAt, Zenon
        <5>5. At(r2, k, s2, m)
          BY <5>2, <5>4, Zenon
        <5>6. r2 # Failed => r2.val = k
          BY <5>5, AtVal, Zenon
        <5>7. (IF r1.ok /\ Bit(r1.val, 1) THEN <<k>> ELSE <<>>) = x.source
          BY <3>1, <4>2, <5>1, Zenon
        <5>8. QED
          BY <5>5, <5>6, <5>7, Zenon
      <4>3. QED
        BY <1>a, <4>1, <4>2, Zenon
    <3>3. PICK k : /\ At(r2, k, s2, m) /\ (r2 # Failed => r2.val = k)
                   /\ (IF r1.ok /\ Bit(r1.val, 1) THEN <<k>> ELSE <<>>) = x.source
      BY <3>2, Zenon
    <3> HIDE DEF r2
    <3>4. \E t : /\ At(r3, t, <<>>, m) /\ (r3 # Failed => r3.val = t) /\ (r2 = Failed => r3 = Failed)
                 /\ (IF r1.ok /\ Bit(r1.val, 2) THEN <<t>> ELSE <<>>) = x.sound
      <4>1. CASE ~Bit(x.flags, 2) /\ x.sound = <<>> /\ B = <<>>
        <5>1. r3 = r2 /\ s2 = <<>>
          BY <1>2, <3>1, <4>1, Empty, Zenon
        <5>2. At(r3, k, <<>>, m)
          BY <3>3, <5>1, Zenon
        <5>3. (r3 # Failed => r3.val = k) /\ (r2 = Failed => r3 = Failed)
          BY <3>3, <5>1, Zenon
        <5>4. (IF r1.ok /\ Bit(r1.val, 2) THEN <<k>> ELSE <<>>) = x.sound
          BY <3>1, <4>1, Zenon
        <5> HIDE DEF r3
        <5>5. QED
          BY <5>2, <5>3, <5>4, Zenon
      <4>2. CASE Bit(x.flags, 2) /\ \E t \in Field : x.sound = <<t>> /\ B = Text(t)
        <5>1. PICK t \in Field : x.sound = <<t>> /\ B = Text(t)
          BY <4>2, Zenon
        <5>2. r3 = GetText(r2)
          BY <3>1, <4>2, Zenon
        <5> HIDE DEF r3
        <5>3. At(r2, k, Text(t) \o <<>>, m)
          BY <3>3, <5>1, Zenon
        <5>e. <<>> \in Str
          BY Empty, Zenon
        <5>4. At(GetText(r2), t, <<>>, m) /\ (r2 = Failed => GetText(r2) = Failed)
          BY <5>3, <5>e, TextAt, Zenon
        <5>5. At(r3, t, <<>>, m) /\ (r2 = Failed => r3 = Failed)
          BY <5>2, <5>4, Zenon
        <5>6. r3 # Failed => r3.val = t
          BY <5>5, AtVal, Zenon
        <5>7. (IF r1.ok /\ Bit(r1.val, 2) THEN <<t>> ELSE <<>>) = x.sound
          BY <3>1, <4>2, <5>1, Zenon
        <5>8. QED
          BY <5>5, <5>6, <5>7, Zenon
      <4>3. QED
        BY <1>b, <4>1, <4>2, Zenon
    <3>5. PICK t : /\ At(r3, t, <<>>, m) /\ (r3 # Failed => r3.val = t) /\ (r2 = Failed => r3 = Failed)
                   /\ (IF r1.ok /\ Bit(r1.val, 2) THEN <<t>> ELSE <<>>) = x.sound
      BY <3>4, Zenon
    <3> HIDE DEF r3
    <3>6. r3 # Failed => r2.val = k /\ r3.val = t
      BY <3>3, <3>5, Zenon
    <3>7. r3 # Failed => y = full
      <4>1. r3 # Failed => y = [flags |-> x.flags,
                    source |-> IF r1.ok /\ Bit(r1.val, 1) THEN <<k>> ELSE <<>>,
                    sound |-> IF r1.ok /\ Bit(r1.val, 2) THEN <<t>> ELSE <<>>]
        BY <3>1, <3>6, Zenon
      <4>2. QED
        BY <3>3, <3>5, <4>1, Zenon
    <3> HIDE DEF y, full
    <3>8. At(With(r3, y), full, <<>>, m)
      BY <3>5, <3>7, AtEnd, Zenon
    <3>9. QED
      BY <2>1, <3>8, Zenon DEF full
  <2>7. QED
    BY <2>5, <2>6, Zenon
<1> HIDE DEF p
<1>6. QED
  BY <1>1, <1>4, <1>5, Zenon DEF i

-----------------------------------------------------------------------------
Bools == BOOLEAN

LEMMA BoolsStr == ASSUME NEW x \in Bools PROVE Flag(x) \in Str
BY FlagStr, Zenon DEF Bools

LEMMA BoolsAt ==
  ASSUME NEW r, NEW u, NEW x \in Bools, NEW s \in Str, NEW m \in Str, At(r, u, Flag(x) \o s, m)
  PROVE  At(GetBool(r), x, s, m) /\ (r = Failed => GetBool(r) = Failed)
<1>1. x \in BOOLEAN
  BY DEF Bools
<1>2. QED
  BY <1>1, BoolAt

(* The world of a Login (Play) or of a Respawn. *)
World == [hashed_seed : {s \in Str : Len(s) = 8}, gamemode : Bytes,
         previous_gamemode : -128 .. 127,
          is_debug : Bools, is_flat : Bools]

LEMMA I8Byte == ASSUME NEW x \in -128 .. 127 PROVE <<x % 256>> \in Str
<1>1. x % 256 \in Bytes
  BY SMT DEF Bytes
<1>2. QED
  BY <1>1, OneByte, Zenon

LEMMA WorldFieldsAt ==
  ASSUME NEW r, NEW u, NEW a \in Str, Len(a) = 8, NEW g \in Bytes, NEW h \in -128 .. 127,
         NEW d \in Bools, NEW f \in Bools,
         NEW s \in Str, NEW m \in Str,
         At(r, u, a \o (<<g>> \o (<<h % 256>> \o (Flag(d) \o (Flag(f) \o s)))), m)
  PROVE  At(GetWorld(r), [hashed_seed |-> a, gamemode |-> g, previous_gamemode |-> h,
         is_debug |-> d, is_flat |-> f], s, m) /\ (r = Failed => GetWorld(r) = Failed)
<1> DEFINE s4 == Flag(f) \o s
           s3 == Flag(d) \o s4
           s2 == <<h % 256>> \o s3
           s1 == <<g>> \o s2
           r1 == GetRaw(8, r)
           r2 == GetU8(r1)
           r3 == GetI8(r2)
           r4 == GetBool(r3)
           r5 == GetBool(r4)
           y  == [hashed_seed |-> r1.val, gamemode |-> r2.val, previous_gamemode |-> r3.val,
                 is_debug |-> r4.val, is_flat |-> r5.val]
<1>w. a \in Str /\ <<g>> \in Str /\ <<h % 256>> \in Str /\ Flag(d) \in Str /\ Flag(f) \in Str
  BY I8Byte, OneByte, BoolsStr, Zenon
<1>s4. s4 \in Str
  BY <1>w, Cat, Zenon
<1>s3. s3 \in Str
  BY <1>w, <1>s4, Cat, Zenon
<1>s2. s2 \in Str
  BY <1>w, <1>s3, Cat, Zenon
<1>s1. s1 \in Str
  BY <1>w, <1>s2, Cat, Zenon
<1>1. At(r1, a, s1, m)
  BY <1>w, <1>s1, RawNAt, Zenon
<1>2. At(r2, g, s2, m)
  BY <1>w, <1>s2, <1>1, U8At, Zenon
<1>3. At(r3, h, s3, m)
  BY <1>w, <1>s3, <1>2, I8At, Zenon
<1>4. At(r4, d, s4, m)
  BY <1>w, <1>s4, <1>3, BoolsAt, Zenon
<1>5. At(r5, f, s, m)
  BY <1>w, <1>4, BoolsAt, Zenon
<1>f. (r = Failed => r1 = Failed) /\ (r1 = Failed => r2 = Failed) /\ (r2 = Failed => r3 =
  Failed) /\ (r3 = Failed => r4 = Failed) /\ (r4 = Failed => r5 = Failed)
  BY Strict, Zenon
<1>e. GetWorld(r) = With(r5, y)
  BY Zenon DEF GetWorld
<1> HIDE DEF r1, r2, r3, r4, r5
<1>g. r5 # Failed => r1.val = a /\ r2.val = g /\ r3.val = h /\ r4.val = d /\ r5.val = f
  BY <1>1, <1>2, <1>3, <1>4, <1>5, <1>f, AtVal, Zenon
<1>h. r5 # Failed => y = [hashed_seed |-> a, gamemode |-> g, previous_gamemode |-> h,
  is_debug |-> d, is_flat |-> f]
  BY <1>g, Zenon
<1> HIDE DEF y
<1>i. At(With(r5, y), [hashed_seed |-> a, gamemode |-> g, previous_gamemode |-> h,
  is_debug |-> d, is_flat |-> f], s, m)
  BY <1>5, <1>h, AtEnd, Zenon
<1>j. r = Failed => With(r5, y) = Failed
  BY <1>f, WithParts, Zenon
<1>k. QED
  BY <1>e, <1>i, <1>j, Zenon

(* The place of death: it is read and not kept. *)
Death == [dimension : Field, position : {s \in Str : Len(s) = 8}]

LEMMA DeathShape == ASSUME NEW o \in Opts(Death) PROVE WriteDeath(o) \in Str
<1>1. CASE o = <<>>
  <2>1. WriteDeath(o) = <<0>> /\ 0 \in Bytes
    BY <1>1 DEF WriteDeath, Bytes
  <2>2. QED
    BY <2>1, OneByte, Zenon
<1>2. CASE o # <<>>
  <2>1. PICK d \in Death : o = <<d>>
    BY <1>2, Zenon DEF Opts
  <2>2. o[1] = d
    BY <2>1
  <2>3. d.dimension \in Field /\ d.position \in Str
    BY SMT DEF Death
  <2>4. Text(d.dimension) \in Str
    BY <2>3, TextShape, Zenon
  <2>5. 1 \in Bytes
    BY DEF Bytes
  <2>6. <<1>> \in Str
    BY <2>5, OneByte, Zenon
  <2>7. <<1>> \o Text(d.dimension) \in Str
    BY <2>4, <2>6, Cat, Zenon
  <2>8. (<<1>> \o Text(d.dimension)) \o d.position \in Str
    BY <2>3, <2>7, Cat, Zenon
  <2>9. QED
    BY <1>2, <2>2, <2>8, Zenon DEF WriteDeath
<1>3. QED
  BY <1>1, <1>2, Zenon

LEMMA DeathAt ==
  ASSUME NEW r, NEW u, NEW o \in Opts(Death), NEW s \in Str, NEW m \in Str,
         At(r, u, WriteDeath(o) \o s, m)
  PROVE  /\ At(GetDeath(r), IF o = <<>> THEN FALSE ELSE o[1].position, s, m)
         /\ (r = Failed => GetDeath(r) = Failed)
<1> DEFINE some == GetBool(r)
           x    == GetText(some)
           y    == GetRaw(8, x)
<1>1. GetDeath(r) = IF some.ok /\ some.val THEN y ELSE some
  BY Zenon DEF GetDeath
<1>2. CASE o = <<>>
  <2>1. WriteDeath(o) = Flag(FALSE)
    BY <1>2 DEF WriteDeath, Flag
  <2>2. At(r, u, Flag(FALSE) \o s, m)
    BY <2>1, Zenon
  <2>3. At(some, FALSE, s, m) /\ (r = Failed => some = Failed)
    BY <2>2, BoolAt, Zenon
  <2> HIDE DEF some
  <2>4. ~(some.ok /\ some.val)
    BY <2>3, AtVal, AtFailed, Zenon
  <2>5. GetDeath(r) = some
    BY <1>1, <2>4, Zenon
  <2>6. QED
    BY <1>2, <2>3, <2>5, Zenon
<1>3. CASE o # <<>>
  <2>1. PICK d \in Death : o = <<d>>
    BY <1>3, Zenon DEF Opts
  <2>2. o[1] = d
    BY <2>1
  <2> DEFINE t == d.dimension
             q == d.position
  <2>3. t \in Field /\ q \in Str /\ Len(q) = 8
    BY SMT DEF Death
  <2>4. WriteDeath(o) = <<1>> \o Text(t) \o q
    BY <1>3, <2>2, Zenon DEF WriteDeath
  <2>5. <<1>> = Flag(TRUE)
    BY DEF Flag
  <2> HIDE DEF t, q
  <2>6. Flag(TRUE) \in Str /\ Text(t) \in Str
    BY <2>3, FlagStr, TextShape, Zenon
  <2>7. q \o s \in Str /\ Flag(TRUE) \o Text(t) \in Str
    BY <2>3, <2>6, Cat, Zenon
  <2>8. Text(t) \o (q \o s) \in Str
    BY <2>6, <2>7, Cat, Zenon
  <2>9. AssocIs(Flag(TRUE) \o Text(t), q, s) /\ AssocIs(Flag(TRUE), Text(t), q \o s)
    BY <2>3, <2>6, <2>7, Assoc, Zenon
  <2>10. WriteDeath(o) \o s = Flag(TRUE) \o (Text(t) \o (q \o s))
    BY <2>4, <2>5, <2>9, Zenon DEF AssocIs
  <2>11. At(r, u, Flag(TRUE) \o (Text(t) \o (q \o s)), m)
    BY <2>10, Zenon
  <2>12. At(some, TRUE, Text(t) \o (q \o s), m) /\ (r = Failed => some = Failed)
    BY <2>8, <2>11, BoolAt, Zenon
  <2>13. At(x, t, q \o s, m) /\ (some = Failed => x = Failed)
    BY <2>3, <2>7, <2>12, TextAt, Zenon
  <2>14. At(y, q, s, m) /\ (x = Failed => y = Failed)
    BY <2>3, <2>13, RawNAt, Zenon
  <2> HIDE DEF some, x, y
  <2>15. CASE some = Failed
    <3>1. GetDeath(r) = Failed
      BY <1>1, <2>15, FailedParts, Zenon
    <3>2. QED
      BY <2>12, <2>15, <3>1, AtFailed, Zenon
  <2>16. CASE some # Failed
    <3>1. GetDeath(r) = y
      BY <1>1, <2>12, <2>16, AtVal, Zenon
    <3>2. QED
      BY <1>3, <2>2, <2>12, <2>14, <2>16, <3>1, Zenon DEF q
  <2>17. QED
    BY <2>15, <2>16, Zenon
<1>4. QED
  BY <1>2, <1>3, Zenon

LEMMA DeathStrict == GetDeath(Failed) = Failed /\ GetWorld(Failed) = Failed
<1>1. GetDeath(Failed) = Failed
  BY Strict, FailedParts, Zenon DEF GetDeath
<1>2. GetWorld(Failed) = Failed
  BY Strict, WithParts, Zenon DEF GetWorld
<1>3. QED
  BY <1>1, <1>2

(* The bytes that describe the world, from 766 on; sea_level is there from 768 on. *)
SeaLevel(n, v) == IF v >= 768 THEN encode_varint(n) ELSE <<>>

SpawnBytes(d, t, a, g, h, k, f, o, c, n, v, s) ==
  encode_varint(d) \o (Text(t) \o (a \o (<<g>> \o (<<h % 256>> \o (Flag(k) \o (Flag(f) \o
    (WriteDeath(o) \o (encode_varint(c) \o (SeaLevel(n, v) \o s)))))))))

Passed(r, s, m) == \E x : At(r, x, s, m)

PastSeaLevel(r, v) == IF v >= 768 THEN GetVarInt(r) ELSE r

LEMMA SeaLevelAt ==
  ASSUME NEW r, NEW u, NEW n \in Int32, NEW v \in Int, NEW s \in Str, NEW m \in Str,
         At(r, u, SeaLevel(n, v) \o s, m)
  PROVE  Passed(PastSeaLevel(r, v), s, m)
<1>1. CASE v >= 768
  <2>1. SeaLevel(n, v) = encode_varint(n)
    BY <1>1 DEF SeaLevel
  <2>2. At(r, u, encode_varint(n) \o s, m)
    BY <2>1, Zenon
  <2>3. At(GetVarInt(r), n, s, m)
    BY <2>2, VarIntAt, Zenon
  <2>4. PastSeaLevel(r, v) = GetVarInt(r)
    BY <1>1 DEF PastSeaLevel
  <2>5. QED
    BY <2>3, <2>4, Zenon DEF Passed
<1>2. CASE ~(v >= 768)
  <2>1. SeaLevel(n, v) = <<>>
    BY <1>2 DEF SeaLevel
  <2>2. At(r, u, s, m)
    BY <2>1, Empty, Zenon
  <2>4. PastSeaLevel(r, v) = r
    BY <1>2 DEF PastSeaLevel
  <2>5. QED
    BY <2>2, <2>4, Zenon DEF Passed
<1>3. QED
  BY <1>1, <1>2, Zenon

LEMMA SeaLevelStr == ASSUME NEW n \in Int32, NEW v PROVE SeaLevel(n, v) \in Str
BY Empty, VarIntShape, Zenon DEF SeaLevel

LEMMA SpawnInfoAt ==
  ASSUME NEW r, NEW u, NEW d \in Int32, NEW t \in Field, NEW a \in Str, Len(a) = 8,
         NEW g \in Bytes, NEW h \in -128 .. 127, NEW k \in Bools, NEW f \in Bools,
         NEW o \in Opts(Death), NEW c \in Int32, NEW n \in Int32, NEW v \in Int,
         NEW s \in Str, NEW m \in Str,
           At(r, u, SpawnBytes(d, t, a, g, h, k, f, o, c, n, v, s), m)
  PROVE  At(GetSpawnInfo(r, v),
            [dimension_name |-> t,
             world |-> [hashed_seed |-> a, gamemode |-> g, previous_gamemode |-> h,
                        is_debug |-> k, is_flat |-> f]], s, m)
<1> DEFINE s9 == SeaLevel(n, v) \o s
           s8 == encode_varint(c) \o s9
           s7 == WriteDeath(o) \o s8
           s6 == Flag(f) \o s7
           s5 == Flag(k) \o s6
           s4 == <<h % 256>> \o s5
           s3 == <<g>> \o s4
           s2 == a \o s3
           s1 == Text(t) \o s2
           w  == [hashed_seed |-> a, gamemode |-> g, previous_gamemode |-> h,
                  is_debug |-> k, is_flat |-> f]
           r1 == GetVarInt(r)
           r2 == GetText(r1)
           r3 == GetWorld(r2)
           r4 == GetDeath(r3)
           r5 == GetVarInt(r4)
           r6 == IF v >= 768 THEN GetVarInt(r5) ELSE r5
           y  == [dimension_name |-> r2.val, world |-> r3.val]
<1>w. /\ SeaLevel(n, v) \in Str /\ encode_varint(c) \in Str /\ WriteDeath(o) \in Str
      /\ Flag(f) \in Str /\ Flag(k) \in Str /\ <<h % 256>> \in Str /\ <<g>> \in Str
      /\ Text(t) \in Str
  BY SeaLevelStr, VarIntShape, DeathShape, BoolsStr, I8Byte, OneByte, TextShape, Zenon
<1>s9. s9 \in Str
  BY <1>w, Cat, Zenon
<1>s8. s8 \in Str
  BY <1>w, <1>s9, Cat, Zenon
<1>s7. s7 \in Str
  BY <1>w, <1>s8, Cat, Zenon
<1>s6. s6 \in Str
  BY <1>w, <1>s7, Cat, Zenon
<1>s5. s5 \in Str
  BY <1>w, <1>s6, Cat, Zenon
<1>s4. s4 \in Str
  BY <1>w, <1>s5, Cat, Zenon
<1>s3. s3 \in Str
  BY <1>w, <1>s4, Cat, Zenon
<1>s2. s2 \in Str
  BY <1>w, <1>s3, Cat, Zenon
<1>s1. s1 \in Str
  BY <1>w, <1>s2, Cat, Zenon
<1>0. At(r, u, encode_varint(d) \o s1, m)
  BY Zenon DEF SpawnBytes
<1>1. At(r1, d, s1, m)
  BY <1>0, <1>s1, VarIntAt, Zenon
<1>2. At(r2, t, s2, m)
  BY <1>1, <1>s2, TextAt, Zenon
<1>3. At(r3, w, s7, m)
  BY <1>2, <1>s7, WorldFieldsAt, Zenon
<1> HIDE DEF w
<1>4. PICK z : At(r4, z, s8, m)
  BY <1>3, <1>s8, DeathAt, Zenon
<1>5. At(r5, c, s9, m)
  BY <1>4, <1>s9, VarIntAt, Zenon
<1>p. Passed(r6, s, m)
  <2> HIDE DEF r5
  <2>1. At(r5, c, SeaLevel(n, v) \o s, m)
    BY <1>5, Zenon
  <2>2. Passed(PastSeaLevel(r5, v), s, m)
    BY <2>1, SeaLevelAt, Zenon
  <2>3. QED
    BY <2>2, Zenon DEF PastSeaLevel
<1>6. PICK q : At(r6, q, s, m)
  BY <1>p, Zenon DEF Passed
<1>f. (r2 = Failed => r3 = Failed) /\ (r3 = Failed => r4 = Failed) /\ (r4 = Failed => r5 =
  Failed)
  BY Strict, DeathStrict, Zenon
<1>e. GetSpawnInfo(r, v) = With(r6, y)
  BY Zenon DEF GetSpawnInfo
<1>f5. r5 = Failed => r6 = Failed
  BY Strict, Zenon
<1> HIDE DEF r1, r2, r3, r4, r5, r6
<1>g. r6 # Failed => r2.val = t /\ r3.val = w
  BY <1>2, <1>3, <1>f, <1>f5, AtVal, Zenon
<1>h. r6 # Failed => y = [dimension_name |-> t, world |-> w]
  BY <1>g, Zenon
<1> HIDE DEF y
<1>i. At(With(r6, y), [dimension_name |-> t, world |-> w], s, m)
  BY <1>6, <1>h, AtEnd, Zenon
<1>j. QED
  BY <1>e, <1>i, Zenon DEF w

LEMMA RespawnKnown ==
  ASSUME NEW v \in Int
  PROVE  /\ RespawnId(v) \in {RespawnId(v)} \cup is_valid_respawn_id
         /\ SystemChatId(v) \in {SystemChatId(v)} \cup is_valid_system_chat_id
OBVIOUS

LEMMA RespawnNew ==
  ASSUME NEW x, x.dimension_name \in Field, x.hashed_seed \in Str, Len(x.hashed_seed) = 8,
         x.gamemode \in Bytes, x.previous_gamemode \in -1 .. 127, x.is_debug \in Bools,
         x.is_flat \in Bools, x.data_kept \in Bytes, NEW v \in Int, v >= 766
  PROVE  \E p \in Str :
           /\ encode_respawn(x, v) = RawPacket(RespawnId(v), p)
           /\ \A b, m \in Str : b \o m = p =>
                At(decode_respawn(RawPacket(RespawnId(v), b), v),
                   [dimension_type |-> x.dimension_name, dimension_name |-> x.dimension_name,
                    hashed_seed |-> x.hashed_seed, gamemode |-> x.gamemode,
                    previous_gamemode |-> x.previous_gamemode, is_debug |-> x.is_debug,
                      is_flat |-> x.is_flat,
                    data_kept |-> x.data_kept], <<>>, m)
<1> DEFINE h == IF x.previous_gamemode < 0 THEN 255 ELSE x.previous_gamemode
           L == IF v >= 768 THEN encode_varint(63) ELSE <<>>
           p == encode_varint(0) \o Text(x.dimension_name) \o x.hashed_seed \o <<x.gamemode>>
                \o <<h>> \o Flag(x.is_debug) \o Flag(x.is_flat) \o <<0>> \o encode_varint(0)
                \o L \o <<x.data_kept>>
           s10 == <<x.data_kept>> \o <<>>
           s9 == L \o s10
           s8 == encode_varint(0) \o s9
           s7 == <<0>> \o s8
           s6 == Flag(x.is_flat) \o s7
           s5 == Flag(x.is_debug) \o s6
           s4 == <<h>> \o s5
           s3 == <<x.gamemode>> \o s4
           s2 == x.hashed_seed \o s3
           s1 == Text(x.dimension_name) \o s2
           s0 == encode_varint(0) \o s1
<1>h. h = x.previous_gamemode % 256 /\ h \in Bytes /\ x.previous_gamemode \in -128 .. 127
  BY SMT DEF Bytes
<1>k. L = SeaLevel(63, v)
  BY DEF SeaLevel
<1>z. <<0>> = WriteDeath(<<>>) /\ <<>> \in Opts(Death) /\ 0 \in Bytes
  BY SMT DEF WriteDeath, Opts, Bytes
<1>i. 0 \in Int32 /\ 63 \in Int32
  BY SMT DEF Int32
<1>c. encode_respawn(x, v) =
        RawPacket(RespawnId(v), encode_varint(0) \o Text(x.dimension_name) \o x.hashed_seed
          \o <<x.gamemode>> \o <<h>> \o Flag(x.is_debug) \o Flag(x.is_flat) \o <<0>>
          \o encode_varint(0) \o L \o <<x.data_kept>>)
  BY DEF encode_respawn
<1> HIDE DEF h, L
<1>0. RespawnId(v) \in {RespawnId(v)} \cup is_valid_respawn_id
  BY RespawnKnown, Zenon
<1>1. encode_varint(0) \in Str /\ Text(x.dimension_name) \in Str /\ x.hashed_seed \in Str
      /\ <<x.gamemode>> \in Str /\ <<h>> \in Str /\ Flag(x.is_debug) \in Str
      /\ Flag(x.is_flat) \in Str /\ <<0>> \in Str /\ encode_varint(0) \in Str /\ L \in Str
      /\ <<x.data_kept>> \in Str
  BY <1>h, <1>i, <1>k, <1>z, SeaLevelStr, VarIntShape, TextShape, OneByte, BoolsStr, Zenon
<1>2. Flat11(encode_varint(0), Text(x.dimension_name), x.hashed_seed, <<x.gamemode>>, <<h>>,
      Flag(x.is_debug), Flag(x.is_flat), <<0>>, encode_varint(0), L, <<x.data_kept>>)
  BY <1>1, FlatIs11, Zenon
<1>3. p = s0 /\ p \in Str
  BY <1>2, Zenon DEF Flat11
<1>s1. s1 \in Str
  BY <1>2, Zenon DEF Flat11
<1>s2. s2 \in Str
  BY <1>2, Zenon DEF Flat11
<1>s3. s3 \in Str
  BY <1>2, Zenon DEF Flat11
<1>s4. s4 \in Str
  BY <1>2, Zenon DEF Flat11
<1>s5. s5 \in Str
  BY <1>2, Zenon DEF Flat11
<1>s6. s6 \in Str
  BY <1>2, Zenon DEF Flat11
<1>s7. s7 \in Str
  BY <1>2, Zenon DEF Flat11
<1>s8. s8 \in Str
  BY <1>2, Zenon DEF Flat11
<1>s9. s9 \in Str
  BY <1>2, Zenon DEF Flat11
<1>s10. s10 \in Str
  BY <1>2, Zenon DEF Flat11
<1>4. encode_respawn(x, v) = RawPacket(RespawnId(v), p)
  BY <1>c, Zenon
<1>5. ASSUME NEW b \in Str, NEW m \in Str, b \o m = p
      PROVE  At(decode_respawn(RawPacket(RespawnId(v), b), v),
                [dimension_type |-> x.dimension_name, dimension_name |-> x.dimension_name,
                 hashed_seed |-> x.hashed_seed, gamemode |-> x.gamemode,
                 previous_gamemode |-> x.previous_gamemode, is_debug |-> x.is_debug,
                   is_flat |-> x.is_flat,
                 data_kept |-> x.data_kept], <<>>, m)
  <2> DEFINE r0 == Decoder(RawPacket(RespawnId(v), b), {RespawnId(v)} \cup is_valid_respawn_id)
             r1 == GetSpawnInfo(r0, v)
             r2 == GetU8(r1)
             w  == [hashed_seed |-> x.hashed_seed, gamemode |-> x.gamemode,
                    previous_gamemode |-> x.previous_gamemode, is_debug |-> x.is_debug,
                    is_flat |-> x.is_flat]
             y  == RespawnIn(r1.val.dimension_name, r1.val.dimension_name, r1.val.world, r2.val)
             full == [dimension_type |-> x.dimension_name, dimension_name |-> x.dimension_name,
                       hashed_seed |-> x.hashed_seed, gamemode |-> x.gamemode,
                       previous_gamemode |-> x.previous_gamemode, is_debug |-> x.is_debug,
                         is_flat |-> x.is_flat,
                       data_kept |-> x.data_kept]
             q == [dimension_name |-> x.dimension_name, world |-> w]
  <2>1. At(r0, <<>>, b \o m, m)
    BY <1>0, DecoderAt, Zenon
  <2>2. At(r0, <<>>, s0, m)
    BY <1>3, <1>5, <2>1, Zenon
  <2>3. decode_respawn(RawPacket(RespawnId(v), b), v) = With(r2, y)
    BY DEF decode_respawn
  <2> HIDE DEF r0
  <2>4. s0 = SpawnBytes(0, x.dimension_name, x.hashed_seed, x.gamemode, x.previous_gamemode,
                        x.is_debug, x.is_flat, <<>>, 0, 63, v, s10)
    BY <1>h, <1>k, <1>z, Zenon DEF SpawnBytes
  <2>5. At(r0, <<>>, SpawnBytes(0, x.dimension_name, x.hashed_seed, x.gamemode,
                        x.previous_gamemode, x.is_debug, x.is_flat, <<>>, 0, 63, v, s10), m)
    BY <2>2, <2>4, Zenon
  <2> HIDE DEF s0
  <2>6. At(r1, q, s10, m)
    BY <1>h, <1>i, <1>z, <1>s10, <2>5, SpawnInfoAt, Zenon
  <2> HIDE DEF r1, q, w
  <2>7. At(r2, x.data_kept, <<>>, m)
    BY <2>6, Empty, U8At, Zenon
  <2>f. r1 = Failed => r2 = Failed
    BY Strict, Zenon
  <2> HIDE DEF r2
  <2>8. r2 # Failed => r1.val = q /\ r2.val = x.data_kept
    BY <2>6, <2>7, <2>f, AtVal, Zenon
  <2>9. q.dimension_name = x.dimension_name /\ q.world = w
    BY DEF q
  <2>10. RespawnIn(x.dimension_name, x.dimension_name, w, x.data_kept) = full
    <3>1. /\ w.hashed_seed = x.hashed_seed /\ w.gamemode = x.gamemode
          /\ w.previous_gamemode = x.previous_gamemode
      BY DEF w
    <3>2. w.is_debug = x.is_debug
      BY Zenon DEF w
    <3>3. w.is_flat = x.is_flat
      BY Zenon DEF w
    <3>4. QED
      BY <3>1, <3>2, <3>3, Zenon DEF RespawnIn
  <2>11. r2 # Failed => y = full
    BY <2>8, <2>9, <2>10, Zenon
  <2> HIDE DEF y, full
  <2>12. At(With(r2, y), full, <<>>, m)
    BY <2>7, <2>11, AtEnd, Zenon
  <2>13. QED
    BY <2>3, <2>12, Zenon DEF full
<1> HIDE DEF p
<1>6. QED
  BY <1>3, <1>4, <1>5, Zenon

LEMMA RespawnOld ==
  ASSUME NEW x, x.dimension_type \in Field, x.dimension_name \in Field,
         x.hashed_seed \in Str, Len(x.hashed_seed) = 8,
         x.gamemode \in Bytes, x.previous_gamemode \in -1 .. 127, x.is_debug \in Bools,
         x.is_flat \in Bools, x.data_kept \in Bytes, NEW v \in Int, v < 766
  PROVE  \E p \in Str :
           /\ encode_respawn(x, v) = RawPacket(RespawnId(v), p)
           /\ \A b, m \in Str : b \o m = p =>
                At(decode_respawn(RawPacket(RespawnId(v), b), v),
                   [dimension_type |-> x.dimension_type, dimension_name |-> x.dimension_name,
                    hashed_seed |-> x.hashed_seed, gamemode |-> x.gamemode,
                    previous_gamemode |-> x.previous_gamemode, is_debug |-> x.is_debug,
                      is_flat |-> x.is_flat,
                    data_kept |-> x.data_kept],
                   <<0>> \o (encode_varint(0) \o <<>>), m)
<1> DEFINE p == Text(x.dimension_type) \o Text(x.dimension_name) \o x.hashed_seed
    \o <<x.gamemode>> \o <<x.previous_gamemode % 256>> \o Flag(x.is_debug) \o Flag(x.is_flat)
    \o <<x.data_kept>> \o <<0>> \o encode_varint(0)
           s9 == encode_varint(0) \o <<>>
           s8 == <<0>> \o s9
           s7 == <<x.data_kept>> \o s8
           s6 == Flag(x.is_flat) \o s7
           s5 == Flag(x.is_debug) \o s6
           s4 == <<x.previous_gamemode % 256>> \o s5
           s3 == <<x.gamemode>> \o s4
           s2 == x.hashed_seed \o s3
           s1 == Text(x.dimension_name) \o s2
           s0 == Text(x.dimension_type) \o s1
<1>h. x.previous_gamemode \in -128 .. 127 /\ 0 \in Bytes /\ 0 \in Int32
  BY SMT DEF Bytes, Int32
<1>c. encode_respawn(x, v) = RawPacket(RespawnId(v), p)
  BY DEF encode_respawn
<1>0. RespawnId(v) \in {RespawnId(v)} \cup is_valid_respawn_id
  BY RespawnKnown, Zenon
<1>1. Text(x.dimension_type) \in Str /\ Text(x.dimension_name) \in Str
      /\ x.hashed_seed \in Str /\ <<x.gamemode>> \in Str
      /\ <<x.previous_gamemode % 256>> \in Str /\ Flag(x.is_debug) \in Str
      /\ Flag(x.is_flat) \in Str /\ <<x.data_kept>> \in Str /\ <<0>> \in Str
      /\ encode_varint(0) \in Str
  BY <1>h, VarIntShape, TextShape, I8Byte, OneByte, BoolsStr, Zenon
<1>2. Flat10(Text(x.dimension_type), Text(x.dimension_name), x.hashed_seed, <<x.gamemode>>,
      <<x.previous_gamemode % 256>>, Flag(x.is_debug), Flag(x.is_flat), <<x.data_kept>>,
      <<0>>, encode_varint(0))
  BY <1>1, FlatIs10, Zenon
<1>3. p = s0 /\ p \in Str
  BY <1>2, Zenon DEF Flat10
<1>s1. s1 \in Str
  BY <1>2, Zenon DEF Flat10
<1>s2. s2 \in Str
  BY <1>2, Zenon DEF Flat10
<1>s3. s3 \in Str
  BY <1>2, Zenon DEF Flat10
<1>s4. s4 \in Str
  BY <1>2, Zenon DEF Flat10
<1>s5. s5 \in Str
  BY <1>2, Zenon DEF Flat10
<1>s6. s6 \in Str
  BY <1>2, Zenon DEF Flat10
<1>s7. s7 \in Str
  BY <1>2, Zenon DEF Flat10
<1>s8. s8 \in Str
  BY <1>2, Zenon DEF Flat10
<1>s9. s9 \in Str
  BY <1>2, Zenon DEF Flat10
<1>4. encode_respawn(x, v) = RawPacket(RespawnId(v), p)
  BY <1>c, Zenon
<1>5. ASSUME NEW b \in Str, NEW m \in Str, b \o m = p
      PROVE  At(decode_respawn(RawPacket(RespawnId(v), b), v),
                [dimension_type |-> x.dimension_type, dimension_name |-> x.dimension_name,
                 hashed_seed |-> x.hashed_seed, gamemode |-> x.gamemode,
                 previous_gamemode |-> x.previous_gamemode, is_debug |-> x.is_debug,
                   is_flat |-> x.is_flat,
                 data_kept |-> x.data_kept],
                <<0>> \o (encode_varint(0) \o <<>>), m)
  <2> DEFINE r0 == Decoder(RawPacket(RespawnId(v), b), {RespawnId(v)} \cup is_valid_respawn_id)
             r1 == GetText(r0)
             r2 == GetText(r1)
             r3 == GetWorld(r2)
             r4 == GetU8(r3)
             w  == [hashed_seed |-> x.hashed_seed, gamemode |-> x.gamemode,
                    previous_gamemode |-> x.previous_gamemode, is_debug |-> x.is_debug,
                    is_flat |-> x.is_flat]
             y  == RespawnIn(r1.val, r2.val, r3.val, r4.val)
             full == [dimension_type |-> x.dimension_type, dimension_name |-> x.dimension_name,
                       hashed_seed |-> x.hashed_seed, gamemode |-> x.gamemode,
                       previous_gamemode |-> x.previous_gamemode, is_debug |-> x.is_debug,
                         is_flat |-> x.is_flat,
                       data_kept |-> x.data_kept]
  <2>1. At(r0, <<>>, b \o m, m)
    BY <1>0, DecoderAt, Zenon
  <2>2. At(r0, <<>>, s0, m)
    BY <1>3, <1>5, <2>1, Zenon
  <2>3. decode_respawn(RawPacket(RespawnId(v), b), v) = With(r4, y)
    BY DEF decode_respawn
  <2> HIDE DEF r0
  <2>4. At(r1, x.dimension_type, s1, m)
    BY <1>s1, <2>2, TextAt, Zenon
  <2>5. At(r2, x.dimension_name, s2, m)
    BY <1>s2, <2>4, TextAt, Zenon
  <2>6. At(r3, w, s7, m)
    BY <1>h, <1>s7, <2>5, WorldFieldsAt, Zenon
  <2> HIDE DEF w
  <2>7. At(r4, x.data_kept, s8, m)
    BY <1>s8, <2>6, U8At, Zenon
  <2>f. (r1 = Failed => r2 = Failed) /\ (r2 = Failed => r3 = Failed) /\ (r3 = Failed => r4 =
    Failed)
    BY Strict, DeathStrict, Zenon
  <2> HIDE DEF r1, r2, r3, r4
  <2>8. r4 # Failed => /\ r1.val = x.dimension_type /\ r2.val = x.dimension_name /\ r3.val = w
                       /\ r4.val = x.data_kept
    BY <2>4, <2>5, <2>6, <2>7, <2>f, AtVal, Zenon
  <2>10. RespawnIn(x.dimension_type, x.dimension_name, w, x.data_kept) = full
    <3>1. /\ w.hashed_seed = x.hashed_seed /\ w.gamemode = x.gamemode
          /\ w.previous_gamemode = x.previous_gamemode
      BY DEF w
    <3>2. w.is_debug = x.is_debug
      BY Zenon DEF w
    <3>3. w.is_flat = x.is_flat
      BY Zenon DEF w
    <3>4. QED
      BY <3>1, <3>2, <3>3, Zenon DEF RespawnIn
  <2>11. r4 # Failed => y = full
    BY <2>8, <2>10, Zenon
  <2> HIDE DEF y, full
  <2>12. At(With(r4, y), full, s8, m)
    BY <2>7, <2>11, AtEnd, Zenon
  <2>13. QED
    BY <2>3, <2>12, Zenon DEF full
<1> HIDE DEF p
<1>6. QED
  BY <1>3, <1>4, <1>5, Zenon

-----------------------------------------------------------------------------
(* A list of numbers with nothing missing, of which R[i] is what is left after the i-th:
   the state of the loop after i steps can be written down. *)
LEMMA SizeIs == \A n \in Nat : n <= MaxInt32 => n \in Int32 /\ n \in 0 .. MaxInt32
<1>1. MaxInt32 \in Nat
  BY SMT DEF MaxInt32
<1>2. ASSUME NEW n \in Nat, n <= MaxInt32 PROVE n \in Int32 /\ n \in 0 .. MaxInt32
  <2>1. n \in Int32
    BY <1>2, SMT DEF Int32, MaxInt32
  <2>2. n \in 0 .. MaxInt32
    BY <1>1, <1>2
  <2>3. QED
    BY <2>1, <2>2, Zenon
<1>3. QED
  BY <1>2, Zenon

AddVarInt(l) == IF l.ok THEN With(GetVarInt(l), Append(l.val, GetVarInt(l).val)) ELSE Failed

LEMMA VarIntStep ==
  ASSUME NEW a, NEW l, NEW x \in Int32, NEW s \in Str, At(a, l, encode_varint(x) \o s, <<>>)
  PROVE  AddVarInt(a) = Got(Append(l, x), s)
<1> DEFINE g == GetVarInt(a)
<1>1. At(g, x, s, <<>>)
  BY Empty, VarIntAt, Zenon
<1> HIDE DEF g
<1>2. g = Got(x, s) /\ g.val = x
  BY <1>1, AtWhole, Zenon
<1>3. a.val = l /\ a.ok
  <2>1. a # Failed
    BY AtFailed, Zenon
  <2>2. QED
    BY <2>1, AtVal, Zenon
<1>4. With(g, Append(a.val, g.val)) = Got(Append(l, x), s)
  BY <1>2, <1>3, WithParts, Zenon
<1>5. QED
  BY <1>3, <1>4, Zenon DEF AddVarInt, g

LEMMA VarIntsLoop ==
  ASSUME NEW xs \in Seq(Int32), NEW N \in Nat, N = Len(xs), N <= MaxInt32,
         NEW R, \A i \in 0 .. N : R[i] \in Str,
         \A i \in 1 .. N : R[i - 1] = encode_varint(xs[i]) \o R[i],
         NEW r, NEW u, At(r, u, encode_varint(N) \o R[0], <<>>)
  PROVE  At(GetMany(r, MaxInt32, GetVarInt), xs, R[N], <<>>)
<1> DEFINE n     == GetVarInt(r)
           Is(g) == g = [i \in 0 .. n.val |-> IF i = 0 THEN With(n, <<>>) ELSE AddVarInt(g[i - 1])]
           after == CHOOSE g : Is(g)
           h     == [i \in 0 .. N |-> Got(SubSeq(xs, 1, i), R[i])]
<1>1. N \in Int32 /\ 0 \in 0 .. N /\ N \in 0 .. N /\ N \in 0 .. MaxInt32
  <2>1. N \in Int32 /\ N \in 0 .. MaxInt32
    BY SizeIs, Zenon
  <2>2. 0 \in 0 .. N /\ N \in 0 .. N
    OBVIOUS
  <2>3. QED
    BY <2>1, <2>2, Zenon
<1>2. At(n, N, R[0], <<>>)
  <2>1. R[0] \in Str
    BY <1>1, Zenon
  <2>2. QED
    BY <1>1, <2>1, Empty, VarIntAt, Zenon
<1>3. GetMany(r, MaxInt32, GetVarInt)
        = IF n.ok /\ n.val \in 0 .. MaxInt32 THEN after[n.val] ELSE Failed
  BY Zenon DEF GetMany, AddVarInt
<1> HIDE DEF n
<1>4. n = Got(N, R[0]) /\ n.ok /\ n.val = N
  <2>1. R[0] \in Str
    BY <1>1, Zenon
  <2>2. QED
    BY <1>2, <2>1, AtWhole, Zenon
<1>5. GetMany(r, MaxInt32, GetVarInt) = after[N]
  BY <1>1, <1>3, <1>4, Zenon
<1>6. ASSUME NEW i \in 1 .. N
      PROVE  AddVarInt(Got(SubSeq(xs, 1, i - 1), R[i - 1])) = Got(SubSeq(xs, 1, i), R[i])
  <2> DEFINE l == SubSeq(xs, 1, i - 1)
             a == Got(l, R[i - 1])
  <2>1. i \in 0 .. N /\ i - 1 \in 0 .. N
    OBVIOUS
  <2>2. R[i] \in Str /\ R[i - 1] \in Str /\ R[i - 1] = encode_varint(xs[i]) \o R[i]
    BY <2>1, Zenon
  <2>3. Append(l, xs[i]) = SubSeq(xs, 1, i) /\ xs[i] \in Int32
    BY FrontGrows, Zenon
  <2> HIDE DEF l
  <2>4. At(a, l, R[i - 1], <<>>)
    BY <2>2, Empty, Zenon DEF At
  <2> HIDE DEF a
  <2>5. At(a, l, encode_varint(xs[i]) \o R[i], <<>>)
    BY <2>2, <2>4, Zenon
  <2>6. AddVarInt(a) = Got(Append(l, xs[i]), R[i])
    BY <2>2, <2>3, <2>5, VarIntStep, Zenon
  <2>7. QED
    BY <2>3, <2>6, Zenon DEF a, l
<1>7. h[0] = With(n, <<>>)
  <2>1. SubSeq(xs, 1, 0) = <<>>
    OBVIOUS
  <2>2. With(Got(N, R[0]), <<>>) = Got(<<>>, R[0])
    BY WithParts, Zenon
  <2>3. h[0] = Got(SubSeq(xs, 1, 0), R[0])
    BY <1>1, Zenon
  <2>4. QED
    BY <1>4, <2>1, <2>2, <2>3, Zenon
<1>8. \A i \in 1 .. N : h[i] = AddVarInt(h[i - 1])
  <2> TAKE i \in 1 .. N
  <2>1. i \in 0 .. N /\ i - 1 \in 0 .. N
    OBVIOUS
  <2>2. h[i] = Got(SubSeq(xs, 1, i), R[i]) /\ h[i - 1] = Got(SubSeq(xs, 1, i - 1), R[i - 1])
    BY <2>1, Zenon
  <2>3. QED
    BY <1>6, <2>2, Zenon
<1>9. h = [i \in 0 .. N |-> h[i]] /\ h[N] = Got(SubSeq(xs, 1, N), R[N])
  BY <1>1
<1> HIDE DEF h
<1>10. Is(h)
  <2>1. ASSUME NEW i \in 0 .. N
        PROVE  h[i] = IF i = 0 THEN With(n, <<>>) ELSE AddVarInt(h[i - 1])
    <3>1. CASE i = 0
      BY <1>7, <3>1, Zenon
    <3>2. CASE i # 0
      <4>1. i \in 1 .. N
        BY <3>2
      <4>2. QED
        BY <1>8, <3>2, <4>1, Zenon
    <3>3. QED
      BY <3>1, <3>2, Zenon
  <2>2. h = [i \in 0 .. N |-> IF i = 0 THEN With(n, <<>>) ELSE AddVarInt(h[i - 1])]
    BY <1>9, <2>1
  <2>3. QED
    BY <1>4, <2>2, Zenon
<1>11. Is(after)
  BY <1>10, Zenon
<1> HIDE DEF after
<1>12. after[0] = With(n, <<>>) /\ \A i \in 1 .. N : after[i] = AddVarInt(after[i - 1])
  BY <1>1, <1>4, <1>11
<1> DEFINE C == {i \in 0 .. N : after[i] = h[i]}
<1>13. 0 \in C
  BY <1>1, <1>7, <1>12, Zenon
<1>14. \A i \in 1 .. N : i - 1 \in C => i \in C
  <2> TAKE i \in 1 .. N
  <2>1. i \in 0 .. N
    OBVIOUS
  <2>2. after[i - 1] = h[i - 1] => after[i] = h[i]
    BY <1>8, <1>12, Zenon
  <2>3. QED
    BY <2>1, <2>2, Zenon
<1> HIDE DEF C
<1>15. N \in C
  BY <1>1, <1>13, <1>14, UpTo, Zenon
<1>16. after[N] = h[N]
  BY <1>15, Zenon DEF C
<1>17. SubSeq(xs, 1, N) = xs
  OBVIOUS
<1>18. GetMany(r, MaxInt32, GetVarInt) = Got(xs, R[N])
  BY <1>5, <1>9, <1>16, <1>17, Zenon
<1>19. R[N] \in Str
  BY <1>1, Zenon
<1>20. QED
  BY <1>18, <1>19, Empty, Zenon DEF At

(* What is left of the numbers xs, and then s, after each of them. *)
Left(R, xs, s) ==
  /\ Many(xs, encode_varint) \o s = encode_varint(Len(xs)) \o R[0] /\ R[Len(xs)] = s
  /\ \A i \in 0 .. Len(xs) : R[i] \in Str
  /\ \A i \in 1 .. Len(xs) : R[i - 1] = encode_varint(xs[i]) \o R[i]

LEMMA VarIntsStr ==
  ASSUME NEW xs \in Seq(Int32), Len(xs) <= MaxInt32
  PROVE  Many(xs, encode_varint) \in Str /\ \A s \in Str : \E R : Left(R, xs, s)
<1> DEFINE N  == Len(xs)
           ss == [i \in DOMAIN xs |-> encode_varint(xs[i])]
           F  == FlattenSeq(ss)
           e  == encode_varint(N)
<1>1. N \in Nat /\ DOMAIN xs = 1 .. N
  OBVIOUS
<1>2. /\ Len(ss) = N /\ (N = 0 => ss = <<>>)
      /\ \A i \in 1 .. N : ss[i] = encode_varint(xs[i])
  BY <1>1
<1>3. \A i \in 1 .. N : xs[i] \in Int32
  OBVIOUS
<1>4. \A i \in 1 .. N : ss[i] \in Str
  BY <1>2, <1>3, VarIntShape, Zenon
<1>5. Many(xs, encode_varint) = e \o F
  BY Zenon DEF Many
<1>6. e \in Str
  BY <1>1, SizeIs, VarIntShape, Zenon
<1> HIDE DEF ss
<1>7. F \in Str /\ \A s \in Str : \E R : Peels(R, ss, s, N)
  BY <1>1, <1>2, <1>4, Empty, FlattenPeels, Zenon
<1> HIDE DEF F
<1>8. ASSUME NEW s \in Str
      PROVE  \E R : Left(R, xs, s)
  <2>1. PICK R : Peels(R, ss, s, N)
    BY <1>7, Zenon
  <2>2. /\ R[0] = F \o s /\ R[N] = s /\ \A i \in 0 .. N : R[i] \in Str
        /\ \A i \in 1 .. N : R[i - 1] = ss[i] \o R[i]
    BY <2>1, Zenon DEF Peels, F
  <2> HIDE DEF e
  <2>3. AssocIs(e, F, s)
    BY <1>6, <1>7, Assoc, Zenon
  <2>4. Many(xs, encode_varint) \o s = e \o R[0]
    BY <1>5, <2>2, <2>3, Zenon DEF AssocIs
  <2>5. \A i \in 1 .. N : R[i - 1] = encode_varint(xs[i]) \o R[i]
    BY <1>2, <2>2, Zenon
  <2>6. Left(R, xs, s)
    BY <2>2, <2>4, <2>5, Zenon DEF Left, e
  <2>7. QED
    BY <2>6, Zenon
<1> HIDE DEF e
<1>9. e \o F \in Str
  BY <1>6, <1>7, Cat, Zenon
<1>10. Many(xs, encode_varint) \in Str
  BY <1>5, <1>9, Zenon
<1>11. QED
  BY <1>8, <1>10, Zenon

LEMMA VarIntsAt ==
  ASSUME NEW xs \in Seq(Int32), Len(xs) <= MaxInt32, NEW s \in Str, NEW r, NEW u,
         At(r, u, Many(xs, encode_varint) \o s, <<>>)
  PROVE  At(GetMany(r, MaxInt32, GetVarInt), xs, s, <<>>)
<1> DEFINE N == Len(xs)
<1>0. PICK R : Left(R, xs, s)
  BY VarIntsStr, Zenon
<1>1. /\ Many(xs, encode_varint) \o s = encode_varint(N) \o R[0] /\ R[N] = s
      /\ \A i \in 0 .. N : R[i] \in Str
      /\ \A i \in 1 .. N : R[i - 1] = encode_varint(xs[i]) \o R[i]
  BY <1>0, Zenon DEF Left
<1>2. At(r, u, encode_varint(N) \o R[0], <<>>)
  BY <1>1, Zenon
<1>3. N \in Nat /\ N <= MaxInt32 /\ N = Len(xs)
  OBVIOUS
<1> HIDE DEF N
<1>4. At(GetMany(r, MaxInt32, GetVarInt), xs, R[N], <<>>)
  BY <1>1, <1>2, <1>3, VarIntsLoop, Zenon
<1>5. QED
  BY <1>1, <1>4, Zenon

(* The parts of a node that may be missing: how they are written and read. *)
PutIf(c, e)     == IF c THEN e ELSE <<>>
NextIf(c, g, r) == IF c THEN g ELSE r
PartIf(c, v)    == IF c THEN v ELSE <<>>

Optional(c, x, T) == (c => x \in T) /\ (~c => x = <<>>)
TakenIf(c, x, r, s) == Passed(r, s, <<>>) /\ PartIf(c, r.val) = x

LEMMA NumberIfAt ==
  ASSUME NEW c, NEW x, Optional(c, x, Int32), NEW r, NEW s \in Str,
         Passed(r, PutIf(c, encode_varint(x)) \o s, <<>>)
  PROVE  TakenIf(c, x, NextIf(c, GetVarInt(r), r), s)
<1>1. PICK u : At(r, u, PutIf(c, encode_varint(x)) \o s, <<>>)
  BY Zenon DEF Passed
<1>2. CASE c
  <2>1. At(r, u, encode_varint(x) \o s, <<>>)
    BY <1>1, <1>2, Zenon DEF PutIf
  <2>2. At(GetVarInt(r), x, s, <<>>)
    BY <1>2, <2>1, Empty, VarIntAt, Zenon DEF Optional
  <2>3. GetVarInt(r).val = x
    BY <2>2, AtWhole, Zenon
  <2>4. QED
    BY <1>2, <2>2, <2>3, Zenon DEF NextIf, PartIf, Passed, TakenIf, Optional
<1>3. CASE ~c
  <2>1. <<>> \o s = s
    BY Empty, Zenon
  <2>2. At(r, u, s, <<>>)
    BY <1>1, <1>3, <2>1, Zenon DEF PutIf
  <2>3. QED
    BY <1>3, <2>2, Zenon DEF NextIf, PartIf, Passed, TakenIf, Optional
<1>4. QED
  BY <1>2, <1>3, Zenon

LEMMA TextIfAt ==
  ASSUME NEW c, NEW x, Optional(c, x, Field), NEW r, NEW s \in Str,
         Passed(r, PutIf(c, Text(x)) \o s, <<>>)
  PROVE  TakenIf(c, x, NextIf(c, GetText(r), r), s)
<1>1. PICK u : At(r, u, PutIf(c, Text(x)) \o s, <<>>)
  BY Zenon DEF Passed
<1>2. CASE c
  <2>1. At(r, u, Text(x) \o s, <<>>)
    BY <1>1, <1>2, Zenon DEF PutIf
  <2>2. At(GetText(r), x, s, <<>>)
    BY <1>2, <2>1, Empty, TextAt, Zenon DEF Optional
  <2>3. GetText(r).val = x
    BY <2>2, AtWhole, Zenon
  <2>4. QED
    BY <1>2, <2>2, <2>3, Zenon DEF NextIf, PartIf, Passed, TakenIf, Optional
<1>3. CASE ~c
  <2>1. <<>> \o s = s
    BY Empty, Zenon
  <2>2. At(r, u, s, <<>>)
    BY <1>1, <1>3, <2>1, Zenon DEF PutIf
  <2>3. QED
    BY <1>3, <2>2, Zenon DEF NextIf, PartIf, Passed, TakenIf, Optional
<1>4. QED
  BY <1>2, <1>3, Zenon
=============================================================================
