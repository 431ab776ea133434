-------------------------- MODULE PacketCodecProofs --------------------------
(***************************************************************************)
(* RoundTrip, CutNeverForged, FramesDelivered, RespawnMatchesLogin and     *)
(* InjectionSound for every protocol version, and OneRole and              *)
(* OwnPacketsDistinct with them.                                           *)
(*                                                                         *)
(* The lemmas on the packets of the Login state and on worlds are in       *)
(* CodecProofs; here are those on chat messages, on Login (Play) and on    *)
(* the command tree, then Understood, which says of a kind of packet all   *)
(* that the properties need, and then the properties.                      *)
(***************************************************************************)
EXTENDS CodecProofs

-----------------------------------------------------------------------------
(* Chat messages. *)
LEMMA TagsLoop ==
  ASSUME NEW z, NEW N \in Nat
  PROVE  \E g : g = [i \in 0 .. N |-> IF i = 0 THEN z ELSE NextTag(g[i - 1])]
<1> DEFINE Is(g, n) == g = [i \in 0 .. n |-> IF i = 0 THEN z ELSE NextTag(g[i - 1])]
           S        == {n \in 0 .. N : \E g : Is(g, n)}
<1>1. 0 \in S
  <2> DEFINE g == [i \in 0 .. 0 |-> z]
  <2>1. Is(g, 0)
    OBVIOUS
  <2>2. 0 \in 0 .. N
    OBVIOUS
  <2> HIDE DEF g
  <2>3. QED
    BY <2>1, <2>2, Zenon
<1>2. ASSUME NEW n \in 1 .. N, n - 1 \in S PROVE n \in S
  <2>1. PICK g : Is(g, n - 1)
    BY <1>2, Zenon
  <2> DEFINE h == [i \in 0 .. n |-> IF i <= n - 1 THEN g[i] ELSE NextTag(g[n - 1])]
  <2>2. ASSUME NEW i \in 0 .. n PROVE h[i] = IF i = 0 THEN z ELSE NextTag(h[i - 1])
    <3>1. CASE i <= n - 1 /\ i # 0
      <4>1. h[i] = g[i] /\ h[i - 1] = g[i - 1]
        BY <3>1
      <4>2. g[i] = NextTag(g[i - 1])
        BY <2>1, <3>1
      <4>3. QED
        BY <3>1, <4>1, <4>2
    <3>2. CASE i = 0
      <4>1. h[i] = g[i]
        BY <3>2
      <4>2. g[i] = z
        BY <2>1, <3>2
      <4>3. QED
        BY <3>2, <4>1, <4>2
    <3>3. CASE i = n
      <4>1. h[i] = NextTag(g[n - 1]) /\ h[i - 1] = g[n - 1]
        BY <3>3
      <4>2. QED
        BY <3>3, <4>1
    <3>4. QED
      BY <3>1, <3>2, <3>3
  <2>3. h = [i \in 0 .. n |-> h[i]]
    OBVIOUS
  <2> HIDE DEF h
  <2>4. Is(h, n)
    BY <2>2, <2>3
  <2>5. n \in 0 .. N
    OBVIOUS
  <2>6. QED
    BY <2>4, <2>5, Zenon
<1> HIDE DEF S
<1>3. N \in S
  BY <1>1, <1>2, UpTo
<1>4. QED
  BY <1>3, Zenon DEF S

LEMMA FirstOf ==
  ASSUME NEW h \in Bytes, NEW s \in Str
  PROVE  /\ (<<h>> \o s)[1] = h /\ Tail(<<h>> \o s) = s /\ <<h>> \o s # <<>>
         /\ Len(<<h>> \o s) = 1 + Len(s)
<1> DEFINE a == <<h>>
           b == a \o s
<1>1. a \in Str /\ Len(a) = 1 /\ a[1] = h
  BY OneByte
<1> HIDE DEF a
<1>2. Len(b) = 1 + Len(s) /\ Len(s) \in Nat /\ b \in Seq(Bytes)
  BY <1>1, Cat DEF Str
<1>3. b[1] = h
  BY <1>1, <1>2, ConcatProperties DEF Str
<1>4. SubSeq(b, 1 + 1, Len(b)) = s
  <2>1. SubSeq(b, Len(a) + 1, Len(b)) = s
    BY <1>1, CutFront DEF Str
  <2>2. QED
    BY <1>1, <2>1, Zenon
<1> HIDE DEF b
<1>5. b # <<>>
  BY <1>2
<1>6. Tail(b) = s
  BY <1>2, <1>4, <1>5, TailIsSubSeq
<1>7. QED
  BY <1>2, <1>3, <1>5, <1>6, Zenon DEF a, b

LEMMA SizedAt ==
  ASSUME NEW r, NEW u, NEW t \in Str, NEW n \in Nat, Len(t) = n, n <= MaxU16, NEW s \in Str,
         NEW m \in Str, At(r, u, Short(n) \o (t \o s), m)
  PROVE  At(GetSized(r), t, s, m)
<1> DEFINE l == GetU16(r)
<1>1. t \o s \in Str
  BY Cat, Zenon
<1>2. At(l, n, t \o s, m)
  BY <1>1, U16At, Zenon
<1>3. GetSized(r) = GetRaw(l.val, l)
  BY Zenon DEF GetSized
<1> HIDE DEF l
<1>4. CASE l = Failed
  <2>1. GetSized(r) = Failed
    BY <1>3, <1>4, Strict, Zenon
  <2>2. QED
    BY <1>2, <1>4, <2>1, AtFailed, Zenon
<1>5. CASE l # Failed
  <2>1. GetSized(r) = GetRaw(n, l)
    BY <1>2, <1>3, <1>5, AtVal, Zenon
  <2>2. At(GetRaw(n, l), t, s, m)
    BY <1>2, RawNAt, Zenon
  <2>3. QED
    BY <2>1, <2>2, Zenon
<1>6. QED
  BY <1>4, <1>5, Zenon

(* A state of the loop over the tags. *)
Tags(done, message, rest) == [done |-> done, message |-> message, rest |-> rest]

LEMMA TagsOpen == ASSUME NEW t, NEW b PROVE ~Tags(FALSE, t, b).done
BY Zenon DEF Tags

LEMMA TagsClosed == ASSUME NEW t, NEW b PROVE Tags(TRUE, t, b).done
BY Zenon DEF Tags

LEMMA WordsKnown ==
  /\ Word.server \in Str /\ Word.hub \in Str /\ Word.lobby \in Str /\ Word.steel \in Str
  /\ Word.name \in Str /\ Word.text \in Str /\ Word.overworld \in Str
  /\ Word.json_open \in Str /\ Word.json_close \in Str
  /\ \A w \in {Word.server, Word.hub, Word.lobby, Word.steel, Word.name,
     Word.overworld} : w \in Field
  /\ Len(Word.text) = 4 /\ Len(Word.json_open) = 9 /\ Len(Word.json_close) = 2
<1> DEFINE W == {"server", "hub", "lobby", "steel", "name", "text", "ask_server", "overworld",
                 "json_open", "json_close"}
<1>1. \A w \in W : Word[w] \in Str /\ Len(Word[w]) \in 1 .. 32
  BY WordAssumption, Zenon DEF Str, Bytes
<1>2. ASSUME NEW w \in W PROVE Word[w] \in Field
  <2>1. Word[w] \in Str /\ Len(Word[w]) \in 1 .. 32
    BY <1>1, Zenon
  <2>2. Len(Word[w]) <= MaxInt32
    <3> DEFINE k == Len(Word[w])
    <3>1. k \in 1 .. 32
      BY <2>1, Zenon
    <3> HIDE DEF k
    <3>2. k <= MaxInt32
      BY <3>1, SMT DEF MaxInt32
    <3>3. QED
      BY <3>2, Zenon DEF k
  <2>3. QED
    BY <2>1, <2>2, Zenon DEF Field
<1>3. /\ Word.server \in Str /\ Word.hub \in Str /\ Word.lobby \in Str /\ Word.steel \in Str
      /\ Word.name \in Str /\ Word.text \in Str /\ Word.overworld \in Str
      /\ Word.json_open \in Str /\ Word.json_close \in Str
  BY <1>1
<1>4. /\ Word.server \in Field /\ Word.hub \in Field /\ Word.lobby \in Field
      /\ Word.steel \in Field
      /\ Word.name \in Field /\ Word.overworld \in Field
  BY <1>2
<1>5. Len(Word.text) = 4 /\ Len(Word.json_open) = 9 /\ Len(Word.json_close) = 2
  BY WordAssumption, Zenon
<1>6. QED
  BY <1>3, <1>4, <1>5, Zenon

LEMMA TagText ==
  ASSUME NEW t, NEW msg \in Str, Len(msg) <= MaxU16, NEW s \in Str
  PROVE  NextTag(Tags(FALSE, t, <<8>> \o (Short(4) \o (Word.text \o
           (Short(Len(msg)) \o (msg \o s)))))) = Tags(FALSE, msg, s)
<1> DEFINE s3 == Short(Len(msg)) \o (msg \o s)
           s2 == Short(4) \o (Word.text \o s3)
           b  == <<8>> \o s2
           st == Tags(FALSE, t, b)
           key == GetSized(Start(Tail(b)))
           str == GetSized(key)
<1>1. Word.text \in Str /\ Len(Word.text) = 4 /\ 4 \in Nat /\ 4 <= MaxU16
  <2>1. 4 \in Nat /\ 4 <= MaxU16
    BY SMT DEF MaxU16
  <2>2. QED
    BY <2>1, WordsKnown, Zenon
<1>2. Len(msg) \in Nat
  BY Cat, Zenon
<1>3. Short(Len(msg)) \in Str /\ Short(4) \in Str
  BY <1>1, <1>2, U16Shape, Zenon
<1>4. msg \o s \in Str
  BY Cat, Zenon
<1>5. s3 \in Str
  BY <1>3, <1>4, Cat, Zenon
<1>6. Word.text \o s3 \in Str
  BY <1>1, <1>5, Cat, Zenon
<1>7. s2 \in Str
  BY <1>3, <1>6, Cat, Zenon
<1>8. Tail(b) = s2 /\ b[1] = 8 /\ b # <<>>
  <2>1. 8 \in Bytes
    BY DEF Bytes
  <2> HIDE DEF s2
  <2>2. QED
    BY <1>7, <2>1, FirstOf, Zenon
<1>9. At(Start(s2), <<>>, s2, <<>>)
  BY <1>7, StartAt, Zenon
<1>10. key = GetSized(Start(s2))
  BY <1>8, Zenon
<1> HIDE DEF b
<1>11. At(GetSized(Start(s2)), Word.text, s3, <<>>)
  <2> HIDE DEF s3
  <2>1. <<>> \in Str
    BY Empty, Zenon
  <2>2. QED
    BY <1>1, <1>5, <1>9, <2>1, SizedAt, Zenon
<1>12. At(key, Word.text, s3, <<>>)
  BY <1>10, <1>11, Zenon
<1> HIDE DEF key
<1>13. At(str, msg, s, <<>>)
  <2>1. <<>> \in Str
    BY Empty, Zenon
  <2>2. QED
    BY <1>2, <1>12, <2>1, SizedAt, Zenon
<1> HIDE DEF str
<1>14. key.ok /\ key.val = Word.text
  BY <1>5, <1>12, AtWhole, Zenon
<1>15. str.ok /\ str.val = msg /\ str.rest = s
  BY <1>13, AtWhole, Zenon
<1>16. ~st.done /\ st.rest = b
  BY TagsOpen DEF Tags
<1> HIDE DEF st
<1>17. b[1] # 0
  BY <1>8
<1>18. NextTag(st) = [done |-> FALSE, message |-> msg, rest |-> s]
  BY <1>8, <1>14, <1>15, <1>16, <1>17, Zenon DEF NextTag, key, str
<1>19. QED
  BY <1>18, Zenon DEF st, b, Tags

LEMMA TagEnd ==
  ASSUME NEW t, NEW s \in Str
  PROVE  /\ NextTag(Tags(FALSE, t, <<0>> \o s)) = Tags(TRUE, t, s)
         /\ NextTag(Tags(TRUE, t, s)) = Tags(TRUE, t, s)
<1> DEFINE b == <<0>> \o s
<1>1. 0 \in Bytes
  BY DEF Bytes
<1>2. Tail(b) = s /\ b[1] = 0 /\ b # <<>>
  BY <1>1, FirstOf, Zenon
<1> HIDE DEF b
<1> DEFINE st == Tags(FALSE, t, b)
<1>a. ~st.done /\ st.rest = b /\ st.message = t
  BY TagsOpen DEF Tags
<1> HIDE DEF st
<1>3. NextTag(st) = [done |-> TRUE, message |-> t, rest |-> s]
  BY <1>2, <1>a, Zenon DEF NextTag
<1>4. NextTag(Tags(TRUE, t, s)) = Tags(TRUE, t, s)
  BY TagsClosed, Zenon DEF NextTag
<1>5. QED
  BY <1>3, <1>4, Zenon DEF b, st, Tags

LEMMA TagsRead ==
  ASSUME NEW msg \in Str, Len(msg) <= MaxU16, NEW s \in Str, NEW c \in Str,
         c = << 8 >> \o (Short(4) \o (Word.text \o (Short(Len(msg)) \o (msg \o (<< 0 >> \o s))))),
         Len(c) >= 2
  PROVE  ReadTags(c) = Got(msg, s)
<1> DEFINE N == Len(c)
           z == Tags(FALSE, <<>>, c)
           Is(g) == g = [n \in 0 .. N |-> IF n = 0 THEN z ELSE NextTag(g[n - 1])]
           after == CHOOSE g : Is(g)
           last  == after[N]
<1>1. ReadTags(c) = Got(last.message, last.rest)
  BY Zenon DEF ReadTags, Tags
<1>2. N \in Nat /\ N >= 2
  BY Cat
<1> HIDE DEF N
<1>3. Is(after)
  <2>1. \E g : Is(g)
    BY <1>2, TagsLoop, Zenon
  <2>2. QED
    BY <2>1, Zenon
<1> HIDE DEF after, z
<1>4. after[0] = z /\ \A i \in 1 .. N : after[i] = NextTag(after[i - 1])
  BY <1>2, <1>3
<1>5. <<0>> \o s \in Str
  <2>1. 0 \in Bytes
    BY DEF Bytes
  <2>2. <<0>> \in Str
    BY <2>1, OneByte, Zenon
  <2>3. QED
    BY <2>2, Cat, Zenon
<1>6. NextTag(z) = Tags(FALSE, msg, <<0>> \o s)
  <2> DEFINE e == <<0>> \o s
  <2>1. e \in Str
    BY <1>5
  <2>2. z =
        Tags(FALSE, <<>>, <<8>> \o (Short(4) \o (Word.text \o (Short(Len(msg)) \o (msg \o e)))))
    BY Zenon DEF z
  <2> HIDE DEF e
  <2>3. NextTag(z) = Tags(FALSE, msg, e)
    BY <2>1, <2>2, TagText, Zenon
  <2>4. QED
    BY <2>3, Zenon DEF e
<1>7. after[1] = Tags(FALSE, msg, <<0>> \o s)
  <2>1. 1 \in 1 .. N /\ 1 - 1 = 0
    BY <1>2
  <2>2. after[1] = NextTag(after[1 - 1])
    BY <1>4, <2>1, Zenon
  <2>3. QED
    BY <1>4, <1>6, <2>1, <2>2, Zenon
<1>8. after[2] = Tags(TRUE, msg, s)
  <2>1. 2 \in 1 .. N /\ 2 - 1 = 1
    BY <1>2
  <2>2. after[2] = NextTag(after[2 - 1])
    BY <1>4, <2>1, Zenon
  <2>3. QED
    BY <1>7, <2>1, <2>2, TagEnd, Zenon
<1> DEFINE C == {i \in 0 .. N : i < 2 \/ after[i] = Tags(TRUE, msg, s)}
<1>9. 0 \in C
  BY <1>2
<1>10. ASSUME NEW i \in 1 .. N, i - 1 \in C PROVE i \in C
  <2>0. i \in 0 .. N
    BY <1>2
  <2>1. CASE i < 2
    BY <2>0, <2>1, Zenon
  <2>2. CASE i = 2
    BY <2>0, <2>2, <1>8, Zenon
  <2>3. CASE i > 2
    <3>1. ~(i - 1 < 2)
      BY <2>3
    <3>2. after[i - 1] = Tags(TRUE, msg, s)
      BY <1>10, <3>1, Zenon
    <3>3. after[i] = NextTag(after[i - 1])
      BY <1>4, Zenon
    <3>4. after[i] = Tags(TRUE, msg, s)
      BY <3>2, <3>3, TagEnd, Zenon
    <3>5. QED
      BY <2>0, <3>4, Zenon
  <2>4. i < 2 \/ i = 2 \/ i > 2
    OBVIOUS
  <2>5. QED
    BY <2>1, <2>2, <2>3, <2>4, Zenon
<1> HIDE DEF C
<1>11. \A i \in 0 .. N : i \in C
  BY <1>2, <1>9, <1>10, UpTo, Zenon
<1>12. N \in 0 .. N
  BY <1>2
<1>13. N \in C
  BY <1>11, <1>12, Zenon
<1>a. ~(N < 2)
  BY <1>2
<1>14. last = Tags(TRUE, msg, s)
  BY <1>a, <1>13, Zenon DEF C
<1> HIDE DEF last
<1>15. last.message = msg /\ last.rest = s
  BY <1>14 DEF Tags
<1>16. QED
  BY <1>1, <1>15, Zenon

LEMMA OverlayAt ==
  ASSUME NEW t, NEW o \in Bools
  PROVE  IfLeft(1, Got(t, Flag(o) \o <<>>), GetBool(Got(t, Flag(o) \o <<>>)), FALSE) = Got(o, <<>>)
<1> DEFINE r == Got(t, Flag(o) \o <<>>)
<1>0. <<>> \in Str
  BY Empty, Zenon
<1>1. Flag(o) \in Str /\ Flag(o) \o <<>> = Flag(o) /\ Len(Flag(o)) = 1
  <2>1. Flag(o) \in Str
    BY BoolsStr, Zenon
  <2>2. Flag(o) \o <<>> = Flag(o)
    BY <2>1, Empty, Zenon
  <2>3. Len(Flag(o)) = 1
    BY DEF Flag
  <2>4. QED
    BY <2>1, <2>2, <2>3, Zenon
<1>2. At(r, t, Flag(o) \o <<>>, <<>>)
  BY <1>1, Empty, Zenon DEF At
<1>3. r.ok /\ r.rest = Flag(o) \o <<>>
  BY GotParts, Zenon
<1> HIDE DEF r
<1>4. At(GetBool(r), o, <<>>, <<>>)
  BY <1>0, <1>2, BoolsAt, Zenon
<1>5. GetBool(r) = Got(o, <<>>)
  BY <1>0, <1>4, AtWhole, Zenon
<1>a. Len(r.rest) = 1
  BY <1>1, <1>3, Zenon
<1>6. Len(r.rest) >= 1
  BY <1>a
<1>7. IfLeft(1, r, GetBool(r), FALSE) = GetBool(r)
  BY <1>3, <1>6, Zenon DEF IfLeft
<1>8. QED
  BY <1>5, <1>7, Zenon DEF r

(* What decode_system_chat does once it has the text. *)
LEMMA ChatAt ==
  ASSUME NEW v \in Int, NEW p \in Str, p # <<>>, NEW t, NEW o \in Bools,
         \/ p[1] = 10 /\ ReadTags(Tail(p)) = Got(t, Flag(o) \o <<>>)
         \/ /\ p[1] # 10
            /\ With(GetText(Start(p)), JsonText(GetText(Start(p)).val)) = Got(t, Flag(o) \o <<>>)
  PROVE  decode_system_chat(RawPacket(SystemChatId(v), p), v)
           = Got([message |-> t, overlay |-> o], <<>>)
<1> DEFINE raw  == RawPacket(SystemChatId(v), p)
           json == GetText(Start(raw.payload))
           text == IF raw.payload[1] = 10 THEN ReadTags(Tail(raw.payload))
                   ELSE With(json, JsonText(json.val))
           over == IfLeft(1, text, GetBool(text), FALSE)
<1>1. raw.payload = p /\ raw.id = SystemChatId(v)
  BY RawParts, Zenon
<1>2. decode_system_chat(raw, v) =
        IF raw.id \notin {SystemChatId(v)} \cup is_valid_system_chat_id \/ raw.payload = <<>>
        THEN Failed ELSE With(over, [message |-> text.val, overlay |-> over.val])
  BY Zenon DEF decode_system_chat
<1> HIDE DEF raw
<1>3. text = Got(t, Flag(o) \o <<>>)
  BY <1>1, Zenon
<1> HIDE DEF text
<1>4. over = Got(o, <<>>)
  BY <1>3, OverlayAt, Zenon
<1> HIDE DEF over
<1>5. text.val = t /\ over.val = o
  BY <1>3, <1>4, GotParts, Zenon
<1>6. With(over, [message |-> text.val, overlay |-> over.val])
        = With(over, [message |-> t, overlay |-> o])
  BY <1>5, Zenon
<1>7. With(over, [message |-> t, overlay |-> o]) = Got([message |-> t, overlay |-> o], <<>>)
  BY <1>4, WithParts, Zenon
<1>8. decode_system_chat(raw, v) = With(over, [message |-> text.val, overlay |-> over.val])
  BY <1>1, <1>2, RespawnKnown, Zenon
<1>9. QED
  BY <1>6, <1>7, <1>8, Zenon DEF raw

(* The bytes of a chat message. *)
IsNewChat(x, p) ==
  \E c, e \in Str :
    /\ p = <<10>> \o c /\ e = Flag(x.overlay) \o <<>>
    /\ c = <<8>> \o (Short(4) \o (Word.text \o (Short(Len(x.message)) \o (x.message \o (<<0>> \o e)))))

IsOldChat(x, p) ==
  /\ p = Text(Json(x.message)) \o (Flag(x.overlay) \o <<>>) /\ p[1] # 10
  /\ Json(x.message) \in Field

LEMMA SystemChatNew ==
  ASSUME NEW x, x.message \in Str, Len(x.message) <= MaxU16, x.overlay \in Bools, NEW v \in Int,
         v >= 766
  PROVE  \E p \in Str :
           /\ encode_system_chat(x, v) = RawPacket(SystemChatId(v), p) /\ IsNewChat(x, p)
           /\ decode_system_chat(RawPacket(SystemChatId(v), p), v)
                = Got([message |-> x.message, overlay |-> x.overlay], <<>>)
<1> DEFINE l  == Short(Len(x.message))
           k  == Short(4)
           h  == <<10, 8>>
           f  == Flag(x.overlay)
           p  == h \o k \o Word.text \o l \o x.message \o <<0>> \o f
           e  == f \o <<>>
           s1 == k \o (Word.text \o (l \o (x.message \o (<<0>> \o e))))
           c  == <<8>> \o s1
<1>1. encode_system_chat(x, v) = RawPacket(SystemChatId(v), p)
  BY DEF encode_system_chat
<1>2. 10 \in Bytes /\ 8 \in Bytes /\ 0 \in Bytes
  BY DEF Bytes
<1>3. <<10>> \in Str /\ <<8>> \in Str /\ <<0>> \in Str
  BY <1>2, OneByte, Zenon
<1>4. h = <<10>> \o <<8>>
  OBVIOUS
<1>5. h \in Str
  BY <1>3, <1>4, Cat, Zenon
<1>6. k \in Str
  <2>1. 4 \in Nat /\ 4 <= MaxU16
    BY SMT DEF MaxU16
  <2>2. QED
    BY <2>1, U16Shape, Zenon
<1>7. l \in Str
  <2>1. Len(x.message) \in Nat
    BY Cat, Zenon
  <2>2. QED
    BY <2>1, U16Shape, Zenon
<1>8. f \in Str
  BY BoolsStr, Zenon
<1>9. Word.text \in Str
  BY WordsKnown, Zenon
<1> HIDE DEF h
<1>10. Flat7(h, k, Word.text, l, x.message, <<0>>, f)
  <2> HIDE DEF k, l, f
  <2>1. QED
    BY <1>3, <1>5, <1>6, <1>7, <1>8, <1>9, FlatIs7, Zenon
<1>11. p = h \o s1 /\ p \in Str /\ s1 \in Str /\ e \in Str
  BY <1>10, Zenon DEF Flat7
<1> HIDE DEF p, s1
<1>12. c \in Str
  BY <1>3, <1>11, Cat, Zenon
<1>13. p = <<10>> \o c
  <2>1. AssocIs(<<10>>, <<8>>, s1)
    BY <1>3, <1>11, Assoc, Zenon
  <2>2. QED
    BY <1>4, <1>11, <2>1, Zenon DEF AssocIs
<1>14. Len(c) >= 2
  <2>1. Len(c) = 1 + Len(s1)
    BY <1>2, <1>11, FirstOf, Zenon
  <2> DEFINE q == Word.text \o (l \o (x.message \o (<<0>> \o e)))
  <2>2. <<0>> \o e \in Str
    BY <1>3, <1>11, Cat, Zenon
  <2>3. x.message \o (<<0>> \o e) \in Str
    BY <2>2, Cat, Zenon
  <2>4. l \o (x.message \o (<<0>> \o e)) \in Str
    BY <1>7, <2>3, Cat, Zenon
  <2>5. q \in Str
    BY <1>9, <2>4, Cat, Zenon
  <2>6. s1 = k \o q
    BY Zenon DEF s1
  <2>7. Len(k) = 2
    <3>1. 4 \in Nat /\ 4 <= MaxU16
      BY SMT DEF MaxU16
    <3>2. QED
      BY <3>1, U16Shape, Zenon
  <2> HIDE DEF q, k, c
  <2>8. Len(s1) = Len(k) + Len(q) /\ Len(q) \in Nat
    BY <1>6, <2>5, <2>6, Cat
  <2>9. QED
    BY <2>1, <2>7, <2>8
<1>15. Tail(p) = c /\ p[1] = 10 /\ p # <<>>
  BY <1>2, <1>12, <1>13, FirstOf, Zenon
<1>16. c = <<8>> \o (Short(4) \o (Word.text \o (Short(Len(x.message)) \o (x.message \o (<<0>> \o e)))))
  BY Zenon DEF s1
<1> HIDE DEF c
<1>17. ReadTags(c) = Got(x.message, e)
  <2> HIDE DEF e
  <2>1. e \in Str
    BY <1>11, Zenon
  <2>2. QED
    BY <1>12, <1>14, <1>16, <2>1, TagsRead, Zenon
<1>18. decode_system_chat(RawPacket(SystemChatId(v), p), v)
         = Got([message |-> x.message, overlay |-> x.overlay], <<>>)
  BY <1>11, <1>15, <1>17, ChatAt, Zenon
<1>19. IsNewChat(x, p)
  BY <1>11, <1>12, <1>13, <1>16, Zenon DEF IsNewChat
<1>20. QED
  BY <1>1, <1>11, <1>18, <1>19, Zenon

(* The text that a JSON object is made of. *)
LEMMA JsonBack ==
  ASSUME NEW t \in Str
  PROVE  /\ Json(t) \in Str /\ Len(Json(t)) = 11 + Len(t) /\ JsonText(Json(t)) = t
<1> DEFINE a == Word.json_open
           z == Word.json_close
           j == a \o t \o z
<1>1. a \in Str /\ z \in Str /\ Len(a) = 9 /\ Len(z) = 2 /\ Len(t) \in Nat
  BY WordsKnown, Cat, Zenon
<1>2. Json(t) = j
  BY Zenon DEF Json
<1>3. JsonText(j) = SubSeq(j, Len(a) + 1, Len(j) - Len(z))
  BY Zenon DEF JsonText
<1> HIDE DEF a, z
<1>4. a \o t \in Str /\ t \o z \in Str
  BY <1>1, Cat, Zenon
<1>5. j \in Str
  BY <1>1, <1>4, Cat, Zenon
<1>6. Len(j) = 11 + Len(t)
  <2> DEFINE b == a \o t
  <2>1. Len(b) = Len(a) + Len(t)
    BY <1>1, Cat, Zenon
  <2> HIDE DEF b
  <2>2. Len(b \o z) = Len(b) + Len(z)
    BY <1>1, <1>4, Cat, Zenon DEF b
  <2>3. Len(j) = Len(b) + Len(z)
    BY <2>2, Zenon DEF b
  <2>4. QED
    BY <1>1, <2>1, <2>3
<1>7. j = a \o (t \o z)
  BY <1>1, Assoc, Zenon DEF AssocIs
<1>8. SubSeq(j, Len(a) + 1, Len(j)) = t \o z
  <2>1. SubSeq(a \o (t \o z), Len(a) + 1, Len(a \o (t \o z))) = t \o z
    BY <1>1, <1>4, CutFront DEF Str
  <2>2. QED
    BY <1>7, <2>1, Zenon
<1> HIDE DEF j
<1> DEFINE g == SubSeq(j, Len(a) + 1, Len(j) - Len(z))
<1>9. g \in Seq(Bytes) /\ Len(g) = Len(t) /\ \A i \in 1 .. Len(t) : g[i] = j[9 + i]
  <2>0. Len(a) + 1 = 10 /\ Len(j) - Len(z) = 9 + Len(t)
    BY <1>1, <1>6
  <2>1. g = SubSeq(j, 10, 9 + Len(t))
    BY <2>0, Zenon
  <2>2. \A i \in 10 .. 9 + Len(t) : j[i] \in Bytes
    BY <1>1, <1>5, <1>6, ElementOfSeq DEF Str
  <2>3. /\ g \in Seq(Bytes)
        /\ Len(g) = IF 10 <= 9 + Len(t) THEN 9 + Len(t) - 10 + 1 ELSE 0
        /\ \A i \in 1 .. 9 + Len(t) - 10 + 1 : g[i] = j[10 + i - 1]
    BY <1>1, <2>1, <2>2, SubSeqProperties
  <2> HIDE DEF g
  <2>4. QED
    BY <1>1, <2>3
<1>10. \A i \in 1 .. Len(t) : j[9 + i] = t[i]
  <2>1. TAKE i \in 1 .. Len(t)
  <2> DEFINE y == t \o z
  <2>2. y[i] = t[i]
    BY <1>1, ConcatProperties DEF Str
  <2>3. j = a \o y /\ y \in Str /\ Len(y) = Len(t) + Len(z)
    BY <1>1, <1>4, <1>7, Cat, Zenon
  <2> HIDE DEF y
  <2>4. j[9 + i] = y[i]
    <3>1. Len(j) = Len(a) + Len(y) /\ 9 + i \in 1 .. Len(j) /\ ~(9 + i <= Len(a)) /\ (9 + i) - Len(a) = i
      BY <1>1, <1>6, <2>3
    <3>2. (a \o y)[9 + i] = IF 9 + i <= Len(a) THEN a[9 + i] ELSE y[(9 + i) - Len(a)]
      BY <1>1, <2>3, <3>1, ConcatProperties DEF Str
    <3>3. QED
      BY <2>3, <3>1, <3>2, Zenon
  <2>5. QED
    BY <2>2, <2>4, Zenon
<1> HIDE DEF g
<1>11. g = t
  <2>1. \A i \in 1 .. Len(g) : g[i] = t[i]
    BY <1>9, <1>10, Zenon
  <2>2. QED
    BY <1>9, <2>1, SeqEqual, Zenon DEF Str
<1>12. QED
  BY <1>2, <1>3, <1>5, <1>6, <1>11, Zenon DEF g

LEMMA FirstOfVarInt ==
  ASSUME NEW n \in Int32, n >= 11
  PROVE  encode_varint(n)[1] # 10
<1> DEFINE e == encode_varint(n)
<1>1. /\ Len(e) = LastGroup(n)
      /\ \A i \in 1 .. Len(e) : e[i] = Group(n, i) + (IF i < Len(e) THEN 128 ELSE 0)
  BY EncodeShape, Zenon
<1>2. LastGroup(n) \in 1 .. 5 /\ (\A i \in 1 .. 5 : i > LastGroup(n) => Group(n, i) = 0)
  BY LastShape
<1>3. \A i \in 1 .. 5 : Group(n, i) \in 0 .. 127
  BY GroupsSum
<1> HIDE DEF e
<1>4. CASE LastGroup(n) > 1
  <2>1. e[1] = Group(n, 1) + 128
    BY <1>1, <1>2, <1>4
  <2>2. Group(n, 1) \in 0 .. 127
    BY <1>3
  <2>3. QED
    BY <2>1, <2>2 DEF e
<1>5. CASE LastGroup(n) = 1
  <2>1. e[1] = Group(n, 1)
    <3>1. 1 \in 1 .. Len(e) /\ ~(1 < Len(e)) /\ Group(n, 1) \in 0 .. 127
      BY <1>1, <1>3, <1>5
    <3>2. e[1] = Group(n, 1) + (IF 1 < Len(e) THEN 128 ELSE 0)
      BY <1>1, <3>1, Zenon
    <3>3. e[1] = Group(n, 1) + 0
      BY <3>1, <3>2, Zenon
    <3> DEFINE k == Group(n, 1)
    <3>4. k + 0 = k
      <4>1. k \in 0 .. 127
        BY <3>1, Zenon
      <4> HIDE DEF k
      <4>2. QED
        BY <4>1
    <3>5. QED
      BY <3>3, <3>4, Zenon
  <2>2. Group(n, 1) = n
    <3>1. /\ Group(n, 2) = 0 /\ Group(n, 3) = 0 /\ Group(n, 4) = 0 /\ Group(n, 5) = 0
      BY <1>2, <1>5
    <3>2. QED
      BY <3>1, GroupsSum
  <2>3. QED
    BY <2>1, <2>2 DEF e
<1>6. QED
  BY <1>2, <1>4, <1>5

LEMMA SystemChatOld ==
  ASSUME NEW x, x.message \in Str, Len(x.message) <= MaxInt32 - 11, x.overlay \in Bools,
         NEW v \in Int, v < 766
  PROVE  \E p \in Str :
           /\ encode_system_chat(x, v) = RawPacket(SystemChatId(v), p) /\ IsOldChat(x, p)
           /\ decode_system_chat(RawPacket(SystemChatId(v), p), v)
                = Got([message |-> x.message, overlay |-> x.overlay], <<>>)
<1> DEFINE j == Json(x.message)
           f == Flag(x.overlay)
           p == Text(j) \o f
           e == f \o <<>>
           n == encode_varint(Len(j))
<1>1. encode_system_chat(x, v) = RawPacket(SystemChatId(v), p)
  BY DEF encode_system_chat
<1>2. j \in Str /\ Len(j) = 11 + Len(x.message) /\ JsonText(j) = x.message /\ Len(x.message) \in Nat
  BY JsonBack, Cat, Zenon
<1>3. f \in Str
  BY BoolsStr, Zenon
<1> HIDE DEF j
<1>4. j \in Field /\ Len(j) \in Int32 /\ Len(j) >= 11
  BY <1>2, SMT DEF Field, MaxInt32, Int32
<1>5. Text(j) \in Str /\ Text(j) = n \o j /\ n \in Str
  BY <1>4, TextShape, Zenon
<1>6. Flat2(Text(j), f)
  BY <1>3, <1>5, FlatIs2, Zenon
<1>7. p = Text(j) \o e /\ p \in Str /\ e \in Str
  BY <1>6, Zenon DEF Flat2
<1>a. p = Text(Json(x.message)) \o (Flag(x.overlay) \o <<>>)
  BY <1>7, Zenon DEF j
<1>8. p[1] # 10 /\ p # <<>>
  <2> DEFINE d == j \o e
  <2>1. d \in Str /\ Len(d) \in Nat
    BY <1>2, <1>7, Cat
  <2>0. AssocIs(n, j, e)
    <3> HIDE DEF n, e
    <3>1. QED
      BY <1>2, <1>5, <1>7, Assoc, Zenon
  <2>2. p = n \o d
    <3> HIDE DEF p, e, n
    <3>1. QED
      BY <1>5, <1>7, <2>0, Zenon DEF AssocIs
  <2>3. n[1] # 10
    BY <1>4, FirstOfVarInt, Zenon
  <2>4. Len(n) = LastGroup(Len(j)) /\ LastGroup(Len(j)) \in 1 .. 5
    BY <1>4, EncodeShape, LastShape, Zenon
  <2> HIDE DEF n, d, p
  <2>5. Len(p) = Len(n) + Len(d)
    BY <1>5, <2>1, <2>2, Cat, Zenon
  <2>6. p[1] = n[1]
    BY <1>5, <2>1, <2>2, <2>4, <2>5, ConcatProperties DEF Str
  <2>7. p # <<>>
    BY <2>1, <2>4, <2>5
  <2>8. QED
    BY <2>3, <2>6, <2>7, Zenon
<1> HIDE DEF p, e
<1>9. At(Start(p), <<>>, Text(j) \o e, <<>>)
  BY <1>7, StartAt, Zenon
<1> DEFINE g == GetText(Start(p))
<1>10. At(g, j, e, <<>>)
  BY <1>4, <1>7, <1>9, Empty, TextAt, Zenon
<1> HIDE DEF g
<1>11. g = Got(j, e) /\ g.val = j
  BY <1>7, <1>10, AtWhole, Zenon
<1>12. With(g, JsonText(g.val)) = Got(x.message, e)
  BY <1>2, <1>11, WithParts, Zenon
<1>13. decode_system_chat(RawPacket(SystemChatId(v), p), v)
         = Got([message |-> x.message, overlay |-> x.overlay], <<>>)
  BY <1>7, <1>8, <1>12, ChatAt, Zenon DEF g, e
<1>14. IsOldChat(x, p)
  BY <1>4, <1>8, <1>a, Zenon DEF IsOldChat, j
<1>15. QED
  BY <1>1, <1>7, <1>13, <1>14, Zenon DEF p

(* The bytes that are left for a flag that is read as FALSE, or for none. *)
Unset == {<<>>, <<0>>}

(* What decode_system_chat makes of a payload, whatever it holds, when the text t is read
   and the bytes u are left, or when no text is read. *)
ChatRead(r, t, u) ==
  \/ r = Failed
  \/ \E o, w : r = Got([message |-> t, overlay |-> o], w) /\ (u \in Unset => o = FALSE)

LEMMA OverlayLeft ==
  ASSUME NEW t, NEW u, u \in Unset
  PROVE  \E w : IfLeft(1, Got(t, u), GetBool(Got(t, u)), FALSE) = Got(FALSE, w)
<1> DEFINE g == Got(t, u)
<1>1. g.ok /\ g.rest = u
  BY GotParts, Zenon
<1>a. \A x : With(g, x) = Got(x, u)
  BY WithParts, Zenon
<1> HIDE DEF g
<1>2. CASE u = <<>>
  <2>1. ~(Len(g.rest) >= 1)
    <3>1. Len(<<>>) = 0 /\ ~(0 >= 1)
      OBVIOUS
    <3>2. g.rest = <<>>
      BY <1>1, <1>2, Zenon
    <3>3. QED
      BY <3>1, <3>2, Zenon
  <2>2. IfLeft(1, g, GetBool(g), FALSE) = With(g, FALSE)
    BY <2>1, Zenon DEF IfLeft
  <2>3. QED
    BY <1>a, <2>2, Zenon DEF g
<1>3. CASE u # <<>>
  <2>0. u = <<0>>
    BY <1>3, Zenon DEF Unset
  <2>1. Len(g.rest) >= 1 /\ g.rest # <<>> /\ Head(g.rest) = 0
    BY <1>1, <2>0
  <2>2. GetU8(g) = Got(0, Tail(g.rest))
    BY <1>1, <2>1, Zenon DEF GetU8
  <2>3. GetBool(g) = With(Got(0, Tail(g.rest)), Got(0, Tail(g.rest)).val # 0)
    BY <2>2, Zenon DEF GetBool
  <2>4. Got(0, Tail(g.rest)).val = 0
    BY GotParts, Zenon
  <2>5. (Got(0, Tail(g.rest)).val # 0) = FALSE
    BY <2>4
  <2>6. GetBool(g) = Got(FALSE, Tail(g.rest))
    BY <2>3, <2>5, WithParts, Zenon
  <2>7. IfLeft(1, g, GetBool(g), FALSE) = GetBool(g)
    BY <1>1, <2>1, Zenon DEF IfLeft
  <2>8. QED
    BY <2>6, <2>7, Zenon DEF g
<1>4. QED
  BY <1>2, <1>3, Zenon

LEMMA ChatSees ==
  ASSUME NEW v \in Int, NEW p, NEW t, NEW u, NEW text, text = Got(t, u) \/ text = Failed,
         \/ p[1] = 10 /\ text = ReadTags(Tail(p))
         \/ p[1] # 10 /\ text = With(GetText(Start(p)), JsonText(GetText(Start(p)).val))
  PROVE  ChatRead(decode_system_chat(RawPacket(SystemChatId(v), p), v), t, u)
<1> DEFINE raw  == RawPacket(SystemChatId(v), p)
           json == GetText(Start(raw.payload))
           read == IF raw.payload[1] = 10 THEN ReadTags(Tail(raw.payload))
                   ELSE With(json, JsonText(json.val))
           over == IfLeft(1, text, GetBool(text), FALSE)
           seen == With(over, [message |-> text.val, overlay |-> over.val])
<1>1. raw.payload = p
  BY RawParts, Zenon
<1>2. read = text
  BY <1>1, Zenon
<1>3. decode_system_chat(raw, v) =
        IF raw.id \notin {SystemChatId(v)} \cup is_valid_system_chat_id \/ raw.payload = <<>>
        THEN Failed ELSE With(IfLeft(1, read, GetBool(read), FALSE),
                              [message |-> read.val,
                               overlay |-> IfLeft(1, read, GetBool(read), FALSE).val])
  BY Zenon DEF decode_system_chat
<1> HIDE DEF read, raw
<1>4. decode_system_chat(raw, v) \in {Failed, seen}
  BY <1>2, <1>3, Zenon
<1>5. CASE text = Failed
  <2>1. over = Failed
    BY <1>5, FailedParts, WithParts, Zenon DEF IfLeft
  <2>2. seen = Failed
    BY <2>1, WithParts, Zenon
  <2>3. QED
    BY <1>4, <2>2, Zenon DEF ChatRead, raw
<1>6. CASE text = Got(t, u)
  <2>1. text.val = t
    BY <1>6, GotParts, Zenon
  <2> DEFINE o == over.val
             w == over.rest
  <2>2. seen = Failed \/ seen = Got([message |-> t, overlay |-> o], w)
    BY <2>1, Zenon DEF With
  <2>3. ASSUME u \in Unset PROVE o = FALSE
    <3>0. \E z : IfLeft(1, text, GetBool(text), FALSE) = Got(FALSE, z)
      <4>1. \E z : IfLeft(1, Got(t, u), GetBool(Got(t, u)), FALSE) = Got(FALSE, z)
        BY <2>3, OverlayLeft, Zenon
      <4>2. QED
        BY <1>6, <4>1, Zenon
    <3>1. PICK z : over = Got(FALSE, z)
      BY <3>0, Zenon
    <3> HIDE DEF over
    <3>2. QED
      BY <3>1, GotParts, Zenon
  <2> HIDE DEF o, w, seen
  <2>4. QED
    BY <1>4, <2>2, <2>3, Zenon DEF ChatRead, raw
<1>7. QED
  BY <1>5, <1>6, Zenon

(* The loop over the tags stays within what each turn of it stays within. *)
LEMMA TagsWithin ==
  ASSUME NEW b \in Str, NEW S, Tags(FALSE, <<>>, b) \in S, \A st \in S : NextTag(st) \in S
  PROVE  \E st \in S : ReadTags(b) = Got(st.message, st.rest)
<1> DEFINE N == Len(b)
           z == Tags(FALSE, <<>>, b)
           Is(g) == g = [n \in 0 .. N |-> IF n = 0 THEN z ELSE NextTag(g[n - 1])]
           after == CHOOSE g : Is(g)
           last  == after[N]
<1>1. ReadTags(b) = Got(last.message, last.rest)
  BY Zenon DEF ReadTags, Tags
<1>2. N \in Nat
  BY Cat
<1> HIDE DEF N
<1>3. Is(after)
  <2>1. \E g : Is(g)
    BY <1>2, TagsLoop, Zenon
  <2>2. QED
    BY <2>1, Zenon
<1> HIDE DEF after, z
<1>4. after[0] = z /\ \A i \in 1 .. N : after[i] = NextTag(after[i - 1])
  BY <1>2, <1>3
<1> DEFINE C == {i \in 0 .. N : after[i] \in S}
<1>5. z \in S
  BY Zenon DEF z
<1>6. 0 \in C
  BY <1>2, <1>4, <1>5
<1>7. ASSUME NEW i \in 1 .. N, i - 1 \in C PROVE i \in C
  <2>1. i \in 0 .. N
    BY <1>2
  <2>2. after[i - 1] \in S
    BY <1>7, Zenon
  <2>3. after[i] \in S
    BY <1>4, <2>2, Zenon
  <2>4. QED
    BY <2>1, <2>3, Zenon
<1> HIDE DEF C
<1>8. \A i \in 0 .. N : i \in C
  BY <1>2, <1>6, <1>7, UpTo, Zenon
<1>9. N \in C
  <2>1. N \in 0 .. N
    BY <1>2
  <2>2. QED
    BY <1>8, <2>1, Zenon
<1>10. last \in S
  BY <1>9, Zenon DEF C
<1>11. QED
  BY <1>1, <1>10, Zenon

(* The loop does not go on once it is done, or when nothing is left. *)
LEMMA TagsStay ==
  ASSUME NEW t, NEW u
  PROVE  NextTag(Tags(TRUE, t, u)) = Tags(TRUE, t, u) /\ NextTag(Tags(FALSE, t, <<>>)) = Tags(FALSE, t, <<>>)
<1>1. Tags(TRUE, t, u).done
  BY TagsClosed, Zenon
<1>2. Tags(FALSE, t, <<>>).rest = <<>>
  BY DEF Tags
<1>3. QED
  BY <1>1, <1>2, Zenon DEF NextTag

HasRead(r, x, s, m) == r.ok /\ r.val = x /\ r.rest \in Str /\ r.rest \o m = s

LEMMA AtRest ==
  ASSUME NEW r, NEW x, NEW s, NEW m, At(r, x, s, m), r # Failed
  PROVE  HasRead(r, x, s, m)
BY AtParts, Zenon DEF HasRead

(* The first turn of the loop over what is there of the tag. *)
FirstTag(st, msg, e, m) ==
  \/ \E u : st = Tags(TRUE, <<>>, u)
  \/ \E u \in Str : st = Tags(FALSE, msg, u) /\ u \o m = e

LEMMA TagTextCut ==
  ASSUME NEW msg \in Str, Len(msg) <= MaxU16, NEW e \in Str, NEW s \in Str, NEW m \in Str,
         s \o m = Short(4) \o (Word.text \o (Short(Len(msg)) \o (msg \o e)))
  PROVE  FirstTag(NextTag(Tags(FALSE, <<>>, <<8>> \o s)), msg, e, m)
<1> DEFINE s3 == Short(Len(msg)) \o (msg \o e)
           s2 == Short(4) \o (Word.text \o s3)
           b  == <<8>> \o s
           st == Tags(FALSE, <<>>, b)
           key == GetSized(Start(Tail(b)))
           str == GetSized(key)
           past(c) == IF Len(c) < 2 THEN c ELSE SubSeq(c, 3, Len(c))
<1>1. Word.text \in Str /\ Len(Word.text) = 4 /\ 4 \in Nat /\ 4 <= MaxU16
  <2>1. 4 \in Nat /\ 4 <= MaxU16
    BY SMT DEF MaxU16
  <2>2. QED
    BY <2>1, WordsKnown, Zenon
<1>2. Len(msg) \in Nat
  BY Cat, Zenon
<1>3. Short(Len(msg)) \in Str
  BY <1>2, U16Shape, Zenon
<1>4. msg \o e \in Str
  BY Cat, Zenon
<1>5. s3 \in Str
  BY <1>3, <1>4, Cat, Zenon
<1>8. Tail(b) = s /\ b[1] = 8 /\ b # <<>>
  <2>1. 8 \in Bytes
    BY DEF Bytes
  <2>2. QED
    BY <2>1, FirstOf, Zenon
<1>9. At(Start(s), <<>>, s2, m)
  BY Zenon DEF At, Start
<1>10. key = GetSized(Start(s))
  BY <1>8, Zenon
<1> HIDE DEF b
<1>12. At(key, Word.text, s3, m)
  <2> HIDE DEF s3, key
  <2>1. QED
    BY <1>1, <1>5, <1>9, <1>10, SizedAt, Zenon
<1> HIDE DEF key
<1>16. ~st.done /\ st.rest = b /\ st.message = <<>>
  BY TagsOpen DEF Tags
<1>17. b[1] # 0
  BY <1>8
<1> HIDE DEF st
<1>18. CASE key = Failed
  <2>1. ~key.ok
    BY <1>18, FailedParts, Zenon
  <2>2. NextTag(st) = [done |-> TRUE, message |-> st.message, rest |-> past(Tail(b))]
    BY <1>8, <1>16, <1>17, <2>1, Zenon DEF NextTag, key
  <2>3. NextTag(st) = Tags(TRUE, <<>>, past(Tail(b)))
    BY <1>16, <2>2, Zenon DEF Tags
  <2>4. QED
    BY <2>3, Zenon DEF FirstTag, st, b
<1>19. CASE key # Failed
  <2>1. key.ok /\ key.val = Word.text
    BY <1>12, <1>19, AtVal, Zenon
  <2>2. At(str, msg, e, m)
    BY <1>2, <1>12, SizedAt, Zenon
  <2> HIDE DEF str
  <2>3. CASE str = Failed
    <3>1. ~str.ok
      BY <2>3, FailedParts, Zenon
    <3>2. NextTag(st) = [done |-> TRUE, message |-> st.message, rest |-> past(key.rest)]
      BY <1>8, <1>16, <1>17, <2>1, <3>1, Zenon DEF NextTag, key, str
    <3>3. NextTag(st) = Tags(TRUE, <<>>, past(key.rest))
      BY <1>16, <3>2, Zenon DEF Tags
    <3>4. QED
      BY <3>3, Zenon DEF FirstTag, st, b
  <2>4. CASE str # Failed
    <3>0. HasRead(str, msg, e, m)
      BY <2>2, <2>4, AtRest, Zenon
    <3>1. str.ok /\ str.val = msg /\ str.rest \in Str /\ str.rest \o m = e
      BY <3>0, Zenon DEF HasRead
    <3> DEFINE w == str.rest
    <3>a. str.ok /\ str.val = msg /\ str.rest = w
      BY <3>1, Zenon
    <3> HIDE DEF w
    <3>b. ~st.done /\ st.rest = b
      BY <1>16, Zenon
    <3> HIDE DEF past
    <3>c. NextTag(st) = [done |-> FALSE, message |-> msg, rest |-> w]
      BY <1>8, <1>17, <2>1, <3>a, <3>b, Zenon DEF NextTag, key, str
    <3>2. NextTag(st) = [done |-> FALSE, message |-> msg, rest |-> str.rest]
      BY <3>c, Zenon DEF w
    <3>3. NextTag(st) = Tags(FALSE, msg, str.rest)
      BY <3>2, Zenon DEF Tags
    <3>4. QED
      BY <3>1, <3>3, Zenon DEF FirstTag, st, b
  <2>5. QED
    BY <2>3, <2>4
<1>20. QED
  BY <1>18, <1>19

(* The tags of a chat message, and what the loop hands back of a front of them. *)
NewTags(msg, o) ==
  <<8>> \o (Short(4) \o (Word.text \o (Short(Len(msg)) \o (msg \o (<<0>> \o (Flag(o) \o <<>>))))))

TextOrNone(r, msg) ==
  \E t, u : r = Got(t, u) /\ (t = <<>> \/ (t = msg /\ u \in Unset))

LEMMA OneMissing ==
  ASSUME NEW u \in Str, NEW m \in Str, m # <<>>, Len(u \o m) = 1
  PROVE  u = <<>>
<1>1. Len(u) + Len(m) = 1 /\ Len(u) \in Nat /\ Len(m) \in Nat
  BY Cat
<1>2. Len(m) # 0
  BY EmptySeq DEF Str
<1>3. Len(u) = 0
  BY <1>1, <1>2
<1>4. QED
  BY <1>3, EmptySeq DEF Str

LEMMA TagsCut ==
  ASSUME NEW msg \in Str, Len(msg) <= MaxU16, NEW o \in Bools, NEW d \in Str, NEW m \in Str,
         m # <<>>, d \o m = NewTags(msg, o)
  PROVE  TextOrNone(ReadTags(d), msg)
<1> DEFINE e  == <<0>> \o (Flag(o) \o <<>>)
           s2 == Short(4) \o (Word.text \o (Short(Len(msg)) \o (msg \o e)))
           z  == Tags(FALSE, <<>>, d)
           Fine(st) == st.message = <<>> \/ (st.message = msg /\ st.rest \in Unset)
<1>0. e \in Str /\ s2 \in Str /\ <<8>> \in Str /\ <<0>> \in Str /\ Flag(o) \in Str
      /\ Len(Flag(o)) = 1
  <2>1. 0 \in Bytes /\ 8 \in Bytes /\ 4 \in Nat /\ 4 <= MaxU16
    BY DEF Bytes, MaxU16
  <2>2. <<0>> \in Str /\ <<8>> \in Str
    BY <2>1, OneByte, Zenon
  <2>3. Flag(o) \in Str
    BY BoolsStr, Zenon
  <2>a. Len(Flag(o)) = 1
    BY DEF Flag
  <2>4. Flag(o) \o <<>> \in Str
    BY <2>3, Empty, Cat, Zenon
  <2>5. e \in Str
    BY <2>2, <2>4, Cat, Zenon
  <2>6. Len(msg) \in Nat /\ Word.text \in Str
    BY Cat, WordsKnown, Zenon
  <2>7. Short(Len(msg)) \in Str /\ Short(4) \in Str
    BY <2>1, <2>6, U16Shape, Zenon
  <2> HIDE DEF e
  <2>8. msg \o e \in Str
    BY <2>5, Cat, Zenon
  <2>9. Short(Len(msg)) \o (msg \o e) \in Str
    BY <2>7, <2>8, Cat, Zenon
  <2>10. Word.text \o (Short(Len(msg)) \o (msg \o e)) \in Str
    BY <2>6, <2>9, Cat, Zenon
  <2>11. s2 \in Str
    BY <2>7, <2>10, Cat, Zenon
  <2>12. QED
    BY <2>2, <2>3, <2>a, <2>5, <2>11, Zenon
<1>1. d = <<>> \/ \E s \in Str : d = <<8>> \o s /\ s \o m = s2
  <2>1. HasOrStops(<<8>>, s2, d, m)
    <3> HIDE DEF s2
    <3>1. d \o m = <<8>> \o s2
      BY Zenon DEF s2, e, NewTags
    <3>2. QED
      BY <1>0, <3>1, Split, Zenon
  <2>2. Len(d) < 1 => d = <<>>
    BY Cat, EmptySeq DEF Str
  <2>3. Len(<<8>>) = 1
    OBVIOUS
  <2> HIDE DEF s2
  <2>4. QED
    BY <2>1, <2>2, <2>3, Zenon DEF HasOrStops
<1>2. ASSUME NEW u \in Str, u \o m = e PROVE u \in Unset
  <2>1. HasOrStops(<<0>>, Flag(o) \o <<>>, u, m)
    <3>1. Flag(o) \o <<>> \in Str
      BY <1>0, Empty, Zenon
    <3>2. QED
      BY <1>0, <1>2, <3>1, Split, Zenon
  <2>2. Len(u) < 1 => u = <<>>
    BY Cat, EmptySeq DEF Str
  <2>3. Len(<<0>>) = 1
    OBVIOUS
  <2>4. CASE Len(u) < 1
    BY <2>2, <2>4 DEF Unset
  <2>5. CASE \E w \in Str : u = <<0>> \o w /\ w \o m = Flag(o) \o <<>>
    <3>0. PICK w \in Str : u = <<0>> \o w /\ w \o m = Flag(o) \o <<>>
      BY <2>5
    <3>1. Flag(o) \o <<>> = Flag(o)
      BY <1>0, Empty, Zenon
    <3>2. w \o m = Flag(o)
      BY <3>0, <3>1, Zenon
    <3>3. Len(w \o m) = 1
      BY <1>0, <3>2, Zenon
    <3>4. w = <<>>
      BY <3>3, OneMissing, Zenon
    <3>5. u = <<0>>
      BY <1>0, <3>0, <3>4, Empty, Zenon
    <3>6. QED
      BY <3>5, Zenon DEF Unset
  <2>6. QED
    BY <2>1, <2>3, <2>4, <2>5, Zenon DEF HasOrStops
<1>3. CASE d = <<>>
  <2> DEFINE Q == {z}
  <2>1. z \in Q /\ \A st \in Q : NextTag(st) \in Q
    BY <1>3, TagsStay, Zenon
  <2>2. z.message = <<>>
    BY DEF Tags
  <2> HIDE DEF Q
  <2>3. PICK st \in Q : ReadTags(d) = Got(st.message, st.rest)
    BY <2>1, TagsWithin, Zenon
  <2>4. st.message = <<>>
    BY <2>2, Zenon DEF Q
  <2>5. QED
    BY <2>3, <2>4, Zenon DEF TextOrNone
<1>4. CASE \E s \in Str : d = <<8>> \o s /\ s \o m = s2
  <2>1. PICK s \in Str : d = <<8>> \o s /\ s \o m = s2
    BY <1>4
  <2>2. FirstTag(NextTag(z), msg, e, m)
    <3> HIDE DEF e
    <3>1. s \o m = Short(4) \o (Word.text \o (Short(Len(msg)) \o (msg \o e)))
      BY <2>1, Zenon
    <3>2. FirstTag(NextTag(Tags(FALSE, <<>>, <<8>> \o s)), msg, e, m)
      BY <1>0, <3>1, TagTextCut, Zenon
    <3>3. QED
      BY <2>1, <3>2, Zenon
  <2> HIDE DEF z, e, s2
  <2>4. z.message = <<>>
    BY DEF z, Tags
  <2>5. CASE \E u : NextTag(z) = Tags(TRUE, <<>>, u)
    <3>1. PICK u : NextTag(z) = Tags(TRUE, <<>>, u)
      BY <2>5
    <3> DEFINE Q == {z, NextTag(z)}
    <3>2. \A st \in Q : NextTag(st) \in Q
      BY <3>1, TagsStay, Zenon
    <3>3. NextTag(z).message = <<>>
      BY <3>1 DEF Tags
    <3>4. \A st \in Q : st.message = <<>>
      BY <2>4, <3>3, Zenon
    <3>5. Tags(FALSE, <<>>, d) \in Q
      BY Zenon DEF z
    <3> HIDE DEF Q
    <3>6. PICK st \in Q : ReadTags(d) = Got(st.message, st.rest)
      BY <3>2, <3>5, TagsWithin, Zenon
    <3>7. QED
      BY <3>4, <3>6, Zenon DEF TextOrNone
  <2>6. CASE \E u \in Str : NextTag(z) = Tags(FALSE, msg, u) /\ u \o m = e
    <3>1. PICK u \in Str : NextTag(z) = Tags(FALSE, msg, u) /\ u \o m = e
      BY <2>6
    <3>2. u = <<>> \/ u = <<0>>
      BY <1>2, <3>1, Zenon DEF Unset
    <3> DEFINE f1 == Tags(FALSE, msg, <<>>)
               f2 == Tags(FALSE, msg, <<0>>)
               f3 == Tags(TRUE, msg, <<>>)
               Q  == {z, f1, f2, f3}
    <3>3. NextTag(f1) = f1 /\ NextTag(f3) = f3
      BY TagsStay, Zenon
    <3>4. NextTag(f2) = f3
      <4>1. <<>> \in Str /\ <<0>> \o <<>> = <<0>>
        BY <1>0, Empty, Zenon
      <4>2. NextTag(Tags(FALSE, msg, <<0>> \o <<>>)) = Tags(TRUE, msg, <<>>)
        BY <4>1, TagEnd, Zenon
      <4>3. QED
        BY <4>1, <4>2, Zenon
    <3>5. NextTag(z) = f1 \/ NextTag(z) = f2
      BY <3>1, <3>2, Zenon
    <3>6. Fine(f1) /\ Fine(f2) /\ Fine(f3)
      BY DEF Tags, Unset
    <3>7. Fine(z)
      BY <2>4, Zenon
    <3> HIDE DEF f1, f2, f3, Fine
    <3>8. (\A st \in Q : NextTag(st) \in Q) /\ (\A st \in Q : Fine(st)) /\ z \in Q
      BY <3>3, <3>4, <3>5, <3>6, <3>7, Zenon
    <3> HIDE DEF Q
    <3>9. PICK st \in Q : ReadTags(d) = Got(st.message, st.rest)
      BY <3>8, TagsWithin, Zenon DEF z
    <3>10. Fine(st)
      BY <3>8, Zenon
    <3>11. QED
      BY <3>9, <3>10, Zenon DEF Fine, TextOrNone
  <2>7. QED
    BY <2>2, <2>5, <2>6, Zenon DEF FirstTag
<1>5. QED
  BY <1>1, <1>3, <1>4

(* What is read of a chat message of which the bytes m are missing, as CutNeverForged
   has it. *)
ChatCut(r, x, v) ==
  \/ r = Failed
  \/ \E t, o, w : /\ r = Got([message |-> t, overlay |-> o], w)
                  /\ (v >= 766 /\ t = <<>>) \/ (t = x.message /\ o = FALSE)

LEMMA SystemChatCut ==
  ASSUME NEW x, x.message \in Str, Len(x.message) <= MaxU16, x.overlay \in Bools, NEW v \in Int,
         NEW p \in Str, v >= 766 => IsNewChat(x, p), v < 766 => IsOldChat(x, p),
         NEW b \in Str, NEW m \in Str, b \o m = p, m # <<>>
  PROVE  ChatCut(decode_system_chat(RawPacket(SystemChatId(v), b), v), x, v)
<1> DEFINE r == decode_system_chat(RawPacket(SystemChatId(v), b), v)
<1>1. CASE b = <<>>
  <2>1. RawPacket(SystemChatId(v), b).payload = <<>>
    BY <1>1, RawParts, Zenon
  <2>2. r = Failed
    BY <2>1, Zenon DEF decode_system_chat
  <2>3. QED
    BY <2>2, Zenon DEF ChatCut
<1>2. CASE b # <<>> /\ v >= 766
  <2> DEFINE q == NewTags(x.message, x.overlay)
  <2>1. p = <<10>> \o q /\ q \in Str
    BY <1>2, Zenon DEF IsNewChat, NewTags
  <2>2. 10 \in Bytes
    BY DEF Bytes
  <2> HIDE DEF q
  <2>3. <<10>> \in Str /\ Len(<<10>>) = 1
    BY <2>2, OneByte
  <2>4. HasOrStops(<<10>>, q, b, m)
    BY <2>1, <2>3, Split, Zenon
  <2>5. Len(b) < 1 => b = <<>>
    BY Cat, EmptySeq DEF Str
  <2>6. PICK d \in Str : b = <<10>> \o d /\ d \o m = q
    BY <1>2, <2>3, <2>4, <2>5, Zenon DEF HasOrStops
  <2>7. b[1] = 10 /\ Tail(b) = d
    BY <2>2, <2>6, FirstOf, Zenon
  <2>8. TextOrNone(ReadTags(d), x.message)
    <3>1. d \o m = NewTags(x.message, x.overlay)
      BY <2>6, Zenon DEF q
    <3>2. QED
      BY <3>1, TagsCut, Zenon
  <2>9. PICK t, u : ReadTags(d) = Got(t, u) /\ (t = <<>> \/ (t = x.message /\ u \in Unset))
    BY <2>8, Zenon DEF TextOrNone
  <2>10. ChatRead(r, t, u)
    <3> DEFINE text == ReadTags(Tail(b))
    <3>1. text = Got(t, u)
      BY <2>7, <2>9, Zenon
    <3> HIDE DEF text
    <3>2. b[1] = 10 /\ text = ReadTags(Tail(b))
      BY <2>7, Zenon DEF text
    <3>3. QED
      BY <3>1, <3>2, ChatSees, Zenon
  <2> HIDE DEF r
  <2>11. QED
    BY <1>2, <2>9, <2>10, Zenon DEF ChatRead, ChatCut, r
<1>3. CASE b # <<>> /\ v < 766
  <2> DEFINE j == Json(x.message)
             e == Flag(x.overlay) \o <<>>
             g == GetText(Start(b))
             text == With(g, JsonText(g.val))
  <2>1. p = Text(j) \o e /\ p[1] # 10 /\ j \in Field
    BY <1>3, Zenon DEF IsOldChat
  <2>2. JsonText(j) = x.message
    BY JsonBack, Zenon
  <2>3. Flag(x.overlay) \in Str /\ e = Flag(x.overlay) /\ Len(Flag(x.overlay)) = 1
    <3>1. Flag(x.overlay) \in Str
      BY BoolsStr, Zenon
    <3>2. Len(Flag(x.overlay)) = 1
      BY DEF Flag
    <3>3. QED
      BY <3>1, <3>2, Empty, Zenon
  <2> HIDE DEF j, e
  <2>4. At(Start(b), <<>>, Text(j) \o e, m)
    BY <2>1, Zenon DEF At, Start
  <2>5. At(g, j, e, m)
    BY <2>1, <2>3, <2>4, TextAt, Zenon
  <2>6. b[1] # 10
    <3>1. Len(b) \in Nat /\ Len(b) # 0 /\ Len(m) \in Nat
      BY <1>3, Cat, EmptySeq DEF Str
    <3>2. (b \o m)[1] = b[1]
      BY <3>1, ConcatProperties DEF Str
    <3>3. QED
      BY <2>1, <3>2, Zenon
  <2>7. \E u : u \in Unset /\ (text = Got(x.message, u) \/ text = Failed)
    <3> HIDE DEF g
    <3>1. CASE g = Failed
      BY <3>1, WithParts, Zenon DEF Unset
    <3>2. CASE g # Failed
      <4>1. HasRead(g, j, e, m)
        BY <2>5, <3>2, AtRest, Zenon
      <4>2. g.ok /\ g.val = j /\ g.rest \in Str /\ g.rest \o m = e
        BY <4>1, Zenon DEF HasRead
      <4>3. g.rest = <<>>
        <5> DEFINE u == g.rest
        <5>1. u \in Str /\ u \o m = e
          BY <4>2, Zenon
        <5> HIDE DEF u
        <5>2. Len(u \o m) = 1
          BY <2>3, <5>1, Zenon
        <5>3. u = <<>>
          BY <5>1, <5>2, OneMissing, Zenon
        <5>4. QED
          BY <5>3, Zenon DEF u
      <4>4. text = Got(x.message, <<>>)
        BY <2>2, <4>2, <4>3, Zenon DEF With
      <4>5. QED
        BY <4>4, Zenon DEF Unset
    <3>3. QED
      BY <3>1, <3>2, Zenon
  <2>8. PICK u : u \in Unset /\ (text = Got(x.message, u) \/ text = Failed)
    BY <2>7, Zenon
  <2>9. text = With(GetText(Start(b)), JsonText(GetText(Start(b)).val))
    BY Zenon
  <2> HIDE DEF text
  <2>10. ChatRead(r, x.message, u)
    BY <2>6, <2>8, <2>9, ChatSees, Zenon
  <2> HIDE DEF r
  <2>11. QED
    BY <2>8, <2>10, Zenon DEF ChatRead, ChatCut, r
<1>4. QED
  BY <1>1, <1>2, <1>3

-----------------------------------------------------------------------------
(* Login (Play), and the Respawn that stands in for it. *)
Placed(x) ==
  /\ x.dimension \in Int32 /\ x.dimension_type \in Field /\ x.dimension_name \in Field
  /\ x.hashed_seed \in Str /\ Len(x.hashed_seed) = 8 /\ x.gamemode \in Bytes
  /\ x.previous_gamemode \in -1 .. 127 /\ x.is_debug \in Bools /\ x.is_flat \in Bools
  /\ x.death \in Opts(Death) /\ x.portal_cooldown \in Int32 /\ x.sea_level \in Int32
  /\ x.is_hardcore \in Bools /\ x.dimension_names \in Seq(Field)
  /\ Len(x.dimension_names) <= MaxDimensions /\ x.max_players \in Int32
  /\ x.do_limited_crafting \in Bools

SpawnNow(x, v, s) ==
  SpawnBytes(x.dimension, x.dimension_name, x.hashed_seed, x.gamemode, x.previous_gamemode,
             x.is_debug, x.is_flat, x.death, x.portal_cooldown, x.sea_level, v, s)

SpawnThen(x, t) ==
  Text(x.dimension_type) \o (Text(x.dimension_name) \o (x.hashed_seed \o (<<x.gamemode>> \o
    (<<x.previous_gamemode % 256>> \o (Flag(x.is_debug) \o (Flag(x.is_flat) \o t))))))

LEMMA SpawnCat ==
  ASSUME NEW x, Placed(x), NEW v \in Int, NEW s \in Str
  PROVE  /\ WriteSpawnInfo(x, v) \in Str
         /\ v >= 766 => WriteSpawnInfo(x, v) \o s = SpawnNow(x, v, s)
         /\ v < 766 => \E t \in Str : WriteSpawnInfo(x, v) \o s = SpawnThen(x, t)
<1> DEFINE a == IF v >= 766 THEN encode_varint(x.dimension) ELSE Text(x.dimension_type)
           n == Text(x.dimension_name)
           g == <<x.gamemode>>
           h == <<x.previous_gamemode % 256>>
           k == <<x.gamemode, x.previous_gamemode % 256>>
           d == Flag(x.is_debug)
           f == Flag(x.is_flat)
           o == WriteDeath(x.death)
           c == encode_varint(x.portal_cooldown)
           L == SeaLevel(x.sea_level, v)
           W == a \o n \o x.hashed_seed \o k \o d \o f \o o \o c \o L
           s4 == d \o (f \o (o \o (c \o (L \o s))))
<1>1. WriteSpawnInfo(x, v) = W
  BY Zenon DEF WriteSpawnInfo, SeaLevel
<1>a. a \in Str
  BY VarIntShape, TextShape, Zenon DEF Placed
<1>n. n \in Str
  BY TextShape, Zenon DEF Placed
<1>x. x.hashed_seed \in Str
  BY Zenon DEF Placed
<1>g. g \in Str
  BY OneByte, Zenon DEF Placed
<1>h. h \in Str
  <2>1. x.previous_gamemode \in -128 .. 127
    BY DEF Placed
  <2>2. QED
    BY <2>1, I8Byte, Zenon
<1>k. k = g \o h
  OBVIOUS
<1>kk. k \in Str
  <2> HIDE DEF g, h, k
  <2>1. g \o h \in Str
    BY <1>g, <1>h, Cat, Zenon
  <2>2. QED
    BY <1>k, <2>1, Zenon
<1>d. d \in Str /\ f \in Str
  BY BoolsStr, Zenon DEF Placed
<1>o. o \in Str
  BY DeathShape, Zenon DEF Placed
<1>c. c \in Str
  BY VarIntShape, Zenon DEF Placed
<1>L. L \in Str
  BY SeaLevelStr, Zenon DEF Placed
<1>e. (v >= 766 => a = encode_varint(x.dimension)) /\ (v < 766 => a = Text(x.dimension_type))
  BY SMT
<1>u. (v >= 766 => SpawnNow(x, v, s) = encode_varint(x.dimension)
  \o (n \o (x.hashed_seed \o (g \o (h \o s4)))))
  BY Zenon DEF SpawnNow, SpawnBytes
<1>w. SpawnThen(x, o \o (c \o (L \o s)))
        = Text(x.dimension_type) \o (n \o (x.hashed_seed \o (g \o (h \o s4))))
  BY Zenon DEF SpawnThen
<1> HIDE DEF a, n, g, h, k, d, f, o, c, L
<1>2. Flat9(a, n, x.hashed_seed, k, d, f, o, c, L)
  BY <1>a, <1>n, <1>x, <1>kk, <1>d, <1>o, <1>c, <1>L, FlatIs9, Zenon
<1>3. W \in Str
  BY <1>2, Zenon DEF Flat9
<1>4. Flat10(a, n, x.hashed_seed, k, d, f, o, c, L, s)
  BY <1>a, <1>n, <1>x, <1>kk, <1>d, <1>o, <1>c, <1>L, FlatIs10, Zenon
<1>5. s \o <<>> = s
  BY Empty, Zenon
<1>6. /\ W \o s = a \o (n \o (x.hashed_seed \o (k \o s4))) /\ s4 \in Str
      /\ o \o (c \o (L \o s)) \in Str
  BY <1>4, <1>5, Zenon DEF Flat10
<1>7. k \o s4 = g \o (h \o s4)
  <2>1. AssocIs(g, h, s4)
    <3> HIDE DEF s4
    <3>1. QED
      BY <1>g, <1>h, <1>6, Assoc, Zenon
  <2>2. QED
    BY <1>k, <2>1, Zenon DEF AssocIs
<1> HIDE DEF W, s4
<1>8. W \o s = a \o (n \o (x.hashed_seed \o (g \o (h \o s4))))
  BY <1>6, <1>7, Zenon
<1>9. v >= 766 => W \o s = SpawnNow(x, v, s)
  BY <1>8, <1>e, <1>u, Zenon
<1>10. v < 766 => W \o s = SpawnThen(x, o \o (c \o (L \o s)))
  BY <1>8, <1>e, <1>w, Zenon
<1>11. QED
  BY <1>1, <1>3, <1>6, <1>9, <1>10, Zenon

Heading(q, k, e, p, i, j, f, g, h, s) ==
  q \o (Flag(k) \o (Many(e, Text) \o (encode_varint(p) \o (encode_varint(i) \o (encode_varint(j)
    \o (Flag(f) \o (Flag(g) \o (Flag(h) \o s))))))))

LEMMA FlagRaw ==
  ASSUME NEW r, NEW u, NEW x \in Bools, NEW s \in Str, NEW m \in Str, At(r, u, Flag(x) \o s, m)
  PROVE  At(GetRaw(1, r), Flag(x), s, m)
<1>1. Flag(x) \in Str
  BY BoolsStr, Zenon
<1>2. Len(Flag(x)) = 1
  BY DEF Flag
<1>3. QED
  BY <1>1, <1>2, RawNAt, Zenon

LEMMA LoginHeadAt ==
  ASSUME NEW r, NEW u, NEW q \in Str, Len(q) = 4, NEW k \in Bools, NEW e \in Seq(Field),
         Len(e) <= MaxDimensions, NEW p \in Int32, NEW i \in Int32, NEW j \in Int32,
         NEW f \in Bools, NEW g \in Bools, NEW h \in Bools, NEW s \in Str, NEW m \in Str,
         At(r, u, Heading(q, k, e, p, i, j, f, g, h, s), m)
  PROVE  At(LoginHead(r), Flag(h), s, m)
<1> DEFINE s8 == Flag(h) \o s
           s7 == Flag(g) \o s8
           s6 == Flag(f) \o s7
           s5 == encode_varint(j) \o s6
           s4 == encode_varint(i) \o s5
           s3 == encode_varint(p) \o s4
           s2 == Many(e, Text) \o s3
           s1 == Flag(k) \o s2
           r1 == GetRaw(4, r)
           r2 == GetRaw(1, r1)
           r3 == GetMany(r2, MaxDimensions, GetText)
           r4 == GetVarInt(r3)
           r5 == GetVarInt(r4)
           r6 == GetVarInt(r5)
           r7 == GetRaw(1, r6)
           r8 == GetRaw(1, r7)
           r9 == GetRaw(1, r8)
<1>w. /\ Flag(h) \in Str /\ Flag(g) \in Str /\ Flag(f) \in Str /\ Flag(k) \in Str
      /\ encode_varint(i) \in Str /\ encode_varint(j) \in Str /\ encode_varint(p) \in Str
      /\ Many(e, Text) \in Str
  BY BoolsStr, VarIntShape, TextsStr, Zenon
<1>s8. s8 \in Str
  BY <1>w, Cat, Zenon
<1>s7. s7 \in Str
  BY <1>w, <1>s8, Cat, Zenon
<1>s6. s6 \in Str
  BY <1>w, <1>s7, Cat, Zenon
<1>s5. s5 \in Str
  BY <1>w, <1>s6, Cat, Zenon
<1>s4. s4 \in Str
  BY <1>w, <1>s5, Cat, Zenon
<1>s3. s3 \in Str
  BY <1>w, <1>s4, Cat, Zenon
<1>s2. s2 \in Str
  BY <1>w, <1>s3, Cat, Zenon
<1>s1. s1 \in Str
  BY <1>w, <1>s2, Cat, Zenon
<1>0. At(r, u, q \o s1, m)
  BY Zenon DEF Heading
<1>l. LoginHead(r) = r9
  BY Zenon DEF LoginHead
<1>1. At(r1, q, s1, m)
  BY <1>0, <1>s1, RawNAt, Zenon
<1> HIDE DEF r1
<1>2. At(r2, Flag(k), s2, m)
  BY <1>1, <1>s2, FlagRaw, Zenon
<1> HIDE DEF r2
<1>3. At(r3, e, s3, m)
  BY <1>2, <1>s3, TextsAt, Zenon
<1> HIDE DEF r3
<1>4. At(r4, p, s4, m)
  BY <1>3, <1>s4, VarIntAt, Zenon
<1> HIDE DEF r4
<1>5. At(r5, i, s5, m)
  BY <1>4, <1>s5, VarIntAt, Zenon
<1> HIDE DEF r5
<1>6. At(r6, j, s6, m)
  BY <1>5, <1>s6, VarIntAt, Zenon
<1> HIDE DEF r6
<1>7. At(r7, Flag(f), s7, m)
  BY <1>6, <1>s7, FlagRaw, Zenon
<1> HIDE DEF r7
<1>8. At(r8, Flag(g), s8, m)
  BY <1>7, <1>s8, FlagRaw, Zenon
<1> HIDE DEF r8
<1>9. At(r9, Flag(h), s, m)
  BY <1>8, FlagRaw, Zenon
<1>10. QED
  BY <1>9, <1>l, Zenon

LoginBytes(x, v) ==
  Heading(<<0, 0, 1, 44>>, x.is_hardcore, x.dimension_names, x.max_players, 10, 8, FALSE, TRUE,
          x.do_limited_crafting, WriteSpawnInfo(x, v) \o (Flag(TRUE) \o <<>>))

LEMMA FixedParts ==
  /\ <<0, 0, 1, 44>> \in Str /\ Len(<<0, 0, 1, 44>>) = 4 /\ 10 \in Int32 /\ 8 \in Int32
  /\ FALSE \in Bools /\ TRUE \in Bools
<1>1. <<0, 0, 1, 44>> \in Str /\ Len(<<0, 0, 1, 44>>) = 4
  BY DEF Str, Bytes
<1>2. 10 \in Int32 /\ 8 \in Int32
  BY SMT DEF Int32
<1>3. FALSE \in Bools /\ TRUE \in Bools
  BY DEF Bools
<1>4. QED
  BY <1>1, <1>2, <1>3, Zenon

LEMMA LoginCat ==
  ASSUME NEW x, Placed(x), NEW v \in Int
  PROVE  /\ WriteLogin(x, v) = RawPacket(Only(is_login_play_packet(v)), LoginBytes(x, v))
         /\ LoginBytes(x, v) \in Str
<1> DEFINE q == <<0, 0, 1, 44>>
           k == Flag(x.is_hardcore)
           e == Many(x.dimension_names, Text)
           p == encode_varint(x.max_players)
           i == encode_varint(10)
           j == encode_varint(8)
           f == Flag(FALSE)
           g == Flag(TRUE)
           h == Flag(x.do_limited_crafting)
           w == WriteSpawnInfo(x, v)
           P == q \o k \o e \o p \o i \o j \o f \o g \o h \o w \o g
<1>1. WriteLogin(x, v) = RawPacket(Only(is_login_play_packet(v)), P)
  BY Zenon DEF WriteLogin
<1>2. q \in Str /\ i \in Str /\ j \in Str /\ f \in Str /\ g \in Str
  BY FixedParts, BoolsStr, VarIntShape, Zenon
<1>3. k \in Str /\ h \in Str
  BY BoolsStr, Zenon DEF Placed
<1>4. e \in Str
  BY TextsStr, Zenon DEF Placed
<1>5. p \in Str
  BY VarIntShape, Zenon DEF Placed
<1>6. w \in Str
  BY SpawnCat, Empty, Zenon
<1>7. LoginBytes(x, v)
        = q \o (k \o (e \o (p \o (i \o (j \o (f \o (g \o (h \o (w \o (g \o <<>>))))))))))
  BY Zenon DEF LoginBytes, Heading
<1> HIDE DEF q, k, e, p, i, j, f, g, h, w
<1>8. Flat11(q, k, e, p, i, j, f, g, h, w, g)
  BY <1>2, <1>3, <1>4, <1>5, <1>6, FlatIs11, Zenon
<1>9. P = LoginBytes(x, v) /\ P \in Str
  BY <1>7, <1>8, Zenon DEF Flat11
<1> HIDE DEF P
<1>10. QED
  BY <1>1, <1>9, Zenon

(* The bytes of the world are cut out of the payload. *)
CutIs(a, b, w) == SubSeq(a, 1, Len(a) - Len(b)) = w

LEMMA CutOut ==
  ASSUME NEW a \in Str, NEW b \in Str, NEW w \in Str, NEW s \in Str, NEW m \in Str,
         a \o m = w \o s, b \o m = s
  PROVE  CutIs(a, b, w)
<1>1. AssocIs(w, b, m)
  BY Assoc, Zenon
<1>2. a \o m = (w \o b) \o m
  BY <1>1, Zenon DEF AssocIs
<1>3. w \o b \in Str
  BY Cat, Zenon
<1>4. a = w \o b
  <2> DEFINE t == w \o b
  <2>1. t \in Seq(Bytes) /\ a \in Seq(Bytes) /\ m \in Seq(Bytes) /\ a \o m = t \o m
    BY <1>2, <1>3, Zenon DEF Str
  <2> HIDE DEF t
  <2>2. a = t
    BY <2>1, ConcatSimplifications
  <2>3. QED
    BY <2>2, Zenon DEF t
<1>5. Len(a) = Len(w) + Len(b) /\ Len(w) \in Nat /\ Len(b) \in Nat
  BY <1>4, Cat, Zenon
<1>6. Len(a) - Len(b) = Len(w)
  BY <1>5
<1>7. SubSeq(a, 1, Len(w)) = w
  BY <1>4, CutFront DEF Str
<1>8. QED
  BY <1>6, <1>7, Zenon DEF CutIs

(* What a transferred player gets instead of Login (Play). *)
ReadAs(raw, x, v) ==
  LET r == decode_respawn(raw, v)
  IN /\ r.ok /\ r.val.data_kept = 3
     /\ \A f \in DOMAIN r.val \ {"data_kept"} : r.val[f] = x[f]

Entered(raw, x, v, m) ==
  \/ v >= 766 /\ raw = RawPacket(RespawnId(v), WriteSpawnInfo(x, v) \o <<3>>)
  \/ v < 766 /\ ReadAs(raw, x, v)
  \/ m # <<>> /\ raw = encode_respawn(default_reset(3), v)

LEMMA HeadOfLogin ==
  ASSUME NEW x, Placed(x), NEW v \in Int, NEW b \in Str, NEW m \in Str, b \o m =
         LoginBytes(x, v)
  PROVE  At(LoginHead(Start(b)), Flag(x.do_limited_crafting),
            WriteSpawnInfo(x, v) \o (Flag(TRUE) \o <<>>), m)
<1> DEFINE s == WriteSpawnInfo(x, v) \o (Flag(TRUE) \o <<>>)
           q == <<0, 0, 1, 44>>
<1>1. WriteSpawnInfo(x, v) \in Str
  BY SpawnCat, Empty, Zenon
<1>2. Flag(TRUE) \in Str
  BY FixedParts, BoolsStr, Zenon
<1>3. Flag(TRUE) \o <<>> \in Str
  BY <1>2, Empty, Zenon
<1>4. s \in Str
  BY <1>1, <1>3, Cat, Zenon
<1>5. At(Start(b), <<>>, b \o m, m)
  BY Zenon DEF At, Start
<1>6. q \in Str /\ Len(q) = 4 /\ 10 \in Int32 /\ 8 \in Int32 /\ FALSE \in Bools
      /\ TRUE \in Bools
  BY FixedParts, Zenon
<1>7. b \o m = Heading(q, x.is_hardcore, x.dimension_names, x.max_players, 10, 8, FALSE, TRUE,
                       x.do_limited_crafting, s)
  BY Zenon DEF LoginBytes
<1> HIDE DEF s, q
<1>8. At(Start(b), <<>>,
      Heading(q, x.is_hardcore, x.dimension_names, x.max_players, 10, 8, FALSE,
                                TRUE, x.do_limited_crafting, s), m)
  BY <1>5, <1>7, Zenon
<1>9. /\ x.is_hardcore \in Bools /\ x.dimension_names \in Seq(Field)
      /\ Len(x.dimension_names) <= MaxDimensions /\ x.max_players \in Int32
      /\ x.do_limited_crafting \in Bools
  BY Zenon DEF Placed
<1> DEFINE f == FALSE
           t == TRUE
<1>10. /\ f \in Bools /\ t \in Bools
       /\ At(Start(b), <<>>,
          Heading(q, x.is_hardcore, x.dimension_names, x.max_players, 10, 8, f,
                                t, x.do_limited_crafting, s), m)
  BY <1>6, <1>8
<1> HIDE DEF f, t
<1>11. At(LoginHead(Start(b)), Flag(x.do_limited_crafting), s, m)
  BY <1>4, <1>6, <1>9, <1>10, LoginHeadAt, Zenon
<1>12. QED
  BY <1>11, Zenon DEF s

LEMMA SpawnStrict == ASSUME NEW v PROVE GetSpawnInfo(Failed, v) = Failed
<1> DEFINE c == GetVarInt(GetDeath(GetWorld(GetText(GetVarInt(Failed)))))
<1>1. c = Failed
  BY Strict, DeathStrict, Zenon
<1>2. GetSpawnInfo(Failed, v)
        = With(IF v >= 768 THEN GetVarInt(c) ELSE c,
               [dimension_name |-> GetText(GetVarInt(Failed)).val,
                world |-> GetWorld(GetText(GetVarInt(Failed))).val])
  BY Zenon DEF GetSpawnInfo
<1> HIDE DEF c
<1>3. (IF v >= 768 THEN GetVarInt(c) ELSE c) = Failed
  BY <1>1, Strict, Zenon
<1>4. QED
  BY <1>2, <1>3, WithParts, Zenon

LEMMA LoginNew ==
  ASSUME NEW x, Placed(x), NEW v \in Int, v >= 766, NEW id, NEW b \in Str, NEW m \in Str,
         b \o m = LoginBytes(x, v)
  PROVE  Entered(RespawnFor(RawPacket(id, b), v), x, v, m)
<1> DEFINE raw  == RawPacket(id, b)
           w    == WriteSpawnInfo(x, v)
           head == LoginHead(Start(raw.payload))
           info == GetSpawnInfo(head, v)
           z    == SubSeq(head.rest, 1, Len(head.rest) - Len(info.rest))
           y    == RawPacket(RespawnId(v), z \o <<3>>)
           s    == Flag(TRUE) \o <<>>
           r    == extract_respawn_from_login_with_data_kept(raw, v, data_kept(v))
           dflt == encode_respawn(default_reset(3), v)
<1>1. data_kept(v) = 3
  BY DEF data_kept
<1>2. RespawnFor(raw, v) = IF r.ok THEN r.val ELSE dflt
  BY <1>1, Zenon DEF RespawnFor, OrElse
<1>3. r = With(info, y)
  <2> DEFINE t1 == GetText(head)
             t2 == GetText(t1)
             t3 == GetWorld(t2)
             A  == Got(dflt, <<>>)
             B  == With(info, y)
             C  == With(t3, encode_respawn(RespawnIn(t1.val, t2.val, t3.val, 3), v))
  <2>1. r = IF v < 764 THEN A ELSE IF v >= 766 THEN B ELSE C
    BY <1>1, Zenon DEF extract_respawn_from_login_with_data_kept, RespawnAfter
  <2> HIDE DEF A, B, C, r
  <2>2. r = B
    BY <2>1
  <2>3. QED
    BY <2>2, Zenon DEF B
<1> HIDE DEF dflt, r
<1>4. raw.payload = b
  BY RawParts, Zenon
<1> HIDE DEF raw
<1>5. At(head, Flag(x.do_limited_crafting), w \o s, m)
  BY <1>4, HeadOfLogin, Zenon
<1> HIDE DEF head
<1>6. s \in Str
  BY FixedParts, BoolsStr, Empty, Zenon
<1>7. w \in Str /\ w \o s = SpawnNow(x, v, s)
  BY <1>6, SpawnCat, Zenon
<1> HIDE DEF w, s
<1>8. At(head, Flag(x.do_limited_crafting), SpawnNow(x, v, s), m)
  BY <1>5, <1>7, Zenon
<1>9. /\ x.dimension \in Int32 /\ x.dimension_name \in Field /\ x.hashed_seed \in Str
      /\ Len(x.hashed_seed) = 8 /\ x.gamemode \in Bytes /\ x.is_debug \in Bools
      /\ x.is_flat \in Bools /\ x.death \in Opts(Death) /\ x.portal_cooldown \in Int32
      /\ x.sea_level \in Int32
  BY Zenon DEF Placed
<1>10. x.previous_gamemode \in -128 .. 127
  BY DEF Placed
<1> DEFINE i == [dimension_name |-> x.dimension_name,
                 world |-> [hashed_seed |-> x.hashed_seed, gamemode |-> x.gamemode,
                            previous_gamemode |-> x.previous_gamemode, is_debug |-> x.is_debug,
                            is_flat |-> x.is_flat]]
<1>11. At(head, Flag(x.do_limited_crafting),
          SpawnBytes(x.dimension, x.dimension_name, x.hashed_seed, x.gamemode,
            x.previous_gamemode,
                     x.is_debug, x.is_flat, x.death, x.portal_cooldown, x.sea_level, v, s), m)
  BY <1>8, Zenon DEF SpawnNow
<1>12. At(info, i, s, m)
  BY <1>6, <1>9, <1>10, <1>11, SpawnInfoAt, Zenon
<1> HIDE DEF i
<1> HIDE DEF info
<1>13. CASE info = Failed
  <2>1. m # <<>>
    BY <1>12, <1>13, AtFailed, Zenon
  <2>2. r = Failed
    BY <1>3, <1>13, WithParts, Zenon
  <2>3. RespawnFor(raw, v) = dflt
    BY <1>2, <2>2, FailedParts, Zenon
  <2>4. QED
    BY <2>1, <2>3, Zenon DEF Entered, dflt, raw
<1>14. CASE info # Failed
  <2>1. info = Got(i, info.rest) /\ info.rest \in Str /\ info.rest \o m = s
    BY <1>12, <1>14, AtParts, Zenon
  <2>2. head # Failed
    <3>1. head = Failed => info = Failed
      BY Strict, DeathStrict, SpawnStrict, Zenon DEF info
    <3>2. QED
      BY <1>14, <3>1, Zenon
  <2>3. head.rest \in Str /\ head.rest \o m = w \o s
    BY <1>5, <2>2, AtParts, Zenon
  <2>z. CutIs(head.rest, info.rest, w)
    BY <1>6, <1>7, <2>1, <2>3, CutOut, Zenon
  <2>4. z = w
    BY <2>z, Zenon DEF CutIs
  <2> HIDE DEF z
  <2>5. y = RawPacket(RespawnId(v), w \o <<3>>)
    BY <2>4, Zenon
  <2> HIDE DEF y
  <2>6. r = Got(y, info.rest)
    BY <1>3, <2>1, WithParts, Zenon
  <2>7. RespawnFor(raw, v) = y
    BY <1>2, <2>6, GotParts, Zenon
  <2>8. QED
    BY <2>5, <2>7, Zenon DEF Entered, w, raw
<1>15. QED
  BY <1>13, <1>14, Zenon

Chosen(v, a, b, c) == IF v < 764 THEN a ELSE IF v >= 766 THEN b ELSE c

LEMMA ExtractIs ==
  ASSUME NEW raw, NEW v, NEW k
  PROVE  LET head == LoginHead(Start(raw.payload))
             info == GetSpawnInfo(head, v)
             r1   == GetText(head)
             r2   == GetText(r1)
             r3   == GetWorld(r2)
             z    == SubSeq(head.rest, 1, Len(head.rest) - Len(info.rest))
         IN extract_respawn_from_login_with_data_kept(raw, v, k)
              = Chosen(v, Got(encode_respawn(default_reset(k), v), <<>>),
                       With(info, RawPacket(RespawnId(v), z \o <<k>>)),
                       With(r3, encode_respawn(RespawnIn(r1.val, r2.val, r3.val, k), v)))
BY Zenon DEF extract_respawn_from_login_with_data_kept, RespawnAfter, Chosen

LEMMA LoginOld ==
  ASSUME NEW x, Placed(x), NEW v \in Int, v >= 764,
         v < 766, NEW id, NEW b \in Str, NEW m \in Str,
         b \o m = LoginBytes(x, v)
  PROVE  Entered(RespawnFor(RawPacket(id, b), v), x, v, m)
<1> DEFINE raw  == RawPacket(id, b)
           head == LoginHead(Start(raw.payload))
           r1   == GetText(head)
           r2   == GetText(r1)
           r3   == GetWorld(r2)
           w    == [hashed_seed |-> x.hashed_seed, gamemode |-> x.gamemode,
                    previous_gamemode |-> x.previous_gamemode, is_debug |-> x.is_debug,
                    is_flat |-> x.is_flat]
           s    == Flag(TRUE) \o <<>>
           r    == extract_respawn_from_login_with_data_kept(raw, v, data_kept(v))
           y    == RespawnIn(r1.val, r2.val, r3.val, 3)
           yy   == encode_respawn(y, v)
           dflt == encode_respawn(default_reset(3), v)
<1>1. data_kept(v) = 3
  BY DEF data_kept
<1>2. RespawnFor(raw, v) = IF r.ok THEN r.val ELSE dflt
  BY <1>1, Zenon DEF RespawnFor, OrElse
<1>3. r = With(r3, yy)
  <2> DEFINE info == GetSpawnInfo(head, v)
             z    == SubSeq(head.rest, 1, Len(head.rest) - Len(info.rest))
             A  == Got(dflt, <<>>)
             B  == With(info, RawPacket(RespawnId(v), z \o <<3>>))
             C  == With(r3, yy)
  <2>1. r = Chosen(v, A, B, C)
    BY <1>1, ExtractIs, Zenon
  <2>2. \A a, c, d : Chosen(v, a, c, d) = d
    BY DEF Chosen
  <2> HIDE DEF A, B, C, r
  <2>3. r = C
    BY <2>1, <2>2, Zenon
  <2>4. QED
    BY <2>3, Zenon DEF C
<1> HIDE DEF dflt, r
<1>4. raw.payload = b
  BY RawParts, Zenon
<1> HIDE DEF raw
<1>5. At(head, Flag(x.do_limited_crafting), WriteSpawnInfo(x, v) \o s, m)
  BY <1>4, HeadOfLogin, Zenon
<1> HIDE DEF head
<1>6. s \in Str
  BY FixedParts, BoolsStr, Empty, Zenon
<1>7. PICK t \in Str : WriteSpawnInfo(x, v) \o s = SpawnThen(x, t)
  BY <1>6, SpawnCat, Zenon
<1>8. At(head, Flag(x.do_limited_crafting), SpawnThen(x, t), m)
  BY <1>5, <1>7, Zenon
<1>9. /\ x.dimension_type \in Field /\ x.dimension_name \in Field /\ x.hashed_seed \in Str
      /\ Len(x.hashed_seed) = 8 /\ x.gamemode \in Bytes /\ x.is_debug \in Bools
      /\ x.is_flat \in Bools
  BY Zenon DEF Placed
<1>10. x.previous_gamemode \in -128 .. 127
  BY DEF Placed
<1> DEFINE t6 == Flag(x.is_flat) \o t
           t5 == Flag(x.is_debug) \o t6
           t4 == <<x.previous_gamemode % 256>> \o t5
           t3 == <<x.gamemode>> \o t4
           t2 == x.hashed_seed \o t3
           t1 == Text(x.dimension_name) \o t2
<1>w. /\ Flag(x.is_flat) \in Str /\ Flag(x.is_debug) \in Str
  /\ <<x.previous_gamemode % 256>> \in Str
      /\ <<x.gamemode>> \in Str /\ Text(x.dimension_name) \in Str
  BY <1>9, <1>10, BoolsStr, I8Byte, OneByte, TextShape, Zenon
<1>t6. t6 \in Str
  BY <1>w, Cat, Zenon
<1>t5. t5 \in Str
  BY <1>w, <1>t6, Cat, Zenon
<1>t4. t4 \in Str
  BY <1>w, <1>t5, Cat, Zenon
<1>t3. t3 \in Str
  BY <1>w, <1>t4, Cat, Zenon
<1>t2. t2 \in Str
  BY <1>9, <1>t3, Cat, Zenon
<1>t1. t1 \in Str
  BY <1>w, <1>t2, Cat, Zenon
<1>11. At(head, Flag(x.do_limited_crafting), Text(x.dimension_type) \o t1, m)
  BY <1>8, Zenon DEF SpawnThen
<1>12. At(r1, x.dimension_type, t1, m)
  BY <1>9, <1>11, <1>t1, TextAt, Zenon
<1>13. At(r2, x.dimension_name, t2, m)
  BY <1>9, <1>12, <1>t2, TextAt, Zenon
<1>14. At(r3, w, t, m)
  BY <1>9, <1>10, <1>13, WorldFieldsAt, Zenon
<1>f. (r1 = Failed => r2 = Failed) /\ (r2 = Failed => r3 = Failed)
  BY Strict, DeathStrict, Zenon
<1> HIDE DEF r1, r2, r3, w
<1>15. CASE r3 = Failed
  <2>1. m # <<>>
    BY <1>14, <1>15, AtFailed, Zenon
  <2>2. r = Failed
    BY <1>3, <1>15, WithParts, Zenon
  <2>3. RespawnFor(raw, v) = dflt
    BY <1>2, <2>2, FailedParts, Zenon
  <2>4. QED
    BY <2>1, <2>3, Zenon DEF Entered, dflt, raw
<1>16. CASE r3 # Failed
  <2>1. r1.val = x.dimension_type /\ r2.val = x.dimension_name /\ r3.val = w
    BY <1>12, <1>13, <1>14, <1>16, <1>f, AtVal, Zenon
  <2>2. r3 = Got(w, r3.rest)
    BY <1>14, <1>16, AtParts, Zenon
  <2>3. y = RespawnIn(x.dimension_type, x.dimension_name, w, 3)
    BY <2>1, Zenon
  <2> HIDE DEF y
  <2>4. RespawnFor(raw, v) = yy
    <3>1. r = Got(yy, r3.rest)
      <4> HIDE DEF yy
      <4>1. QED
        BY <1>3, <2>2, WithParts, Zenon
    <3> HIDE DEF yy
    <3>2. QED
      BY <1>2, <3>1, GotParts, Zenon
  <2>5. /\ y.dimension_type = x.dimension_type /\ y.dimension_name = x.dimension_name
        /\ y.data_kept = 3
    BY <2>3, Zenon DEF RespawnIn
  <2>6. /\ y.hashed_seed = x.hashed_seed /\ y.gamemode = x.gamemode
        /\ y.previous_gamemode = x.previous_gamemode /\ y.is_debug = x.is_debug
        /\ y.is_flat = x.is_flat
    <3>1. /\ y.hashed_seed = w.hashed_seed /\ y.gamemode = w.gamemode
          /\ y.previous_gamemode = w.previous_gamemode
      BY <2>3, Zenon DEF RespawnIn
    <3>2. y.is_debug = w.is_debug
      BY <2>3, Zenon DEF RespawnIn
    <3>3. y.is_flat = w.is_flat
      BY <2>3, Zenon DEF RespawnIn
    <3>4. /\ w.hashed_seed = x.hashed_seed /\ w.gamemode = x.gamemode
          /\ w.previous_gamemode = x.previous_gamemode
      BY Zenon DEF w
    <3>5. w.is_debug = x.is_debug
      BY Zenon DEF w
    <3>6. w.is_flat = x.is_flat
      BY Zenon DEF w
    <3>7. QED
      BY <3>1, <3>2, <3>3, <3>4, <3>5, <3>6, Zenon
  <2> DEFINE full == [dimension_type |-> y.dimension_type, dimension_name |-> y.dimension_name,
                      hashed_seed |-> y.hashed_seed, gamemode |-> y.gamemode,
                      previous_gamemode |-> y.previous_gamemode, is_debug |-> y.is_debug,
                      is_flat |-> y.is_flat, data_kept |-> y.data_kept]
             g == decode_respawn(yy, v)
  <2>7. g.ok /\ g.val = full
    <3>1. 3 \in Bytes
      BY DEF Bytes
    <3>2. x.previous_gamemode \in -1 .. 127
      BY Zenon DEF Placed
    <3>3. /\ y.dimension_type \in Field /\ y.dimension_name \in Field /\ y.hashed_seed \in Str
          /\ Len(y.hashed_seed) = 8 /\ y.gamemode \in Bytes /\ y.previous_gamemode \in -1 .. 127
          /\ y.is_debug \in Bools /\ y.is_flat \in Bools /\ y.data_kept \in Bytes
      BY <1>9, <2>5, <2>6, <3>1, <3>2, Zenon
    <3> DEFINE i == RespawnId(v)
               e == <<0>> \o (encode_varint(0) \o <<>>)
    <3> HIDE DEF full
    <3>4. PICK p \in Str :
            /\ encode_respawn(y, v) = RawPacket(RespawnId(v), p)
            /\ \A c, n \in Str : c \o n = p =>
                 At(decode_respawn(RawPacket(RespawnId(v), c), v), full, e, n)
      <4> USE DEF full
      <4>1. QED
        BY <3>3, RespawnOld, Zenon
    <3>5. p \o <<>> = p /\ <<>> \in Str
      BY Empty, Zenon
    <3>6. At(g, full, e, <<>>)
      BY <3>4, <3>5, Zenon
    <3> HIDE DEF g
    <3>7. g # Failed
      BY <3>6, AtFailed, Zenon
    <3>8. QED
      BY <3>6, <3>7, AtVal, Zenon
  <2> HIDE DEF g
  <2>8. ReadAs(yy, x, v)
    <3>0. full.data_kept = y.data_kept
      BY Zenon
    <3>1. g.val.data_kept = 3
      <4> HIDE DEF full
      <4>1. QED
        BY <2>5, <2>7, <3>0, Zenon
    <3>2. /\ DOMAIN full = {"dimension_type", "dimension_name", "hashed_seed", "gamemode",
                            "previous_gamemode", "is_debug", "is_flat", "data_kept"}
          /\ full["dimension_type"] = x.dimension_type /\ full["dimension_name"] =
             x.dimension_name
          /\ full["hashed_seed"] = x.hashed_seed /\ full["gamemode"] = x.gamemode
          /\ full["previous_gamemode"] = x.previous_gamemode
      BY <2>5, <2>6
    <3>3. full["is_debug"] = x.is_debug
      BY <2>6, Zenon
    <3>4. full["is_flat"] = x.is_flat
      BY <2>6, Zenon
    <3> HIDE DEF full
    <3>5. \A f \in DOMAIN full \ {"data_kept"} : full[f] = x[f]
      BY <3>2, <3>3, <3>4, Zenon
    <3>6. QED
      BY <2>7, <3>1, <3>5, Zenon DEF ReadAs, g
  <2>9. QED
    BY <2>4, <2>8, Zenon DEF Entered, raw
<1>17. QED
  BY <1>15, <1>16, Zenon

-----------------------------------------------------------------------------
(* All packets whose fields have the types that the code gives them. *)
Uuid == {u \in Str : Len(u) = 16}

Words(S, max) == {xs \in Seq(S) : Len(xs) <= max}

(* One packet of version v: it is put into bytes, and read back from them, of which the
   bytes m may be missing.  A chat message that stops short is in CutChatSeen; a whole
   LoginSuccess of 707 to 758 is not read back. *)
Readable(x, v, m) ==
  /\ x.kind = "SystemChat" => m = <<>>
  /\ x.kind = "LoginSuccess" /\ v \in 707 .. 758 => m # <<>>

Understood(x, v) ==
  \E id \in SmallIds, p \in Str :
    /\ Encode(x, v) = RawPacket(id, p)
    /\ \A b, m \in Str : b \o m = p /\ Readable(x, v, m) =>
         Fits(Decode(x.kind, RawPacket(id, b), v), Expected(x, v), x.kind, m)

LEMMA SmallKnown ==
  ASSUME NEW v \in Int
  PROVE  /\ \A i \in 0 .. 7 : i \in SmallIds
         /\ ChatCommandId(v) \in SmallIds /\ TabCompleteRequestId(v) \in SmallIds
         /\ TabCompleteResponseId(v) \in SmallIds /\ RespawnId(v) \in SmallIds
         /\ SystemChatId(v) \in SmallIds
         /\ Only(CloseContainerId(v)) \in SmallIds /\ Only(StopSoundId(v)) \in SmallIds
         /\ Only(BossBarId(v)) \in SmallIds /\ Only(ScoreboardObjectiveId(v)) \in SmallIds
         /\ Only(DisplayObjectiveId(v)) \in SmallIds
         /\ Only(is_login_play_packet(v)) \in SmallIds
         /\ v >= 393 => Only(is_declare_commands_packet(v)) \in SmallIds
<1>0. \A i \in 0 .. 7 : i \in SmallIds
  BY DEF SmallIds
<1>1. ChatCommandId(v) \in SmallIds
  BY DEF ChatCommandId, SmallIds
<1>2. TabCompleteRequestId(v) \in SmallIds
  BY DEF TabCompleteRequestId, SmallIds
<1>3. TabCompleteResponseId(v) \in SmallIds
  BY DEF TabCompleteResponseId, SmallIds
<1>4. RespawnId(v) \in SmallIds
  BY DEF RespawnId, SmallIds
<1>5. SystemChatId(v) \in SmallIds
  BY DEF SystemChatId, SmallIds
<1>6. \A S : S # {} => Only(S) \in S
  BY DEF Only
<1>7. CloseContainerId(v) # {} /\ CloseContainerId(v) \subseteq SmallIds
  BY DEF CloseContainerId, SmallIds
<1>8. StopSoundId(v) # {} /\ StopSoundId(v) \subseteq SmallIds
  BY DEF StopSoundId, SmallIds
<1>9. BossBarId(v) # {} /\ BossBarId(v) \subseteq SmallIds
  BY DEF BossBarId, SmallIds
<1>10. ScoreboardObjectiveId(v) # {} /\ ScoreboardObjectiveId(v) \subseteq SmallIds
  BY DEF ScoreboardObjectiveId, SmallIds
<1>11. DisplayObjectiveId(v) # {} /\ DisplayObjectiveId(v) \subseteq SmallIds
  BY DEF DisplayObjectiveId, SmallIds
<1>12. is_login_play_packet(v) # {} /\ is_login_play_packet(v) \subseteq SmallIds
  BY DEF is_login_play_packet, SmallIds
<1>13. v >= 393 => is_declare_commands_packet(v) # {}
       /\ is_declare_commands_packet(v) \subseteq SmallIds
  BY DEF is_declare_commands_packet, SmallIds
<1>14. \A S : S # {} /\ S \subseteq SmallIds => Only(S) \in SmallIds
  BY <1>6, Zenon
<1>15. QED
  BY <1>0, <1>1, <1>2, <1>3, <1>4, <1>5, <1>7, <1>8, <1>9, <1>10, <1>11, <1>12, <1>13, <1>14,
     Zenon

HandshakePackets ==
  Of("Handshake",
    [protocol_version : Int32, server_address : Field, server_port : 0 .. MaxU16,
    next_state : {"Status", "Login"}])

LEMMA HandshakeUnderstood == 
  ASSUME NEW x \in HandshakePackets, NEW v \in Int
  PROVE  Understood(x, v)
<1> DEFINE y == x.val
           e == [protocol_version |-> y.protocol_version, server_address |-> y.server_address,
                server_port |-> y.server_port, next_state |-> y.next_state]
<1>1. x.kind = "Handshake"
      /\ y \in [protocol_version : Int32, server_address : Field, server_port : 0 .. MaxU16,
      next_state : {"Status", "Login"}]
  BY SMT DEF Of, HandshakePackets
<1>2. Encode(x, v) = encode_handshake(y)
  BY <1>1, SMT DEF Encode
<1>3. ASSUME NEW b
      PROVE  Decode(x.kind, RawPacket(0, b), v)
               = decode_handshake(RawPacket(0, b))
  BY <1>1, SMT DEF Decode
<1>4. Expected(x, v) = y
  BY <1>1, SMT DEF Expected
<1> HIDE DEF y
<1>5. y = e
  BY <1>1
<1>6. y.protocol_version \in Int32 /\ y.server_address \in Field /\ y.server_port \in Nat
      /\ y.server_port <= MaxU16 /\ y.next_state \in {"Status", "Login"}
  BY <1>1, SMT DEF Uuid, Words
<1>7. PICK p \in Str :
        /\ encode_handshake(y)
             = RawPacket(0, p)
        /\ \A b, m \in Str : b \o m = p =>
             At(decode_handshake(RawPacket(0, b)), e, <<>>, m)
  BY <1>6, HandshakeRead, Zenon
<1> HIDE DEF e
<1>8. ASSUME NEW b \in Str, NEW m \in Str, b \o m = p
      PROVE  Fits(Decode(x.kind, RawPacket(0, b), v), Expected(x, v), x.kind, m)
  <2>1. Fits(decode_handshake(RawPacket(0, b)), e, x.kind, m)
    BY <1>1, <1>7, <1>8, AtFits, Zenon
  <2>2. QED
    BY <1>3, <1>4, <1>5, <2>1, Zenon
<1>9. Encode(x, v) = RawPacket(0, p) /\ 0 \in SmallIds
  BY <1>2, <1>7, SmallKnown
<1>10. QED
  BY <1>8, <1>9, Zenon DEF Understood

EncryptionResponsePackets ==
  Of("EncryptionResponse", [shared_secret : Field, verify_token : Field])

LEMMA EncryptionResponseUnderstood == 
  ASSUME NEW x \in EncryptionResponsePackets, NEW v \in Int
  PROVE  Understood(x, v)
<1> DEFINE y == x.val
           e == [shared_secret |-> y.shared_secret, verify_token |-> y.verify_token]
<1>1. x.kind = "EncryptionResponse" /\ y \in [shared_secret : Field, verify_token : Field]
  BY SMT DEF Of, EncryptionResponsePackets
<1>2. Encode(x, v) = encode_encryption_response(y)
  BY <1>1, SMT DEF Encode
<1>3. ASSUME NEW b
      PROVE  Decode(x.kind, RawPacket(1, b), v)
               = decode_encryption_response(RawPacket(1, b))
  BY <1>1, SMT DEF Decode
<1>4. Expected(x, v) = y
  BY <1>1, SMT DEF Expected
<1> HIDE DEF y
<1>5. y = e
  BY <1>1
<1>6. y.shared_secret \in Field /\ y.verify_token \in Field
  BY <1>1, SMT DEF Uuid, Words
<1>7. PICK p \in Str :
        /\ encode_encryption_response(y)
             = RawPacket(1, p)
        /\ \A b, m \in Str : b \o m = p =>
             At(decode_encryption_response(RawPacket(1, b)), e, <<>>, m)
  BY <1>6, EncryptionResponseRead, Zenon
<1> HIDE DEF e
<1>8. ASSUME NEW b \in Str, NEW m \in Str, b \o m = p
      PROVE  Fits(Decode(x.kind, RawPacket(1, b), v), Expected(x, v), x.kind, m)
  <2>1. Fits(decode_encryption_response(RawPacket(1, b)), e, x.kind, m)
    BY <1>1, <1>7, <1>8, AtFits, Zenon
  <2>2. QED
    BY <1>3, <1>4, <1>5, <2>1, Zenon
<1>9. Encode(x, v) = RawPacket(1, p) /\ 1 \in SmallIds
  BY <1>2, <1>7, SmallKnown
<1>10. QED
  BY <1>8, <1>9, Zenon DEF Understood

SetCompressionPackets ==
  Of("SetCompression", [threshold : Int32])

LEMMA SetCompressionUnderstood == 
  ASSUME NEW x \in SetCompressionPackets, NEW v \in Int
  PROVE  Understood(x, v)
<1> DEFINE y == x.val
           e == [threshold |-> y.threshold]
<1>1. x.kind = "SetCompression" /\ y \in [threshold : Int32]
  BY SMT DEF Of, SetCompressionPackets
<1>2. Encode(x, v) = encode_set_compression(y)
  BY <1>1, SMT DEF Encode
<1>3. ASSUME NEW b
      PROVE  Decode(x.kind, RawPacket(3, b), v)
               = decode_set_compression(RawPacket(3, b))
  BY <1>1, SMT DEF Decode
<1>4. Expected(x, v) = y
  BY <1>1, SMT DEF Expected
<1> HIDE DEF y
<1>5. y = e
  BY <1>1
<1>6. y.threshold \in Int32
  BY <1>1, SMT DEF Uuid, Words
<1>7. PICK p \in Str :
        /\ encode_set_compression(y)
             = RawPacket(3, p)
        /\ \A b, m \in Str : b \o m = p =>
             At(decode_set_compression(RawPacket(3, b)), e, <<>>, m)
  BY <1>6, SetCompressionRead, Zenon
<1> HIDE DEF e
<1>8. ASSUME NEW b \in Str, NEW m \in Str, b \o m = p
      PROVE  Fits(Decode(x.kind, RawPacket(3, b), v), Expected(x, v), x.kind, m)
  <2>1. Fits(decode_set_compression(RawPacket(3, b)), e, x.kind, m)
    BY <1>1, <1>7, <1>8, AtFits, Zenon
  <2>2. QED
    BY <1>3, <1>4, <1>5, <2>1, Zenon
<1>9. Encode(x, v) = RawPacket(3, p) /\ 3 \in SmallIds
  BY <1>2, <1>7, SmallKnown
<1>10. QED
  BY <1>8, <1>9, Zenon DEF Understood

ChatCommandPackets ==
  Of("ChatCommand", [command : Field])

LEMMA ChatCommandUnderstood == 
  ASSUME NEW x \in ChatCommandPackets, NEW v \in Int
  PROVE  Understood(x, v)
<1> DEFINE y == x.val
           e == [command |-> y.command]
<1>1. x.kind = "ChatCommand" /\ y \in [command : Field]
  BY SMT DEF Of, ChatCommandPackets
<1>2. Encode(x, v) = encode_chat_command(y, v)
  BY <1>1, SMT DEF Encode
<1>3. ASSUME NEW b
      PROVE  Decode(x.kind, RawPacket(ChatCommandId(v), b), v)
               = decode_chat_command(RawPacket(ChatCommandId(v), b), v)
  BY <1>1, SMT DEF Decode
<1>4. Expected(x, v) = y
  BY <1>1, SMT DEF Expected
<1> HIDE DEF y
<1>5. y = e
  BY <1>1
<1>6. y.command \in Field
  BY <1>1, SMT DEF Uuid, Words
<1>7. PICK p \in Str :
        /\ encode_chat_command(y, v)
             = RawPacket(ChatCommandId(v), p)
        /\ \A b, m \in Str : b \o m = p =>
             At(decode_chat_command(RawPacket(ChatCommandId(v), b), v), e, <<>>, m)
  BY <1>6, ChatCommandRead, Zenon
<1> HIDE DEF e
<1>8. ASSUME NEW b \in Str, NEW m \in Str, b \o m = p
      PROVE  Fits(Decode(x.kind, RawPacket(ChatCommandId(v), b), v), Expected(x, v), x.kind, m)
  <2>1. Fits(decode_chat_command(RawPacket(ChatCommandId(v), b), v), e, x.kind, m)
    BY <1>1, <1>7, <1>8, AtFits, Zenon
  <2>2. QED
    BY <1>3, <1>4, <1>5, <2>1, Zenon
<1>9. Encode(x, v) = RawPacket(ChatCommandId(v), p) /\ ChatCommandId(v) \in SmallIds
  BY <1>2, <1>7, SmallKnown
<1>10. QED
  BY <1>8, <1>9, Zenon DEF Understood

TabCompleteRequestPackets ==
  Of("TabCompleteRequest", [transaction_id : Int32, text : Field])

LEMMA TabCompleteRequestUnderstood == 
  ASSUME NEW x \in TabCompleteRequestPackets, NEW v \in Int
  PROVE  Understood(x, v)
<1> DEFINE y == x.val
           e == [transaction_id |-> y.transaction_id, text |-> y.text]
<1>1. x.kind = "TabCompleteRequest" /\ y \in [transaction_id : Int32, text : Field]
  BY SMT DEF Of, TabCompleteRequestPackets
<1>2. Encode(x, v) = encode_tab_complete_request(y, v)
  BY <1>1, SMT DEF Encode
<1>3. ASSUME NEW b
      PROVE  Decode(x.kind, RawPacket(TabCompleteRequestId(v), b), v)
               = decode_tab_complete_request(RawPacket(TabCompleteRequestId(v), b), v)
  BY <1>1, SMT DEF Decode
<1>4. Expected(x, v) = y
  BY <1>1, SMT DEF Expected
<1> HIDE DEF y
<1>5. y = e
  BY <1>1
<1>6. y.transaction_id \in Int32 /\ y.text \in Field
  BY <1>1, SMT DEF Uuid, Words
<1>7. PICK p \in Str :
        /\ encode_tab_complete_request(y, v)
             = RawPacket(TabCompleteRequestId(v), p)
        /\ \A b, m \in Str : b \o m = p =>
             At(decode_tab_complete_request(RawPacket(TabCompleteRequestId(v), b), v), e,
               <<>>, m)
  BY <1>6, TabCompleteRequestRead, Zenon
<1> HIDE DEF e
<1>8. ASSUME NEW b \in Str, NEW m \in Str, b \o m = p
      PROVE  Fits(Decode(x.kind, RawPacket(TabCompleteRequestId(v), b), v), Expected(x, v),
             x.kind, m)
  <2>1. Fits(decode_tab_complete_request(RawPacket(TabCompleteRequestId(v), b), v), e, x.kind,
        m)
    BY <1>1, <1>7, <1>8, AtFits, Zenon
  <2>2. QED
    BY <1>3, <1>4, <1>5, <2>1, Zenon
<1>9. Encode(x, v) = RawPacket(TabCompleteRequestId(v), p)
      /\ TabCompleteRequestId(v) \in SmallIds
  BY <1>2, <1>7, SmallKnown
<1>10. QED
  BY <1>8, <1>9, Zenon DEF Understood

TabCompleteResponsePackets ==
  Of("TabCompleteResponse",
    [transaction_id : Int32, start : Int32, length : Int32, matches : Words(Field, MaxMatches)])

LEMMA TabCompleteResponseUnderstood == 
  ASSUME NEW x \in TabCompleteResponsePackets, NEW v \in Int
  PROVE  Understood(x, v)
<1> DEFINE y == x.val
           e == [transaction_id |-> y.transaction_id, start |-> y.start, length |-> y.length,
                matches |-> y.matches]
<1>1. x.kind = "TabCompleteResponse"
      /\ y \in [transaction_id : Int32, start : Int32, length : Int32,
      matches : Words(Field, MaxMatches)]
  BY SMT DEF Of, TabCompleteResponsePackets
<1>2. Encode(x, v) = encode_tab_complete_response(y, v)
  BY <1>1, SMT DEF Encode
<1>3. ASSUME NEW b
      PROVE  Decode(x.kind, RawPacket(TabCompleteResponseId(v), b), v)
               = decode_tab_complete_response(RawPacket(TabCompleteResponseId(v), b), v)
  BY <1>1, SMT DEF Decode
<1>4. Expected(x, v) = y
  BY <1>1, SMT DEF Expected
<1> HIDE DEF y
<1>5. y = e
  BY <1>1
<1>6. y.transaction_id \in Int32 /\ y.start \in Int32 /\ y.length \in Int32
      /\ y.matches \in Seq(Field) /\ Len(y.matches) <= MaxMatches
  BY <1>1, SMT DEF Uuid, Words
<1>7. PICK p \in Str :
        /\ encode_tab_complete_response(y, v)
             = RawPacket(TabCompleteResponseId(v), p)
        /\ \A b, m \in Str : b \o m = p =>
             Fits(decode_tab_complete_response(RawPacket(TabCompleteResponseId(v), b), v), e,
               "TabCompleteResponse", m)
  BY <1>6, TabCompleteResponseRead, Zenon
<1> HIDE DEF e
<1>8. ASSUME NEW b \in Str, NEW m \in Str, b \o m = p
      PROVE  Fits(Decode(x.kind, RawPacket(TabCompleteResponseId(v), b), v), Expected(x, v),
             x.kind, m)
  <2>1. Fits(decode_tab_complete_response(RawPacket(TabCompleteResponseId(v), b), v), e,
        x.kind, m)
    BY <1>1, <1>7, <1>8, Zenon
  <2>2. QED
    BY <1>3, <1>4, <1>5, <2>1, Zenon
<1>9. Encode(x, v) = RawPacket(TabCompleteResponseId(v), p)
      /\ TabCompleteResponseId(v) \in SmallIds
  BY <1>2, <1>7, SmallKnown
<1>10. QED
  BY <1>8, <1>9, Zenon DEF Understood

CloseContainerPackets ==
  Of("CloseContainer", [window_id : Bytes])

LEMMA CloseContainerUnderstood == 
  ASSUME NEW x \in CloseContainerPackets, NEW v \in Int
  PROVE  Understood(x, v)
<1> DEFINE y == x.val
           e == [window_id |-> y.window_id]
<1>1. x.kind = "CloseContainer" /\ y \in [window_id : Bytes]
  BY SMT DEF Of, CloseContainerPackets
<1>2. Encode(x, v) = encode_close_container(y, v)
  BY <1>1, SMT DEF Encode
<1>3. ASSUME NEW b
      PROVE  Decode(x.kind, RawPacket(Only(CloseContainerId(v)), b), v)
               = decode_close_container(RawPacket(Only(CloseContainerId(v)), b), v)
  BY <1>1, SMT DEF Decode
<1>4. Expected(x, v) = y
  BY <1>1, SMT DEF Expected
<1> HIDE DEF y
<1>5. y = e
  BY <1>1
<1>6. y.window_id \in Bytes
  BY <1>1, SMT DEF Uuid, Words
<1>7. PICK p \in Str :
        /\ encode_close_container(y, v)
             = RawPacket(Only(CloseContainerId(v)), p)
        /\ \A b, m \in Str : b \o m = p =>
             At(decode_close_container(RawPacket(Only(CloseContainerId(v)), b), v), e, <<>>, m)
  BY <1>6, CloseContainerRead, Zenon
<1> HIDE DEF e
<1>8. ASSUME NEW b \in Str, NEW m \in Str, b \o m = p
      PROVE  Fits(Decode(x.kind, RawPacket(Only(CloseContainerId(v)), b), v), Expected(x, v),
             x.kind, m)
  <2>1. Fits(decode_close_container(RawPacket(Only(CloseContainerId(v)), b), v), e, x.kind, m)
    BY <1>1, <1>7, <1>8, AtFits, Zenon
  <2>2. QED
    BY <1>3, <1>4, <1>5, <2>1, Zenon
<1>9. Encode(x, v) = RawPacket(Only(CloseContainerId(v)), p)
      /\ Only(CloseContainerId(v)) \in SmallIds
  BY <1>2, <1>7, SmallKnown
<1>10. QED
  BY <1>8, <1>9, Zenon DEF Understood

BossBarPackets ==
  Of("BossBar", [uuid : Uuid, action : Int32])

LEMMA BossBarUnderstood == 
  ASSUME NEW x \in BossBarPackets, NEW v \in Int
  PROVE  Understood(x, v)
<1> DEFINE y == x.val
           e == [uuid |-> y.uuid, action |-> y.action]
<1>1. x.kind = "BossBar" /\ y \in [uuid : Uuid, action : Int32]
  BY SMT DEF Of, BossBarPackets
<1>2. Encode(x, v) = encode_boss_bar(y, v)
  BY <1>1, SMT DEF Encode
<1>3. ASSUME NEW b
      PROVE  Decode(x.kind, RawPacket(Only(BossBarId(v)), b), v)
               = decode_boss_bar(RawPacket(Only(BossBarId(v)), b), v)
  BY <1>1, SMT DEF Decode
<1>4. Expected(x, v) = y
  BY <1>1, SMT DEF Expected
<1> HIDE DEF y
<1>5. y = e
  BY <1>1
<1>6. y.uuid \in Str /\ Len(y.uuid) = 16 /\ y.action \in Int32
  BY <1>1, SMT DEF Uuid, Words
<1>7. PICK p \in Str :
        /\ encode_boss_bar(y, v)
             = RawPacket(Only(BossBarId(v)), p)
        /\ \A b, m \in Str : b \o m = p =>
             At(decode_boss_bar(RawPacket(Only(BossBarId(v)), b), v), e, <<>>, m)
  BY <1>6, BossBarRead, Zenon
<1> HIDE DEF e
<1>8. ASSUME NEW b \in Str, NEW m \in Str, b \o m = p
      PROVE  Fits(Decode(x.kind, RawPacket(Only(BossBarId(v)), b), v), Expected(x, v), x.kind,
             m)
  <2>1. Fits(decode_boss_bar(RawPacket(Only(BossBarId(v)), b), v), e, x.kind, m)
    BY <1>1, <1>7, <1>8, AtFits, Zenon
  <2>2. QED
    BY <1>3, <1>4, <1>5, <2>1, Zenon
<1>9. Encode(x, v) = RawPacket(Only(BossBarId(v)), p) /\ Only(BossBarId(v)) \in SmallIds
  BY <1>2, <1>7, SmallKnown
<1>10. QED
  BY <1>8, <1>9, Zenon DEF Understood

ObjectivePackets ==
  Of("Objective", [name : Field, action : Bytes])

LEMMA ObjectiveUnderstood == 
  ASSUME NEW x \in ObjectivePackets, NEW v \in Int
  PROVE  Understood(x, v)
<1> DEFINE y == x.val
           e == [name |-> y.name, action |-> y.action]
<1>1. x.kind = "Objective" /\ y \in [name : Field, action : Bytes]
  BY SMT DEF Of, ObjectivePackets
<1>2. Encode(x, v) = encode_objective(y, v)
  BY <1>1, SMT DEF Encode
<1>3. ASSUME NEW b
      PROVE  Decode(x.kind, RawPacket(Only(ScoreboardObjectiveId(v)), b), v)
               = decode_objective(RawPacket(Only(ScoreboardObjectiveId(v)), b), v)
  BY <1>1, SMT DEF Decode
<1>4. Expected(x, v) = y
  BY <1>1, SMT DEF Expected
<1> HIDE DEF y
<1>5. y = e
  BY <1>1
<1>6. y.name \in Field /\ y.action \in Bytes
  BY <1>1, SMT DEF Uuid, Words
<1>7. PICK p \in Str :
        /\ encode_objective(y, v)
             = RawPacket(Only(ScoreboardObjectiveId(v)), p)
        /\ \A b, m \in Str : b \o m = p =>
             At(decode_objective(RawPacket(Only(ScoreboardObjectiveId(v)), b), v), e, <<>>, m)
  BY <1>6, ObjectiveRead, Zenon
<1> HIDE DEF e
<1>8. ASSUME NEW b \in Str, NEW m \in Str, b \o m = p
      PROVE  Fits(Decode(x.kind, RawPacket(Only(ScoreboardObjectiveId(v)), b), v),
             Expected(x, v), x.kind, m)
  <2>1. Fits(decode_objective(RawPacket(Only(ScoreboardObjectiveId(v)), b), v), e, x.kind, m)
    BY <1>1, <1>7, <1>8, AtFits, Zenon
  <2>2. QED
    BY <1>3, <1>4, <1>5, <2>1, Zenon
<1>9. Encode(x, v) = RawPacket(Only(ScoreboardObjectiveId(v)), p)
      /\ Only(ScoreboardObjectiveId(v)) \in SmallIds
  BY <1>2, <1>7, SmallKnown
<1>10. QED
  BY <1>8, <1>9, Zenon DEF Understood

DisplayObjectivePackets ==
  Of("DisplayObjective", [position : Int32, name : Field])

LEMMA DisplayObjectiveUnderstood == 
  ASSUME NEW x \in DisplayObjectivePackets, NEW v \in Int
  PROVE  Understood(x, v)
<1> DEFINE y == x.val
           e == [position |-> y.position, name |-> y.name]
<1>1. x.kind = "DisplayObjective" /\ y \in [position : Int32, name : Field]
  BY SMT DEF Of, DisplayObjectivePackets
<1>2. Encode(x, v) = encode_display_objective(y, v)
  BY <1>1, SMT DEF Encode
<1>3. ASSUME NEW b
      PROVE  Decode(x.kind, RawPacket(Only(DisplayObjectiveId(v)), b), v)
               = decode_display_objective(RawPacket(Only(DisplayObjectiveId(v)), b), v)
  BY <1>1, SMT DEF Decode
<1>4. Expected(x, v) = y
  BY <1>1, SMT DEF Expected
<1> HIDE DEF y
<1>5. y = e
  BY <1>1
<1>6. y.position \in Int32 /\ y.name \in Field
  BY <1>1, SMT DEF Uuid, Words
<1>7. PICK p \in Str :
        /\ encode_display_objective(y, v)
             = RawPacket(Only(DisplayObjectiveId(v)), p)
        /\ \A b, m \in Str : b \o m = p =>
             At(decode_display_objective(RawPacket(Only(DisplayObjectiveId(v)), b), v), e,
               <<>>, m)
  BY <1>6, DisplayObjectiveRead, Zenon
<1> HIDE DEF e
<1>8. ASSUME NEW b \in Str, NEW m \in Str, b \o m = p
      PROVE  Fits(Decode(x.kind, RawPacket(Only(DisplayObjectiveId(v)), b), v),
             Expected(x, v), x.kind, m)
  <2>1. Fits(decode_display_objective(RawPacket(Only(DisplayObjectiveId(v)), b), v), e,
        x.kind, m)
    BY <1>1, <1>7, <1>8, AtFits, Zenon
  <2>2. QED
    BY <1>3, <1>4, <1>5, <2>1, Zenon
<1>9. Encode(x, v) = RawPacket(Only(DisplayObjectiveId(v)), p)
      /\ Only(DisplayObjectiveId(v)) \in SmallIds
  BY <1>2, <1>7, SmallKnown
<1>10. QED
  BY <1>8, <1>9, Zenon DEF Understood

PluginRequestPackets ==
  Of("PluginRequest", [message_id : Int32, channel : Field, data : Str])

LEMMA PluginRequestUnderstood == 
  ASSUME NEW x \in PluginRequestPackets, NEW v \in Int
  PROVE  Understood(x, v)
<1> DEFINE y == x.val
           e == [message_id |-> y.message_id, channel |-> y.channel, data |-> y.data]
<1>1. x.kind = "PluginRequest" /\ y \in [message_id : Int32, channel : Field, data : Str]
  BY SMT DEF Of, PluginRequestPackets
<1>2. Encode(x, v) = encode_plugin_request(y)
  BY <1>1, SMT DEF Encode
<1>3. ASSUME NEW b
      PROVE  Decode(x.kind, RawPacket(4, b), v)
               = decode_plugin_request(RawPacket(4, b))
  BY <1>1, SMT DEF Decode
<1>4. Expected(x, v) = y
  BY <1>1, SMT DEF Expected
<1> HIDE DEF y
<1>5. y = e
  BY <1>1
<1>6. y.message_id \in Int32 /\ y.channel \in Field /\ y.data \in Str
  BY <1>1, SMT DEF Uuid, Words
<1>7. PICK p \in Str :
        /\ encode_plugin_request(y)
             = RawPacket(4, p)
        /\ \A b, m \in Str : b \o m = p =>
             Fits(decode_plugin_request(RawPacket(4, b)), e, "PluginRequest", m)
  BY <1>6, PluginRequestRead, Zenon
<1> HIDE DEF e
<1>8. ASSUME NEW b \in Str, NEW m \in Str, b \o m = p
      PROVE  Fits(Decode(x.kind, RawPacket(4, b), v), Expected(x, v), x.kind, m)
  <2>1. Fits(decode_plugin_request(RawPacket(4, b)), e, x.kind, m)
    BY <1>1, <1>7, <1>8, Zenon
  <2>2. QED
    BY <1>3, <1>4, <1>5, <2>1, Zenon
<1>9. Encode(x, v) = RawPacket(4, p) /\ 4 \in SmallIds
  BY <1>2, <1>7, SmallKnown
<1>10. QED
  BY <1>8, <1>9, Zenon DEF Understood

RegistryDataPackets ==
  Of("RegistryData", [registry_id : Field, raw_data : Str])

LEMMA RegistryDataUnderstood == 
  ASSUME NEW x \in RegistryDataPackets, NEW v \in Int
  PROVE  Understood(x, v)
<1> DEFINE y == x.val
           e == [registry_id |-> y.registry_id, raw_data |-> y.raw_data]
<1>1. x.kind = "RegistryData" /\ y \in [registry_id : Field, raw_data : Str]
  BY SMT DEF Of, RegistryDataPackets
<1>2. Encode(x, v) = encode_registry_data(y)
  BY <1>1, SMT DEF Encode
<1>3. ASSUME NEW b
      PROVE  Decode(x.kind, RawPacket(7, b), v)
               = decode_registry_data(RawPacket(7, b))
  BY <1>1, SMT DEF Decode
<1>4. Expected(x, v) = y
  BY <1>1, SMT DEF Expected
<1> HIDE DEF y
<1>5. y = e
  BY <1>1
<1>6. y.registry_id \in Field /\ y.raw_data \in Str
  BY <1>1, SMT DEF Uuid, Words
<1>7. PICK p \in Str :
        /\ encode_registry_data(y)
             = RawPacket(7, p)
        /\ \A b, m \in Str : b \o m = p =>
             Fits(decode_registry_data(RawPacket(7, b)), e, "RegistryData", m)
  BY <1>6, RegistryDataRead, Zenon
<1> HIDE DEF e
<1>8. ASSUME NEW b \in Str, NEW m \in Str, b \o m = p
      PROVE  Fits(Decode(x.kind, RawPacket(7, b), v), Expected(x, v), x.kind, m)
  <2>1. Fits(decode_registry_data(RawPacket(7, b)), e, x.kind, m)
    BY <1>1, <1>7, <1>8, Zenon
  <2>2. QED
    BY <1>3, <1>4, <1>5, <2>1, Zenon
<1>9. Encode(x, v) = RawPacket(7, p) /\ 7 \in SmallIds
  BY <1>2, <1>7, SmallKnown
<1>10. QED
  BY <1>8, <1>9, Zenon DEF Understood

LEMMA NameField == \A n \in Seq(NameBytes) : Len(n) \in 1 .. 16 => n \in Field
<1>1. NameBytes \subseteq Bytes
  BY DEF NameBytes, Bytes
<1>2. \A n \in Seq(NameBytes) : n \in Str
  BY <1>1, SMT DEF Str
<1>3. ASSUME NEW n \in Seq(NameBytes), Len(n) \in 1 .. 16 PROVE n \in Field
  <2>0. \A k \in 1 .. 16 : k <= MaxInt32
    BY DEF MaxInt32
  <2>1. Len(n) <= MaxInt32
    BY <1>3, <2>0, Zenon
  <2>2. QED
    BY <1>2, <2>1, Zenon DEF Field
<1>4. QED
  BY <1>3, Zenon

LoginStartPackets ==
  Of("LoginStart", [username : {n \in Seq(NameBytes) : Len(n) \in 1 .. 16}, player_uuid : Uuid])

LEMMA LoginStartUnderstood ==
  ASSUME NEW x \in LoginStartPackets, NEW v \in Int
  PROVE  Understood(x, v)
<1> DEFINE y == x.val
           e == [username |-> y.username, player_uuid |-> y.player_uuid]
<1>1. x.kind = "LoginStart"
      /\ y \in [username : {n \in Seq(NameBytes) : Len(n) \in 1 .. 16}, player_uuid : Uuid]
  BY SMT DEF Of, LoginStartPackets
<1>2. Encode(x, v) = encode_login_start(y)
  BY <1>1, SMT DEF Encode
<1>3. ASSUME NEW b
      PROVE  Decode(x.kind, RawPacket(0, b), v)
               = decode_login_start(RawPacket(0, b))
  BY <1>1, SMT DEF Decode
<1>4. Expected(x, v) = e
  BY <1>1, SMT DEF Expected
<1> HIDE DEF y
<1>6. y.username \in Seq(NameBytes) /\ Len(y.username) \in 1 .. 16 /\ y.username \in Field
      /\ y.player_uuid \in Str /\ Len(y.player_uuid) = 16
  BY <1>1, NameField, SMT DEF Uuid
<1>7. PICK p \in Str :
        /\ encode_login_start(y)
             = RawPacket(0, p)
        /\ \A b, m \in Str : b \o m = p =>
             Fits(decode_login_start(RawPacket(0, b)), e, "LoginStart", m)
  BY <1>6, LoginStartRead, Zenon
<1> HIDE DEF e
<1>8. ASSUME NEW b \in Str, NEW m \in Str, b \o m = p
      PROVE  Fits(Decode(x.kind, RawPacket(0, b), v), Expected(x, v), x.kind, m)
  <2>1. Fits(decode_login_start(RawPacket(0, b)), e, x.kind, m)
    BY <1>1, <1>7, <1>8, Zenon
  <2>2. QED
    BY <1>3, <1>4, <2>1, Zenon
<1>9. Encode(x, v) = RawPacket(0, p) /\ 0 \in SmallIds
  BY <1>2, <1>7, SmallKnown
<1>10. QED
  BY <1>8, <1>9, Zenon DEF Understood

EncryptionRequestPackets ==
  Of("EncryptionRequest",
    [server_id : Field, public_key : Field, verify_token : Field,
    should_authenticate : BOOLEAN])

LEMMA EncryptionRequestUnderstoodNew ==
  ASSUME NEW x \in EncryptionRequestPackets, NEW v \in Int, v >= 766
  PROVE  Understood(x, v)
<1> DEFINE y == x.val
           e == [server_id |-> y.server_id, public_key |-> y.public_key,
                verify_token |-> y.verify_token, should_authenticate |-> y.should_authenticate]
<1>1. x.kind = "EncryptionRequest"
      /\ y \in [server_id : Field, public_key : Field, verify_token : Field,
      should_authenticate : BOOLEAN]
  BY SMT DEF Of, EncryptionRequestPackets
<1>2. Encode(x, v) = encode_encryption_request(y, v)
  BY <1>1, SMT DEF Encode
<1>3. ASSUME NEW b
      PROVE  Decode(x.kind, RawPacket(1, b), v)
               = decode_encryption_request(RawPacket(1, b))
  BY <1>1, SMT DEF Decode
<1>4. Expected(x, v) = e
  BY <1>1, SMT DEF Expected
<1> HIDE DEF y
<1>6. y.server_id \in Field /\ y.public_key \in Field /\ y.verify_token \in Field
      /\ y.should_authenticate \in BOOLEAN
  BY <1>1, SMT DEF Uuid, Words
<1>7. PICK p \in Str :
        /\ encode_encryption_request(y, v)
             = RawPacket(1, p)
        /\ \A b, m \in Str : b \o m = p =>
             Fits(decode_encryption_request(RawPacket(1, b)), e, "EncryptionRequest", m)
  BY <1>6, EncryptionRequestNew, Zenon
<1> HIDE DEF e
<1>8. ASSUME NEW b \in Str, NEW m \in Str, b \o m = p
      PROVE  Fits(Decode(x.kind, RawPacket(1, b), v), Expected(x, v), x.kind, m)
  <2>1. Fits(decode_encryption_request(RawPacket(1, b)), e, x.kind, m)
    BY <1>1, <1>7, <1>8, Zenon
  <2>2. QED
    BY <1>3, <1>4, <2>1, Zenon
<1>9. Encode(x, v) = RawPacket(1, p) /\ 1 \in SmallIds
  BY <1>2, <1>7, SmallKnown
<1>10. QED
  BY <1>8, <1>9, Zenon DEF Understood

LEMMA EncryptionRequestUnderstoodOld ==
  ASSUME NEW x \in EncryptionRequestPackets, NEW v \in Int, v < 766
  PROVE  Understood(x, v)
<1> DEFINE y == x.val
           e == [server_id |-> y.server_id, public_key |-> y.public_key,
                verify_token |-> y.verify_token, should_authenticate |-> TRUE]
<1>1. x.kind = "EncryptionRequest"
      /\ y \in [server_id : Field, public_key : Field, verify_token : Field,
      should_authenticate : BOOLEAN]
  BY SMT DEF Of, EncryptionRequestPackets
<1>2. Encode(x, v) = encode_encryption_request(y, v)
  BY <1>1, SMT DEF Encode
<1>3. ASSUME NEW b
      PROVE  Decode(x.kind, RawPacket(1, b), v)
               = decode_encryption_request(RawPacket(1, b))
  BY <1>1, SMT DEF Decode
<1>4. Expected(x, v) = e
  <2>1. (y.should_authenticate \/ v < 766) = TRUE
    BY SMT
  <2>2. Expected(x, v) = [y EXCEPT !.should_authenticate = y.should_authenticate \/ v < 766]
    BY <1>1, SMT DEF Expected
  <2>3. Expected(x, v) = [y EXCEPT !.should_authenticate = TRUE]
    BY <2>1, <2>2, Zenon
  <2>t. \A t : [y EXCEPT !.should_authenticate = t]
                = [server_id |-> y.server_id, public_key |-> y.public_key,
                   verify_token |-> y.verify_token, should_authenticate |-> t]
    BY <1>1, SMT
  <2>4. [y EXCEPT !.should_authenticate = TRUE] = e
    BY <2>t, Zenon
  <2>5. QED
    BY <2>3, <2>4, Zenon
<1> HIDE DEF y
<1>6. y.server_id \in Field /\ y.public_key \in Field /\ y.verify_token \in Field
      /\ y.should_authenticate \in BOOLEAN
  BY <1>1, SMT DEF Uuid, Words
<1>7. PICK p \in Str :
        /\ encode_encryption_request(y, v)
             = RawPacket(1, p)
        /\ \A b, m \in Str : b \o m = p =>
             Fits(decode_encryption_request(RawPacket(1, b)), e, "EncryptionRequest", m)
  BY <1>6, EncryptionRequestOld, Zenon
<1> HIDE DEF e
<1>8. ASSUME NEW b \in Str, NEW m \in Str, b \o m = p
      PROVE  Fits(Decode(x.kind, RawPacket(1, b), v), Expected(x, v), x.kind, m)
  <2>1. Fits(decode_encryption_request(RawPacket(1, b)), e, x.kind, m)
    BY <1>1, <1>7, <1>8, Zenon
  <2>2. QED
    BY <1>3, <1>4, <2>1, Zenon
<1>9. Encode(x, v) = RawPacket(1, p) /\ 1 \in SmallIds
  BY <1>2, <1>7, SmallKnown
<1>10. QED
  BY <1>8, <1>9, Zenon DEF Understood

VelocityPackets ==
  Of("Velocity",
    [client_ip : Field, id : Uuid, name : Field, properties : Words(Property, MaxInt32)])

LEMMA VelocityUnderstood ==
  ASSUME NEW x \in VelocityPackets, NEW v \in Int
  PROVE  Understood(x, v)
<1> DEFINE y == x.val
           e == [version |-> 4, client_ip |-> y.client_ip, id |-> y.id, name |-> y.name,
                properties |-> y.properties]
<1>1. x.kind = "Velocity"
      /\ y \in [client_ip : Field, id : Uuid, name : Field,
      properties : Words(Property, MaxInt32)]
  BY SMT DEF Of, VelocityPackets
<1>2. Encode(x, v) = encode_plugin_response(VelocityResponse(y))
  BY <1>1, SMT DEF Encode, VelocityResponse
<1>3. ASSUME NEW b
      PROVE  Decode(x.kind, RawPacket(2, b), v)
               = ReadVelocity(RawPacket(2, b))
  BY <1>1, SMT DEF Decode, ReadVelocity
<1>4. Expected(x, v) = e
  BY <1>1, SMT DEF Expected
<1> HIDE DEF y
<1>6. y.client_ip \in Field /\ y.id \in Str /\ Len(y.id) = 16 /\ y.name \in Field
      /\ y.properties \in Seq(Property) /\ Len(y.properties) <= MaxInt32
  BY <1>1, SMT DEF Uuid, Words
<1>7. PICK p \in Str :
        /\ encode_plugin_response(VelocityResponse(y))
             = RawPacket(2, p)
        /\ \A b, m \in Str : b \o m = p =>
             At(ReadVelocity(RawPacket(2, b)), e, <<>>, m)
  BY <1>6, VelocityRead, Zenon
<1> HIDE DEF e
<1>8. ASSUME NEW b \in Str, NEW m \in Str, b \o m = p
      PROVE  Fits(Decode(x.kind, RawPacket(2, b), v), Expected(x, v), x.kind, m)
  <2>1. Fits(ReadVelocity(RawPacket(2, b)), e, x.kind, m)
    BY <1>1, <1>7, <1>8, AtFits, Zenon
  <2>2. QED
    BY <1>3, <1>4, <2>1, Zenon
<1>9. Encode(x, v) = RawPacket(2, p) /\ 2 \in SmallIds
  BY <1>2, <1>7, SmallKnown
<1>10. QED
  BY <1>8, <1>9, Zenon DEF Understood

RespawnPackets ==
  Of("Respawn",
    [dimension_type : Field, dimension_name : Field, hashed_seed : {s \in Str : Len(s) = 8},
    gamemode : Bytes, previous_gamemode : -1 .. 127, is_debug : Bools, is_flat : Bools,
    data_kept : Bytes])

LEMMA RespawnUnderstoodNew ==
  ASSUME NEW x \in RespawnPackets, NEW v \in Int, v >= 766
  PROVE  Understood(x, v)
<1> DEFINE y == x.val
           e == [dimension_type |-> y.dimension_name, dimension_name |-> y.dimension_name,
                hashed_seed |-> y.hashed_seed, gamemode |-> y.gamemode,
                previous_gamemode |-> y.previous_gamemode, is_debug |-> y.is_debug,
                is_flat |-> y.is_flat, data_kept |-> y.data_kept]
<1>1. x.kind = "Respawn"
      /\ y \in [dimension_type : Field, dimension_name : Field,
      hashed_seed : {s \in Str : Len(s) = 8}, gamemode : Bytes, previous_gamemode : -1 .. 127,
      is_debug : Bools, is_flat : Bools, data_kept : Bytes]
  BY SMT DEF Of, RespawnPackets
<1>2. Encode(x, v) = encode_respawn(y, v)
  BY <1>1, SMT DEF Encode
<1>3. ASSUME NEW b
      PROVE  Decode(x.kind, RawPacket(RespawnId(v), b), v)
               = decode_respawn(RawPacket(RespawnId(v), b), v)
  BY <1>1, SMT DEF Decode
<1>4. Expected(x, v) = e
  BY <1>1, SMT DEF Expected
<1> HIDE DEF y
<1>6. y.dimension_type \in Field /\ y.dimension_name \in Field /\ y.hashed_seed \in Str
      /\ Len(y.hashed_seed) = 8 /\ y.gamemode \in Bytes /\ y.previous_gamemode \in -1 .. 127
      /\ y.is_debug \in Bools /\ y.is_flat \in Bools /\ y.data_kept \in Bytes
  BY <1>1, SMT DEF Uuid, Words
<1>7. PICK p \in Str :
        /\ encode_respawn(y, v)
             = RawPacket(RespawnId(v), p)
        /\ \A b, m \in Str : b \o m = p =>
             At(decode_respawn(RawPacket(RespawnId(v), b), v), e, <<>>, m)
  BY <1>6, RespawnNew, Zenon
<1> HIDE DEF e
<1>8. ASSUME NEW b \in Str, NEW m \in Str, b \o m = p
      PROVE  Fits(Decode(x.kind, RawPacket(RespawnId(v), b), v), Expected(x, v), x.kind, m)
  <2>1. Fits(decode_respawn(RawPacket(RespawnId(v), b), v), e, x.kind, m)
    BY <1>1, <1>7, <1>8, AtFits, Zenon
  <2>2. QED
    BY <1>3, <1>4, <2>1, Zenon
<1>9. Encode(x, v) = RawPacket(RespawnId(v), p) /\ RespawnId(v) \in SmallIds
  BY <1>2, <1>7, SmallKnown
<1>10. QED
  BY <1>8, <1>9, Zenon DEF Understood

LEMMA RespawnUnderstoodOld ==
  ASSUME NEW x \in RespawnPackets, NEW v \in Int, v < 766
  PROVE  Understood(x, v)
<1> DEFINE y == x.val
           e == [dimension_type |-> y.dimension_type, dimension_name |-> y.dimension_name,
                hashed_seed |-> y.hashed_seed, gamemode |-> y.gamemode,
                previous_gamemode |-> y.previous_gamemode, is_debug |-> y.is_debug,
                is_flat |-> y.is_flat, data_kept |-> y.data_kept]
<1>1. x.kind = "Respawn"
      /\ y \in [dimension_type : Field, dimension_name : Field,
      hashed_seed : {s \in Str : Len(s) = 8}, gamemode : Bytes, previous_gamemode : -1 .. 127,
      is_debug : Bools, is_flat : Bools, data_kept : Bytes]
  BY SMT DEF Of, RespawnPackets
<1>2. Encode(x, v) = encode_respawn(y, v)
  BY <1>1, SMT DEF Encode
<1>3. ASSUME NEW b
      PROVE  Decode(x.kind, RawPacket(RespawnId(v), b), v)
               = decode_respawn(RawPacket(RespawnId(v), b), v)
  BY <1>1, SMT DEF Decode
<1>4. Expected(x, v) = e
  BY <1>1, SMT DEF Expected
<1> HIDE DEF y
<1>6. y.dimension_type \in Field /\ y.dimension_name \in Field /\ y.hashed_seed \in Str
      /\ Len(y.hashed_seed) = 8 /\ y.gamemode \in Bytes /\ y.previous_gamemode \in -1 .. 127
      /\ y.is_debug \in Bools /\ y.is_flat \in Bools /\ y.data_kept \in Bytes
  BY <1>1, SMT DEF Uuid, Words
<1>7. PICK p \in Str :
        /\ encode_respawn(y, v)
             = RawPacket(RespawnId(v), p)
        /\ \A b, m \in Str : b \o m = p =>
             At(decode_respawn(RawPacket(RespawnId(v), b), v), e, <<0>>
               \o (encode_varint(0) \o <<>>), m)
  BY <1>6, RespawnOld, Zenon
<1> HIDE DEF e
<1>8. ASSUME NEW b \in Str, NEW m \in Str, b \o m = p
      PROVE  Fits(Decode(x.kind, RawPacket(RespawnId(v), b), v), Expected(x, v), x.kind, m)
  <2>1. Fits(decode_respawn(RawPacket(RespawnId(v), b), v), e, x.kind, m)
    BY <1>1, <1>7, <1>8, AtFits, Zenon
  <2>2. QED
    BY <1>3, <1>4, <2>1, Zenon
<1>9. Encode(x, v) = RawPacket(RespawnId(v), p) /\ RespawnId(v) \in SmallIds
  BY <1>2, <1>7, SmallKnown
<1>10. QED
  BY <1>8, <1>9, Zenon DEF Understood

StopSoundPackets ==
  Of("StopSound",
    {z \in [flags : Bytes, source : Opts(Int32),
    sound : Opts(Field)] : (Bit(z.flags, 1) <=> z.source # <<>>)
    /\ (Bit(z.flags, 2) <=> z.sound # <<>>)})

LEMMA StopSoundUnderstood ==
  ASSUME NEW x \in StopSoundPackets, NEW v \in Int
  PROVE  Understood(x, v)
<1> DEFINE y == x.val
           e == [flags |-> y.flags, source |-> y.source, sound |-> y.sound]
<1>1. x.kind = "StopSound"
      /\ y \in {z \in [flags : Bytes, source : Opts(Int32),
      sound : Opts(Field)] : (Bit(z.flags, 1) <=> z.source # <<>>)
      /\ (Bit(z.flags, 2) <=> z.sound # <<>>)}
  BY SMT DEF Of, StopSoundPackets
<1>2. Encode(x, v) = encode_stop_sound(y, v)
  BY <1>1, SMT DEF Encode
<1>3. ASSUME NEW b
      PROVE  Decode(x.kind, RawPacket(Only(StopSoundId(v)), b), v)
               = decode_stop_sound(RawPacket(Only(StopSoundId(v)), b), v)
  BY <1>1, SMT DEF Decode
<1>4. Expected(x, v) = e
  BY <1>1, SMT DEF Expected
<1> HIDE DEF y
<1>6. y.flags \in Bytes /\ y.source \in Opts(Int32) /\ y.sound \in Opts(Field)
      /\ (Bit(y.flags, 1) <=> y.source # <<>>) /\ (Bit(y.flags, 2) <=> y.sound # <<>>)
  BY <1>1, SMT DEF Uuid, Words
<1>7. PICK p \in Str :
        /\ encode_stop_sound(y, v)
             = RawPacket(Only(StopSoundId(v)), p)
        /\ \A b, m \in Str : b \o m = p =>
             At(decode_stop_sound(RawPacket(Only(StopSoundId(v)), b), v), e, <<>>, m)
  BY <1>6, StopSoundRead, Zenon
<1> HIDE DEF e
<1>8. ASSUME NEW b \in Str, NEW m \in Str, b \o m = p
      PROVE  Fits(Decode(x.kind, RawPacket(Only(StopSoundId(v)), b), v), Expected(x, v),
             x.kind, m)
  <2>1. Fits(decode_stop_sound(RawPacket(Only(StopSoundId(v)), b), v), e, x.kind, m)
    BY <1>1, <1>7, <1>8, AtFits, Zenon
  <2>2. QED
    BY <1>3, <1>4, <2>1, Zenon
<1>9. Encode(x, v) = RawPacket(Only(StopSoundId(v)), p) /\ Only(StopSoundId(v)) \in SmallIds
  BY <1>2, <1>7, SmallKnown
<1>10. QED
  BY <1>8, <1>9, Zenon DEF Understood

PluginResponsePackets == Of("PluginResponse",
                         [message_id : Int32, successful : BOOLEAN, data : Str])

LEMMA PluginResponseUnderstood ==
  ASSUME NEW x \in PluginResponsePackets, NEW v \in Int
  PROVE  Understood(x, v)
<1> DEFINE y == x.val
           w == IF y.successful THEN y.data ELSE <<>>
           e == [message_id |-> y.message_id, successful |-> y.successful, data |-> w]
<1>1. x.kind = "PluginResponse" /\ y \in [message_id : Int32, successful : BOOLEAN, data : Str]
  BY SMT DEF Of, PluginResponsePackets
<1>2. Encode(x, v) = encode_plugin_response(y)
  BY <1>1, SMT DEF Encode
<1>3. ASSUME NEW b
      PROVE  Decode(x.kind, RawPacket(2, b), v) = decode_plugin_response(RawPacket(2, b))
  BY <1>1, SMT DEF Decode
<1>4. Expected(x, v) = e
  <2>1. Expected(x, v) = [y EXCEPT !.data = w]
    BY <1>1, SMT DEF Expected
  <2>2. \A d : [y EXCEPT !.data = d]
               = [message_id |-> y.message_id, successful |-> y.successful, data |-> d]
    BY <1>1, SMT
  <2>3. QED
    BY <2>1, <2>2, Zenon
<1> HIDE DEF y
<1>6. y.message_id \in Int32 /\ y.successful \in BOOLEAN /\ y.data \in Str
  BY <1>1, SMT
<1>7. PICK p \in Str :
        /\ encode_plugin_response(y) = RawPacket(2, p)
        /\ \A b, m \in Str : b \o m = p =>
             Fits(decode_plugin_response(RawPacket(2, b)), e, "PluginResponse", m)
  BY <1>6, PluginResponseRead, Zenon
<1> HIDE DEF e
<1>8. ASSUME NEW b \in Str, NEW m \in Str, b \o m = p
      PROVE  Fits(Decode(x.kind, RawPacket(2, b), v), Expected(x, v), x.kind, m)
  BY <1>1, <1>3, <1>4, <1>7, <1>8, Zenon
<1>9. Encode(x, v) = RawPacket(2, p) /\ 2 \in SmallIds
  BY <1>2, <1>7, SmallKnown
<1>10. QED
  BY <1>8, <1>9, Zenon DEF Understood

LoginAcknowledgedPackets == Of("LoginAcknowledged", {<<>>})

LEMMA LoginAcknowledgedUnderstood ==
  ASSUME NEW x \in LoginAcknowledgedPackets, NEW v \in Int
  PROVE  Understood(x, v)
<1>1. x.kind = "LoginAcknowledged" /\ x.val = <<>>
  BY SMT DEF Of, LoginAcknowledgedPackets
<1>2. Encode(x, v) = RawPacket(3, <<>>)
  BY <1>1, SMT DEF Encode, encode_login_acknowledged
<1>3. ASSUME NEW b
      PROVE  Decode(x.kind, RawPacket(3, b), v) = decode_login_acknowledged(RawPacket(3, b))
  BY <1>1, SMT DEF Decode
<1>4. Expected(x, v) = <<>>
  BY <1>1, SMT DEF Expected
<1>8. ASSUME NEW b \in Str, NEW m \in Str, b \o m = <<>>
      PROVE  Fits(Decode(x.kind, RawPacket(3, b), v), Expected(x, v), x.kind, m)
  <2>1. At(decode_login_acknowledged(RawPacket(3, b)), <<>>, <<>>, m)
    BY <1>8, LoginAcknowledgedRead, Zenon
  <2>2. Fits(decode_login_acknowledged(RawPacket(3, b)), <<>>, x.kind, m)
    BY <2>1, AtFits, Zenon
  <2>3. QED
    BY <1>3, <1>4, <2>2, Zenon
<1>9. 3 \in SmallIds /\ <<>> \in Str
  BY SmallKnown, Empty
<1>10. QED
  BY <1>2, <1>8, <1>9, Zenon DEF Understood

SystemChatPackets == Of("SystemChat",
                     [message : {s \in Str : Len(s) <= MaxU16}, overlay : Bools])

LEMMA SystemChatUnderstood ==
  ASSUME NEW x \in SystemChatPackets, NEW v \in Int
  PROVE  Understood(x, v)
<1> DEFINE y == x.val
           id == SystemChatId(v)
           e == [message |-> y.message, overlay |-> y.overlay]
<1>1. x.kind = "SystemChat" /\ y \in [message : {s \in Str : Len(s) <= MaxU16}, overlay : Bools]
  BY SMT DEF Of, SystemChatPackets
<1>2. Encode(x, v) = encode_system_chat(y, v)
  BY <1>1, SMT DEF Encode
<1>3. ASSUME NEW b
      PROVE  Decode(x.kind, RawPacket(id, b), v) = decode_system_chat(RawPacket(id, b), v)
  BY <1>1, SMT DEF Decode
<1>4. Expected(x, v) = e
  BY <1>1, SMT DEF Expected
<1> HIDE DEF y
<1>6. y.message \in Str /\ Len(y.message) <= MaxU16 /\ y.overlay \in Bools
  BY <1>1, SMT
<1>k. Len(y.message) <= MaxInt32 - 11
  BY <1>6 DEF MaxU16, MaxInt32, Str
<1>7. PICK p \in Str : /\ encode_system_chat(y, v) = RawPacket(id, p)
                       /\ decode_system_chat(RawPacket(id, p), v) = Got(e, <<>>)
  <2>1. CASE v >= 766
    BY <1>6, <2>1, SystemChatNew, Zenon
  <2>2. CASE v < 766
    BY <1>6, <1>k, <2>2, SystemChatOld, Zenon
  <2>3. QED
    BY <2>1, <2>2
<1> HIDE DEF e
<1>8. ASSUME NEW b \in Str, NEW m \in Str, b \o m = p, Readable(x, v, m)
      PROVE  Fits(Decode(x.kind, RawPacket(id, b), v), Expected(x, v), x.kind, m)
  <2>1. m = <<>>
    BY <1>1, <1>8, Zenon DEF Readable
  <2>2. b = p
    BY <1>8, <2>1, Empty, Zenon
  <2>3. Fits(Got(e, <<>>), e, x.kind, m)
    BY Zenon DEF Fits
  <2>4. QED
    BY <1>3, <1>4, <1>7, <2>2, <2>3, Zenon
<1>9. Encode(x, v) = RawPacket(id, p) /\ id \in SmallIds
  BY <1>2, <1>7, SmallKnown
<1>10. QED
  BY <1>8, <1>9, Zenon DEF Understood

LoginSuccessPackets ==
  Of("LoginSuccess", [uuid : Uuid, username : Field, properties : Words(Property, MaxInt32),
                      session_id : Opts(Uuid)])

LEMMA LoginSuccessUnderstood ==
  ASSUME NEW x \in LoginSuccessPackets, NEW v \in Int
  PROVE  Understood(x, v)
<1> DEFINE y == x.val
           sid == SessionBytes(y, v)
           ps == IF v >= 759 THEN y.properties ELSE <<>>
           ss == IF v < 776 THEN <<>> ELSE <<sid>>
           e == [uuid |-> y.uuid, username |-> y.username, properties |-> ps, session_id |-> ss]
           D(b) == decode_login_success(RawPacket(2, b), v)
<1>1. /\ x.kind = "LoginSuccess"
      /\ y \in [uuid : Uuid, username : Field, properties : Words(Property, MaxInt32),
                session_id : Opts(Uuid)]
  BY SMT DEF Of, LoginSuccessPackets
<1>2. Encode(x, v) = encode_login_success(y, v)
  BY <1>1, SMT DEF Encode
<1>3. ASSUME NEW b
      PROVE  Decode(x.kind, RawPacket(2, b), v) = decode_login_success(RawPacket(2, b), v)
  BY <1>1, SMT DEF Decode
<1>6. /\ y.uuid \in Str /\ Len(y.uuid) = 16 /\ y.username \in Field
      /\ y.properties \in Seq(Property) /\ Len(y.properties) <= MaxInt32
      /\ y.session_id \in Opts(Uuid)
  BY <1>1, SMT DEF Uuid, Words
<1>n. Nil \in Str /\ Len(Nil) = 16
  BY DEF Nil, Str, Bytes
<1>o. y.session_id = <<>> \/ (y.session_id = <<y.session_id[1]>> /\ y.session_id[1] \in Uuid)
  BY <1>6 DEF Opts
<1>p. sid \in Str /\ (v >= 776 => Len(sid) = 16) /\ (v < 776 => sid = <<>>)
  BY <1>n, <1>o, Empty DEF Uuid, SessionBytes
<1>4. Expected(x, v) = e
  <2> DEFINE st == IF v < 776 THEN <<>> ELSE IF y.session_id =
      <<>> THEN <<Nil>> ELSE y.session_id
  <2>1. Expected(x, v) = [uuid |-> y.uuid, username |-> y.username, properties |-> ps,
                          session_id |-> st]
    BY <1>1, SMT DEF Expected
  <2>3. st = ss
    BY <1>o DEF SessionBytes
  <2> HIDE DEF ps, ss, st, y
  <2>5. QED
    BY <2>1, <2>3, Zenon
<1>q. sid = SessionBytes(y, v) /\ sid \in Str
  BY <1>p, Zenon
<1> HIDE DEF sid
<1> HIDE DEF y
<1>7. PICK p \in Str :
        /\ encode_login_success(y, v) = RawPacket(2, p)
        /\ \A b, m \in Str : b \o m = p =>
             /\ v < 707 => At(D(b), [uuid |-> y.uuid, username |-> y.username,
                                     properties |-> <<>>, session_id |-> <<>>], <<>>, m)
             /\ ~(v < 707) => LoginNamed(b, y, Many(y.properties, WriteProperty) \o sid, m)
  <2>1. CASE v < 707
    <3>1. \E p \in Str :
            /\ encode_login_success(y, v) = RawPacket(2, p)
            /\ \A b, m \in Str : b \o m = p =>
                 At(D(b), [uuid |-> y.uuid, username |-> y.username,
                           properties |-> <<>>, session_id |-> <<>>], <<>>, m)
      BY <1>6, <2>1, LoginSuccessOld, Zenon
    <3>2. QED
      BY <2>1, <3>1, Zenon
  <2>2. CASE ~(v < 707)
    <3>0. v >= 707
      BY <2>2
    <3>1. \E p \in Str :
            /\ encode_login_success(y, v) = RawPacket(2, p)
            /\ \A b, m \in Str : b \o m = p =>
                 LoginNamed(b, y, Many(y.properties, WriteProperty) \o sid, m)
      BY <1>6, <1>q, <3>0, LoginSuccessNamed, Zenon
    <3>2. QED
      BY <2>2, <3>1, Zenon
  <2>3. QED
    BY <2>1, <2>2, Zenon
<1>8. ASSUME NEW b \in Str, NEW m \in Str, b \o m = p, Readable(x, v, m)
      PROVE  Fits(D(b), e, x.kind, m)
  <2>1. CASE v < 707
    <3>1. e = [uuid |-> y.uuid, username |-> y.username, properties |-> <<>>,
          session_id |-> <<>>]
      BY <2>1
    <3>2. At(D(b), e, <<>>, m)
      BY <1>7, <1>8, <2>1, <3>1, Zenon
    <3>3. QED
      BY <3>2, AtFits, Zenon
  <2>2. CASE v \in 707 .. 758
    <3>a. v >= 707 /\ v < 759
      BY <2>2
    <3>0. ~(v < 707)
      BY <2>2
    <3>1. e = [uuid |-> y.uuid, username |-> y.username, properties |-> <<>>,
          session_id |-> <<>>]
      BY <3>a
    <3>2. m # <<>>
      BY <1>1, <1>8, <2>2, Zenon DEF Readable
    <3>3. LoginNamed(b, y, Many(y.properties, WriteProperty) \o sid, m)
      BY <1>7, <1>8, <3>0, Zenon
    <3> HIDE DEF e
    <3>4. QED
      BY <1>1, <1>6, <3>a, <3>1, <3>2, <3>3, LoginSuccessMiddle, Zenon
  <2>3. CASE v >= 759 /\ v < 776
    <3>0. ~(v < 707)
      BY <2>3
    <3>1. e = [uuid |-> y.uuid, username |-> y.username, properties |-> y.properties,
               session_id |-> <<>>]
      BY <2>3
    <3>3. LoginNamed(b, y, Many(y.properties, WriteProperty) \o sid, m)
      BY <1>7, <1>8, <3>0, Zenon
    <3>4. sid = <<>>
      BY <1>p, <2>3, Zenon
    <3> HIDE DEF e
    <3>5. QED
      BY <1>1, <1>6, <2>3, <3>1, <3>3, <3>4, LoginSuccessProperties, Zenon
  <2>4. CASE v >= 776
    <3>0. ~(v < 707)
      BY <2>4
    <3>1. e = [uuid |-> y.uuid, username |-> y.username, properties |-> y.properties,
               session_id |-> <<sid>>]
      BY <2>4
    <3>3. LoginNamed(b, y, Many(y.properties, WriteProperty) \o sid, m)
      BY <1>7, <1>8, <3>0, Zenon
    <3>4. sid \in Str /\ Len(sid) = 16
      BY <1>p, <2>4, Zenon
    <3> HIDE DEF e
    <3>5. QED
      BY <1>1, <1>6, <2>4, <3>1, <3>3, <3>4, LoginSuccessSession, Zenon
  <2>5. v < 707 \/ v \in 707 .. 758 \/ (v >= 759 /\ v < 776) \/ v >= 776
    OBVIOUS
  <2> HIDE DEF e, D
  <2>6. QED
    BY <2>1, <2>2, <2>3, <2>4, <2>5
<1>9. Encode(x, v) = RawPacket(2, p) /\ 2 \in SmallIds
  BY <1>2, <1>7, SmallKnown
<1> HIDE DEF e
<1>s. \A b, m \in Str : b \o m = p /\ Readable(x, v, m) =>
         Fits(Decode(x.kind, RawPacket(2, b), v), Expected(x, v), x.kind, m)
  BY <1>3, <1>4, <1>8, Zenon
<1>10. QED
  BY <1>s, <1>9, Zenon DEF Understood

-----------------------------------------------------------------------------
(* The packets that a run sends are among them. *)
LEMMA Monotone ==
  ASSUME NEW k, NEW S, NEW T, S \subseteq T
  PROVE  Of(k, S) \subseteq Of(k, T)
BY SMT DEF Of

LEMMA ConstantsTyped ==
  /\ Names \subseteq {n \in Seq(NameBytes) : Len(n) \in 1 .. 16} /\ Names \subseteq Field
  /\ Uuids \subseteq Uuid /\ Opts(Uuids) \subseteq Opts(Uuid) /\ Numbers \subseteq Int32
  /\ Seed \in {s \in Str : Len(s) = 8}
<1>1. Names \subseteq {n \in Seq(NameBytes) : Len(n) \in 1 .. 16}
  BY NamesAssumption, Zenon
<1>2. Names \subseteq Field
  BY NamesAssumption, NameField, Zenon
<1>3. Uuids \subseteq Uuid
  BY UuidsAssumption, Zenon DEF Uuid, Str, Bytes
<1>4. Opts(Uuids) \subseteq Opts(Uuid)
  BY <1>3, Zenon DEF Opts
<1>5. Numbers \subseteq Int32
  BY NumbersAssumption DEF MaxInt32, Int32
<1>6. Seed \in {s \in Str : Len(s) = 8}
  BY DEF Seed, Str, Bytes
<1>7. QED
  BY <1>1, <1>2, <1>3, <1>4, <1>5, <1>6, Zenon

LEMMA ShortLists ==
  ASSUME NEW S, NEW a \in S, NEW b \in S, NEW max \in Nat, max >= 2
  PROVE  <<>> \in Words(S, max) /\ <<a, b>> \in Words(S, max)
BY DEF Words

LEMMA PropertyListsTyped == PropertyLists \subseteq Words(Property, MaxInt32)
<1> DEFINE plain  == [name |-> Word.name, value |-> Word.hub, signature |-> <<>>]
           signed == [plain EXCEPT !.signature = <<Word.steel>>]
<1>1. Word.name \in Field /\ Word.hub \in Field /\ Word.steel \in Field
  BY WordsKnown, Zenon
<1>2. <<>> \in Opts(Field) /\ <<Word.steel>> \in Opts(Field)
  BY <1>1, Zenon DEF Opts
<1>3. plain \in Property
  BY <1>1, <1>2 DEF Property
<1>4. signed \in Property
  BY <1>1, <1>2 DEF Property
<1>5. MaxInt32 \in Nat /\ MaxInt32 >= 2
  BY DEF MaxInt32
<1>6. PropertyLists = {<<>>, <<plain, signed>>}
  BY Zenon DEF PropertyLists
<1> HIDE DEF plain, signed
<1>7. QED
  BY <1>3, <1>4, <1>5, <1>6, ShortLists, Zenon

LEMMA NumbersKnown ==
  /\ {47, 776} \subseteq Int32 /\ {25565} \subseteq 0 .. MaxU16 /\ {300} \subseteq Int32
  /\ {7} \subseteq Int32 /\ {0} \subseteq Int32 /\ {1} \subseteq Int32
     /\ {0, 1, 200} \subseteq Int32
  /\ {0, 18} \subseteq Int32 /\ {0, 255} \subseteq Bytes /\ 0 .. 2 \subseteq Bytes
  /\ {1} \subseteq Bytes /\ {-1, 0} \subseteq -1 .. 127 /\ {0, 3} \subseteq Bytes
  /\ {2} \subseteq Int32 /\ {-1, 63} \subseteq Int32 /\ {200} \subseteq Int32
BY DEF Int32, MaxU16, Bytes

LEMMA TextsKnown ==
  /\ {<<>>} \subseteq Field /\ {<<9, 9>>} \subseteq Field /\ {<<>>, <<4>>} \subseteq Str
  /\ {<<10, 0>>} \subseteq Str /\ {Word.hub} \subseteq Field /\ {Word.lobby} \subseteq Field
  /\ {Seed} \subseteq {s \in Str : Len(s) = 8}
  /\ {FALSE} \subseteq Bools /\ {TRUE} \subseteq Bools
  /\ {<<>>, <<Word.hub, Word.lobby>>} \subseteq Words(Field, MaxMatches)
  /\ {<<>>, <<Word.hub, Word.lobby>>} \subseteq Words(Field, MaxDimensions)
  /\ Names \cup {<<>>} \subseteq {s \in Str : Len(s) <= MaxU16}
<1>1. <<>> \in Str /\ <<9, 9>> \in Str /\ <<4>> \in Str /\ <<10, 0>> \in Str
  BY DEF Str, Bytes
<1>2. Len(<<>>) <= MaxInt32 /\ Len(<<9, 9>>) <= MaxInt32
  BY DEF MaxInt32
<1>3. <<>> \in Field /\ <<9, 9>> \in Field
  BY <1>1, <1>2, Zenon DEF Field
<1>4. Word.hub \in Field /\ Word.lobby \in Field
  BY WordsKnown, Zenon
<1>5. MaxMatches \in Nat /\ MaxMatches >= 2 /\ MaxDimensions \in Nat /\ MaxDimensions >= 2
  BY DEF MaxMatches, MaxDimensions
<1>6. {<<>>, <<Word.hub, Word.lobby>>} \subseteq Words(Field, MaxMatches)
  BY <1>4, <1>5, ShortLists, Zenon
<1>7. {<<>>, <<Word.hub, Word.lobby>>} \subseteq Words(Field, MaxDimensions)
  BY <1>4, <1>5, ShortLists, Zenon
<1>8. ASSUME NEW n \in Names PROVE n \in Str /\ Len(n) <= MaxU16
  <2>1. n \in Field /\ Len(n) \in 1 .. 16
    BY NamesAssumption, ConstantsTyped, Zenon
  <2>2. \A k \in 1 .. 16 : k <= MaxU16
    BY DEF MaxU16
  <2>3. QED
    BY <2>1, <2>2, Zenon DEF Field
<1>9. Len(<<>>) <= MaxU16
  BY DEF MaxU16
<1>10. Names \cup {<<>>} \subseteq {s \in Str : Len(s) <= MaxU16}
  BY <1>1, <1>8, <1>9, Zenon
<1>11. FALSE \in Bools /\ TRUE \in Bools
  BY Zenon DEF Bools
<1>12. QED
  BY <1>1, <1>3, <1>4, <1>6, <1>7, <1>10, <1>11, ConstantsTyped, Zenon

LEMMA StopSoundTyped ==
  ASSUME NEW w \in Field
  PROVE  {[flags |-> 0, source |-> <<>>, sound |-> <<>>],
          [flags |-> 1, source |-> <<200>>, sound |-> <<>>],
          [flags |-> 2, source |-> <<>>, sound |-> <<w>>],
          [flags |-> 3, source |-> <<2>>, sound |-> <<w>>]}
         \subseteq {z \in [flags : Bytes, source : Opts(Int32),
           sound : Opts(Field)] : (Bit(z.flags, 1) <=> z.source # <<>>)
           /\ (Bit(z.flags, 2) <=> z.sound # <<>>)}
<1>1. /\ ~Bit(0, 1) /\ ~Bit(0, 2) /\ Bit(1, 1) /\ ~Bit(1, 2) /\ ~Bit(2, 1) /\ Bit(2, 2)
      /\ Bit(3, 1) /\ Bit(3, 2)
  BY DEF Bit
<1>2. <<>> \in Opts(Int32) /\ <<200>> \in Opts(Int32) /\ <<2>> \in Opts(Int32)
  BY DEF Opts, Int32
<1>3. <<>> \in Opts(Field) /\ <<w>> \in Opts(Field)
  BY Zenon DEF Opts
<1>4. 0 \in Bytes /\ 1 \in Bytes /\ 2 \in Bytes /\ 3 \in Bytes
  BY DEF Bytes
<1>5. QED
  BY <1>1, <1>2, <1>3, <1>4, SMT

Packets ==
       HandshakePackets \cup LoginStartPackets
  \cup EncryptionRequestPackets \cup EncryptionResponsePackets
  \cup LoginSuccessPackets \cup LoginAcknowledgedPackets
  \cup SetCompressionPackets \cup PluginRequestPackets
  \cup PluginResponsePackets \cup VelocityPackets
  \cup RegistryDataPackets \cup ChatCommandPackets
  \cup TabCompleteRequestPackets \cup TabCompleteResponsePackets
  \cup RespawnPackets \cup SystemChatPackets
  \cup CloseContainerPackets \cup StopSoundPackets
  \cup BossBarPackets \cup ObjectivePackets
  \cup DisplayObjectivePackets

LEMMA SendableTyped ==
  Sendable \subseteq Packets \cup Of("Login", Worlds) \cup Of("DeclareCommands", Trees)
<1> DEFINE versions == {47, 776}
           ports == {25565}
           P1 == Of("Handshake",
                 [protocol_version : versions, server_address : Names, server_port : ports,
                 next_state : {"Status", "Login"}])
           P2 == Of("LoginStart", [username : Names, player_uuid : Uuids])
           P3 == Of("EncryptionRequest",
                 [server_id : {<<>>}, public_key : Names, verify_token : {<<9, 9>>},
                 should_authenticate : BOOLEAN])
           P4 == Of("EncryptionResponse", [shared_secret : Names, verify_token : Names])
           P5 == Of("LoginSuccess",
                 [uuid : Uuids, username : Names, properties : PropertyLists,
                 session_id : Opts(Uuids)])
           P6 == Of("LoginAcknowledged", {<<>>})
           P7 == Of("SetCompression", [threshold : Numbers])
           P8 == Of("PluginRequest",
                 [message_id : {300}, channel : Names, data : {<<>>, <<4>>}])
           P9 == Of("PluginResponse",
                 [message_id : {7}, successful : BOOLEAN, data : {<<>>, <<4>>}])
           P10 == Of("Velocity",
                  [client_ip : {Word.hub}, id : Uuids, name : Names,
                  properties : PropertyLists])
           P11 == Of("RegistryData", [registry_id : Names, raw_data : {<<10, 0>>}])
           P12 == Of("ChatCommand", [command : Names])
           P13 == Of("TabCompleteRequest", [transaction_id : Numbers, text : {Word.hub}])
           P14 == Of("TabCompleteResponse",
                  [transaction_id : {300}, start : {0}, length : {1},
                  matches : {<<>>, <<Word.hub, Word.lobby>>}])
           P15 == Of("Respawn",
                  [dimension_type : Names, dimension_name : {Word.lobby},
                  hashed_seed : {Seed}, gamemode : {1}, previous_gamemode : {-1, 0},
                  is_debug : {FALSE}, is_flat : {TRUE}, data_kept : {0, 3}])
           P16 == Of("SystemChat", [message : Names \cup {<<>>}, overlay : BOOLEAN])
           P17 == Of("CloseContainer", [window_id : {0, 255}])
           P18 == Of("StopSound", {[flags |-> 0, source |-> <<>>, sound |-> <<>>],
                  [flags |-> 1, source |-> <<200>>, sound |-> <<>>], [flags |-> 2,
                  source |-> <<>>, sound |-> <<Word.hub>>], [flags |-> 3, source |-> <<2>>,
                  sound |-> <<Word.hub>>]})
           P19 == Of("BossBar", [uuid : Uuids, action : {0, 1, 200}])
           P20 == Of("Objective", [name : Names, action : 0 .. 2])
           P21 == Of("DisplayObjective", [position : {0, 18}, name : Names])
           P22 == Of("Login", Worlds)
           P23 == Of("DeclareCommands", Trees)
<1>0. versions \subseteq Int32 /\ ports \subseteq 0 .. MaxU16
  BY NumbersKnown
<1> HIDE DEF versions, ports
<1>1. P1 \subseteq HandshakePackets
  <2> DEFINE s1 == versions
             s2 == Names
             s3 == ports
             t1 == Int32
             t2 == Field
             t3 == 0 .. MaxU16
  <2>1. s1 \subseteq t1 /\ s2 \subseteq t2 /\ s3 \subseteq t3
    BY <1>0, NumbersKnown, TextsKnown, ConstantsTyped, PropertyListsTyped DEF Bools
  <2> HIDE DEF s1, s2, s3, t1, t2, t3
  <2>2. [protocol_version : s1, server_address : s2, server_port : s3,
        next_state : {"Status", "Login"}] \subseteq [protocol_version : t1,
        server_address : t2, server_port : t3, next_state : {"Status", "Login"}]
    BY <2>1, SMT
  <2>3. Of("Handshake",
        [protocol_version : s1, server_address : s2, server_port : s3,
        next_state : {"Status", "Login"}])
          \subseteq Of("Handshake",
            [protocol_version : t1, server_address : t2, server_port : t3,
            next_state : {"Status", "Login"}])
    BY <2>2, Monotone, Zenon
  <2>4. QED
    BY <2>3 DEF s1, s2, s3, t1, t2, t3, HandshakePackets
<1>2. P2 \subseteq LoginStartPackets
  <2> DEFINE s1 == Names
             s2 == Uuids
             t1 == {n \in Seq(NameBytes) : Len(n) \in 1 .. 16}
             t2 == Uuid
  <2>1. s1 \subseteq t1 /\ s2 \subseteq t2
    BY <1>0, NumbersKnown, TextsKnown, ConstantsTyped, PropertyListsTyped DEF Bools
  <2> HIDE DEF s1, s2, t1, t2
  <2>2. [username : s1, player_uuid : s2] \subseteq [username : t1, player_uuid : t2]
    BY <2>1, SMT
  <2>3. Of("LoginStart", [username : s1, player_uuid : s2])
          \subseteq Of("LoginStart", [username : t1, player_uuid : t2])
    BY <2>2, Monotone, Zenon
  <2>4. QED
    BY <2>3 DEF s1, s2, t1, t2, LoginStartPackets
<1>3. P3 \subseteq EncryptionRequestPackets
  <2> DEFINE s1 == {<<>>}
             s2 == Names
             s3 == {<<9, 9>>}
             t1 == Field
             t2 == Field
             t3 == Field
  <2>1. s1 \subseteq t1 /\ s2 \subseteq t2 /\ s3 \subseteq t3
    BY <1>0, NumbersKnown, TextsKnown, ConstantsTyped, PropertyListsTyped DEF Bools
  <2> HIDE DEF s1, s2, s3, t1, t2, t3
  <2>2. [server_id : s1, public_key : s2, verify_token : s3,
        should_authenticate : BOOLEAN] \subseteq [server_id : t1, public_key : t2,
        verify_token : t3, should_authenticate : BOOLEAN]
    BY <2>1, SMT
  <2>3. Of("EncryptionRequest",
        [server_id : s1, public_key : s2, verify_token : s3, should_authenticate : BOOLEAN])
          \subseteq Of("EncryptionRequest",
            [server_id : t1, public_key : t2, verify_token : t3, should_authenticate : BOOLEAN])
    BY <2>2, Monotone, Zenon
  <2>4. QED
    BY <2>3 DEF s1, s2, s3, t1, t2, t3, EncryptionRequestPackets
<1>4. P4 \subseteq EncryptionResponsePackets
  <2> DEFINE s1 == Names
             s2 == Names
             t1 == Field
             t2 == Field
  <2>1. s1 \subseteq t1 /\ s2 \subseteq t2
    BY <1>0, NumbersKnown, TextsKnown, ConstantsTyped, PropertyListsTyped DEF Bools
  <2> HIDE DEF s1, s2, t1, t2
  <2>2. [shared_secret : s1, verify_token : s2] \subseteq [shared_secret : t1,
        verify_token : t2]
    BY <2>1, SMT
  <2>3. Of("EncryptionResponse", [shared_secret : s1, verify_token : s2])
          \subseteq Of("EncryptionResponse", [shared_secret : t1, verify_token : t2])
    BY <2>2, Monotone, Zenon
  <2>4. QED
    BY <2>3 DEF s1, s2, t1, t2, EncryptionResponsePackets
<1>5. P5 \subseteq LoginSuccessPackets
  <2> DEFINE s1 == Uuids
             s2 == Names
             s3 == PropertyLists
             s4 == Opts(Uuids)
             t1 == Uuid
             t2 == Field
             t3 == Words(Property, MaxInt32)
             t4 == Opts(Uuid)
  <2>1. s1 \subseteq t1 /\ s2 \subseteq t2 /\ s3 \subseteq t3 /\ s4 \subseteq t4
    BY <1>0, NumbersKnown, TextsKnown, ConstantsTyped, PropertyListsTyped DEF Bools
  <2> HIDE DEF s1, s2, s3, s4, t1, t2, t3, t4
  <2>2. [uuid : s1, username : s2, properties : s3, session_id : s4] \subseteq [uuid : t1,
        username : t2, properties : t3, session_id : t4]
    BY <2>1, SMT
  <2>3. Of("LoginSuccess", [uuid : s1, username : s2, properties : s3, session_id : s4])
          \subseteq Of("LoginSuccess",
            [uuid : t1, username : t2, properties : t3, session_id : t4])
    BY <2>2, Monotone, Zenon
  <2>4. QED
    BY <2>3 DEF s1, s2, s3, s4, t1, t2, t3, t4, LoginSuccessPackets
<1>6. P6 \subseteq LoginAcknowledgedPackets
  BY DEF LoginAcknowledgedPackets
<1>7. P7 \subseteq SetCompressionPackets
  <2> DEFINE s1 == Numbers
             t1 == Int32
  <2>1. s1 \subseteq t1
    BY <1>0, NumbersKnown, TextsKnown, ConstantsTyped, PropertyListsTyped DEF Bools
  <2> HIDE DEF s1, t1
  <2>2. [threshold : s1] \subseteq [threshold : t1]
    BY <2>1, SMT
  <2>3. Of("SetCompression", [threshold : s1])
          \subseteq Of("SetCompression", [threshold : t1])
    BY <2>2, Monotone, Zenon
  <2>4. QED
    BY <2>3 DEF s1, t1, SetCompressionPackets
<1>8. P8 \subseteq PluginRequestPackets
  <2> DEFINE s1 == {300}
             s2 == Names
             s3 == {<<>>, <<4>>}
             t1 == Int32
             t2 == Field
             t3 == Str
  <2>1. s1 \subseteq t1 /\ s2 \subseteq t2 /\ s3 \subseteq t3
    BY <1>0, NumbersKnown, TextsKnown, ConstantsTyped, PropertyListsTyped DEF Bools
  <2> HIDE DEF s1, s2, s3, t1, t2, t3
  <2>2. [message_id : s1, channel : s2, data : s3] \subseteq [message_id : t1, channel : t2,
        data : t3]
    BY <2>1, SMT
  <2>3. Of("PluginRequest", [message_id : s1, channel : s2, data : s3])
          \subseteq Of("PluginRequest", [message_id : t1, channel : t2, data : t3])
    BY <2>2, Monotone, Zenon
  <2>4. QED
    BY <2>3 DEF s1, s2, s3, t1, t2, t3, PluginRequestPackets
<1>9. P9 \subseteq PluginResponsePackets
  <2> DEFINE s1 == {7}
             s3 == {<<>>, <<4>>}
             t1 == Int32
             t3 == Str
  <2>1. s1 \subseteq t1 /\ s3 \subseteq t3
    BY <1>0, NumbersKnown, TextsKnown, ConstantsTyped, PropertyListsTyped DEF Bools
  <2> HIDE DEF s1, s3, t1, t3
  <2>2. [message_id : s1, successful : BOOLEAN, data : s3] \subseteq [message_id : t1,
        successful : BOOLEAN, data : t3]
    BY <2>1, SMT
  <2>3. Of("PluginResponse", [message_id : s1, successful : BOOLEAN, data : s3])
          \subseteq Of("PluginResponse", [message_id : t1, successful : BOOLEAN, data : t3])
    BY <2>2, Monotone, Zenon
  <2>4. QED
    BY <2>3 DEF s1, s3, t1, t3, PluginResponsePackets
<1>10. P10 \subseteq VelocityPackets
  <2> DEFINE s1 == {Word.hub}
             s2 == Uuids
             s3 == Names
             s4 == PropertyLists
             t1 == Field
             t2 == Uuid
             t3 == Field
             t4 == Words(Property, MaxInt32)
  <2>1. s1 \subseteq t1 /\ s2 \subseteq t2 /\ s3 \subseteq t3 /\ s4 \subseteq t4
    BY <1>0, NumbersKnown, TextsKnown, ConstantsTyped, PropertyListsTyped DEF Bools
  <2> HIDE DEF s1, s2, s3, s4, t1, t2, t3, t4
  <2>2. [client_ip : s1, id : s2, name : s3, properties : s4] \subseteq [client_ip : t1,
        id : t2, name : t3, properties : t4]
    BY <2>1, SMT
  <2>3. Of("Velocity", [client_ip : s1, id : s2, name : s3, properties : s4])
          \subseteq Of("Velocity", [client_ip : t1, id : t2, name : t3, properties : t4])
    BY <2>2, Monotone, Zenon
  <2>4. QED
    BY <2>3 DEF s1, s2, s3, s4, t1, t2, t3, t4, VelocityPackets
<1>11. P11 \subseteq RegistryDataPackets
  <2> DEFINE s1 == Names
             s2 == {<<10, 0>>}
             t1 == Field
             t2 == Str
  <2>1. s1 \subseteq t1 /\ s2 \subseteq t2
    BY <1>0, NumbersKnown, TextsKnown, ConstantsTyped, PropertyListsTyped DEF Bools
  <2> HIDE DEF s1, s2, t1, t2
  <2>2. [registry_id : s1, raw_data : s2] \subseteq [registry_id : t1, raw_data : t2]
    BY <2>1, SMT
  <2>3. Of("RegistryData", [registry_id : s1, raw_data : s2])
          \subseteq Of("RegistryData", [registry_id : t1, raw_data : t2])
    BY <2>2, Monotone, Zenon
  <2>4. QED
    BY <2>3 DEF s1, s2, t1, t2, RegistryDataPackets
<1>12. P12 \subseteq ChatCommandPackets
  <2> DEFINE s1 == Names
             t1 == Field
  <2>1. s1 \subseteq t1
    BY <1>0, NumbersKnown, TextsKnown, ConstantsTyped, PropertyListsTyped DEF Bools
  <2> HIDE DEF s1, t1
  <2>2. [command : s1] \subseteq [command : t1]
    BY <2>1, SMT
  <2>3. Of("ChatCommand", [command : s1])
          \subseteq Of("ChatCommand", [command : t1])
    BY <2>2, Monotone, Zenon
  <2>4. QED
    BY <2>3 DEF s1, t1, ChatCommandPackets
<1>13. P13 \subseteq TabCompleteRequestPackets
  <2> DEFINE s1 == Numbers
             s2 == {Word.hub}
             t1 == Int32
             t2 == Field
  <2>1. s1 \subseteq t1 /\ s2 \subseteq t2
    BY <1>0, NumbersKnown, TextsKnown, ConstantsTyped, PropertyListsTyped DEF Bools
  <2> HIDE DEF s1, s2, t1, t2
  <2>2. [transaction_id : s1, text : s2] \subseteq [transaction_id : t1, text : t2]
    BY <2>1, SMT
  <2>3. Of("TabCompleteRequest", [transaction_id : s1, text : s2])
          \subseteq Of("TabCompleteRequest", [transaction_id : t1, text : t2])
    BY <2>2, Monotone, Zenon
  <2>4. QED
    BY <2>3 DEF s1, s2, t1, t2, TabCompleteRequestPackets
<1>14. P14 \subseteq TabCompleteResponsePackets
  <2> DEFINE s1 == {300}
             s2 == {0}
             s3 == {1}
             s4 == {<<>>, <<Word.hub, Word.lobby>>}
             t1 == Int32
             t2 == Int32
             t3 == Int32
             t4 == Words(Field, MaxMatches)
  <2>1. s1 \subseteq t1 /\ s2 \subseteq t2 /\ s3 \subseteq t3 /\ s4 \subseteq t4
    BY <1>0, NumbersKnown, TextsKnown, ConstantsTyped, PropertyListsTyped DEF Bools
  <2> HIDE DEF s1, s2, s3, s4, t1, t2, t3, t4
  <2>2. [transaction_id : s1, start : s2, length : s3,
        matches : s4] \subseteq [transaction_id : t1, start : t2, length : t3, matches : t4]
    BY <2>1, SMT
  <2>3. Of("TabCompleteResponse", [transaction_id : s1, start : s2, length : s3, matches : s4])
          \subseteq Of("TabCompleteResponse",
            [transaction_id : t1, start : t2, length : t3, matches : t4])
    BY <2>2, Monotone, Zenon
  <2>4. QED
    BY <2>3 DEF s1, s2, s3, s4, t1, t2, t3, t4, TabCompleteResponsePackets
<1>15. P15 \subseteq RespawnPackets
  <2> DEFINE s1 == Names
             s2 == {Word.lobby}
             s3 == {Seed}
             s4 == {1}
             s5 == {-1, 0}
             s6 == {FALSE}
             s7 == {TRUE}
             s8 == {0, 3}
             t1 == Field
             t2 == Field
             t3 == {s \in Str : Len(s) = 8}
             t4 == Bytes
             t5 == -1 .. 127
             t6 == Bools
             t7 == Bools
             t8 == Bytes
  <2>1. s1 \subseteq t1 /\ s2 \subseteq t2 /\ s3 \subseteq t3 /\ s4 \subseteq t4
        /\ s5 \subseteq t5 /\ s6 \subseteq t6 /\ s7 \subseteq t7 /\ s8 \subseteq t8
    BY <1>0, NumbersKnown, TextsKnown, ConstantsTyped, PropertyListsTyped DEF Bools
  <2> HIDE DEF s1, s2, s3, s4, s5, s6, s7, s8, t1, t2, t3, t4, t5, t6, t7, t8
  <2>2. [dimension_type : s1, dimension_name : s2, hashed_seed : s3, gamemode : s4,
        previous_gamemode : s5, is_debug : s6, is_flat : s7,
        data_kept : s8] \subseteq [dimension_type : t1, dimension_name : t2, hashed_seed : t3,
        gamemode : t4, previous_gamemode : t5, is_debug : t6, is_flat : t7, data_kept : t8]
    BY <2>1, SMT
  <2>3. Of("Respawn",
        [dimension_type : s1, dimension_name : s2, hashed_seed : s3, gamemode : s4,
        previous_gamemode : s5, is_debug : s6, is_flat : s7, data_kept : s8])
          \subseteq Of("Respawn",
            [dimension_type : t1, dimension_name : t2, hashed_seed : t3, gamemode : t4,
            previous_gamemode : t5, is_debug : t6, is_flat : t7, data_kept : t8])
    BY <2>2, Monotone, Zenon
  <2>4. QED
    BY <2>3 DEF s1, s2, s3, s4, s5, s6, s7, s8, t1, t2, t3, t4, t5, t6, t7, t8, RespawnPackets
<1>16. P16 \subseteq SystemChatPackets
  <2> DEFINE s1 == Names \cup {<<>>}
             s2 == BOOLEAN
             t1 == {s \in Str : Len(s) <= MaxU16}
             t2 == Bools
  <2>1. s1 \subseteq t1 /\ s2 \subseteq t2
    BY <1>0, NumbersKnown, TextsKnown, ConstantsTyped, PropertyListsTyped DEF Bools
  <2> HIDE DEF s1, s2, t1, t2
  <2>2. [message : s1, overlay : s2] \subseteq [message : t1, overlay : t2]
    BY <2>1, SMT
  <2>3. Of("SystemChat", [message : s1, overlay : s2])
          \subseteq Of("SystemChat", [message : t1, overlay : t2])
    BY <2>2, Monotone, Zenon
  <2>4. QED
    BY <2>3 DEF s1, s2, t1, t2, SystemChatPackets
<1>17. P17 \subseteq CloseContainerPackets
  <2> DEFINE s1 == {0, 255}
             t1 == Bytes
  <2>1. s1 \subseteq t1
    BY <1>0, NumbersKnown, TextsKnown, ConstantsTyped, PropertyListsTyped DEF Bools
  <2> HIDE DEF s1, t1
  <2>2. [window_id : s1] \subseteq [window_id : t1]
    BY <2>1, SMT
  <2>3. Of("CloseContainer", [window_id : s1])
          \subseteq Of("CloseContainer", [window_id : t1])
    BY <2>2, Monotone, Zenon
  <2>4. QED
    BY <2>3 DEF s1, t1, CloseContainerPackets
<1>18. P18 \subseteq StopSoundPackets
  <2> DEFINE S == {[flags |-> 0, source |-> <<>>, sound |-> <<>>], [flags |-> 1,
      source |-> <<200>>, sound |-> <<>>], [flags |-> 2, source |-> <<>>,
      sound |-> <<Word.hub>>], [flags |-> 3, source |-> <<2>>, sound |-> <<Word.hub>>]}
             T == {z \in [flags : Bytes, source : Opts(Int32),
                  sound : Opts(Field)] : (Bit(z.flags, 1) <=> z.source # <<>>)
                  /\ (Bit(z.flags, 2) <=> z.sound # <<>>)}
  <2>1. S \subseteq T
    BY TextsKnown, StopSoundTyped
  <2> HIDE DEF S, T
  <2>2. Of("StopSound", S) \subseteq Of("StopSound", T)
    BY <2>1, Monotone, Zenon
  <2>3. QED
    BY <2>2 DEF S, T, StopSoundPackets
<1>19. P19 \subseteq BossBarPackets
  <2> DEFINE s1 == Uuids
             s2 == {0, 1, 200}
             t1 == Uuid
             t2 == Int32
  <2>1. s1 \subseteq t1 /\ s2 \subseteq t2
    BY <1>0, NumbersKnown, TextsKnown, ConstantsTyped, PropertyListsTyped DEF Bools
  <2> HIDE DEF s1, s2, t1, t2
  <2>2. [uuid : s1, action : s2] \subseteq [uuid : t1, action : t2]
    BY <2>1, SMT
  <2>3. Of("BossBar", [uuid : s1, action : s2])
          \subseteq Of("BossBar", [uuid : t1, action : t2])
    BY <2>2, Monotone, Zenon
  <2>4. QED
    BY <2>3 DEF s1, s2, t1, t2, BossBarPackets
<1>20. P20 \subseteq ObjectivePackets
  <2> DEFINE s1 == Names
             s2 == 0 .. 2
             t1 == Field
             t2 == Bytes
  <2>1. s1 \subseteq t1 /\ s2 \subseteq t2
    BY <1>0, NumbersKnown, TextsKnown, ConstantsTyped, PropertyListsTyped DEF Bools
  <2> HIDE DEF s1, s2, t1, t2
  <2>2. [name : s1, action : s2] \subseteq [name : t1, action : t2]
    BY <2>1, SMT
  <2>3. Of("Objective", [name : s1, action : s2])
          \subseteq Of("Objective", [name : t1, action : t2])
    BY <2>2, Monotone, Zenon
  <2>4. QED
    BY <2>3 DEF s1, s2, t1, t2, ObjectivePackets
<1>21. P21 \subseteq DisplayObjectivePackets
  <2> DEFINE s1 == {0, 18}
             s2 == Names
             t1 == Int32
             t2 == Field
  <2>1. s1 \subseteq t1 /\ s2 \subseteq t2
    BY <1>0, NumbersKnown, TextsKnown, ConstantsTyped, PropertyListsTyped DEF Bools
  <2> HIDE DEF s1, s2, t1, t2
  <2>2. [position : s1, name : s2] \subseteq [position : t1, name : t2]
    BY <2>1, SMT
  <2>3. Of("DisplayObjective", [position : s1, name : s2])
          \subseteq Of("DisplayObjective", [position : t1, name : t2])
    BY <2>2, Monotone, Zenon
  <2>4. QED
    BY <2>3 DEF s1, s2, t1, t2, DisplayObjectivePackets
<1>24. Sendable =
       P1 \cup P2 \cup P3 \cup P4 \cup P5 \cup P6 \cup P7 \cup P8 \cup P9 \cup P10 \cup P11 \cup P12 \cup P13 \cup P14 \cup P15 \cup P16 \cup P17 \cup P18 \cup P19 \cup P20 \cup P21 \cup P22 \cup P23
  BY DEF Sendable, versions, ports
<1> HIDE DEF P1, P2, P3, P4, P5, P6, P7, P8, P9, P10, P11, P12, P13, P14, P15, P16, P17, P18,
    P19, P20, P21
<1>25. QED
  BY <1>1, <1>2, <1>3, <1>4, <1>5, <1>6, <1>7, <1>8, <1>9, <1>10, <1>11, <1>12, <1>13, <1>14,
     <1>15, <1>16, <1>17, <1>18, <1>19, <1>20, <1>21, <1>24, SMT DEF Packets

LEMMA KindOf == \A k, S : \A x \in Of(k, S) : x.kind = k
BY SMT DEF Of

LEMMA ChatKind ==
  ASSUME NEW x \in Packets, x.kind = "SystemChat"
  PROVE  x \in SystemChatPackets
BY KindOf, SMT
   DEF Packets, HandshakePackets, LoginStartPackets, EncryptionRequestPackets,
       EncryptionResponsePackets, LoginSuccessPackets, LoginAcknowledgedPackets,
       SetCompressionPackets, PluginRequestPackets, PluginResponsePackets, VelocityPackets,
       RegistryDataPackets, ChatCommandPackets, TabCompleteRequestPackets,
       TabCompleteResponsePackets, RespawnPackets, CloseContainerPackets, StopSoundPackets,
       BossBarPackets, ObjectivePackets, DisplayObjectivePackets

(* A chat message that stops short. *)
CutChatSeen(x, v) ==
  x.kind = "SystemChat" =>
    \E id \in SmallIds, p \in Str :
      /\ Encode(x, v) = RawPacket(id, p)
      /\ \A b, m \in Str : b \o m = p /\ m # <<>> =>
           ChatCut(Decode(x.kind, RawPacket(id, b), v), x.val, v)

LEMMA CutChatUnderstood ==
  ASSUME NEW x \in Packets, NEW v \in Int
  PROVE  CutChatSeen(x, v)
<1> SUFFICES ASSUME x.kind = "SystemChat"
             PROVE  \E id \in SmallIds, p \in Str :
                      /\ Encode(x, v) = RawPacket(id, p)
                      /\ \A b, m \in Str : b \o m = p /\ m # <<>> =>
                           ChatCut(Decode(x.kind, RawPacket(id, b), v), x.val, v)
  BY Zenon DEF CutChatSeen
<1> DEFINE y == x.val
           id == SystemChatId(v)
<1>1. x \in SystemChatPackets
  BY ChatKind, Zenon
<1>2. y \in [message : {s \in Str : Len(s) <= MaxU16}, overlay : Bools]
  BY <1>1, SMT DEF Of, SystemChatPackets
<1>3. Encode(x, v) = encode_system_chat(y, v)
  BY SMT DEF Encode
<1>4. ASSUME NEW b
      PROVE  Decode(x.kind, RawPacket(id, b), v) = decode_system_chat(RawPacket(id, b), v)
  BY SMT DEF Decode
<1> HIDE DEF y
<1>5. y.message \in Str /\ Len(y.message) <= MaxU16 /\ y.overlay \in Bools
  BY <1>2, SMT
<1>6. PICK p \in Str : /\ encode_system_chat(y, v) = RawPacket(id, p)
                       /\ v >= 766 => IsNewChat(y, p)
                       /\ v < 766 => IsOldChat(y, p)
  <2>1. CASE v >= 766
    <3>1. ~(v < 766)
      BY <2>1
    <3>2. QED
      BY <1>5, <2>1, <3>1, SystemChatNew, Zenon
  <2>2. CASE v < 766
    <3>1. ~(v >= 766) /\ Len(y.message) <= MaxInt32 - 11
      BY <1>5, <2>2 DEF MaxU16, MaxInt32, Str
    <3>2. QED
      BY <1>5, <2>2, <3>1, SystemChatOld, Zenon
  <2>3. QED
    BY <2>1, <2>2
<1>7. ASSUME NEW b \in Str, NEW m \in Str, b \o m = p, m # <<>>
      PROVE  ChatCut(Decode(x.kind, RawPacket(id, b), v), y, v)
  <2>1. ChatCut(decode_system_chat(RawPacket(id, b), v), y, v)
    BY <1>5, <1>6, <1>7, SystemChatCut, Zenon
  <2>2. QED
    BY <1>4, <2>1, Zenon
<1>8. Encode(x, v) = RawPacket(id, p) /\ id \in SmallIds
  BY <1>3, <1>6, SmallKnown
<1>9. QED
  BY <1>7, <1>8, Zenon DEF y

LEMMA EachUnderstood == ASSUME NEW x \in Packets, NEW v \in Int PROVE Understood(x, v)
<1>1. CASE x \in HandshakePackets
  BY <1>1, HandshakeUnderstood, Zenon
<1>2. CASE x \in LoginStartPackets
  BY <1>2, LoginStartUnderstood, Zenon
<1>3. CASE x \in EncryptionRequestPackets
  <2>1. v >= 766 \/ v < 766
    OBVIOUS
  <2>2. QED
    BY <1>3, <2>1, EncryptionRequestUnderstoodNew, EncryptionRequestUnderstoodOld, Zenon
<1>4. CASE x \in EncryptionResponsePackets
  BY <1>4, EncryptionResponseUnderstood, Zenon
<1>5. CASE x \in LoginSuccessPackets
  BY <1>5, LoginSuccessUnderstood, Zenon
<1>6. CASE x \in LoginAcknowledgedPackets
  BY <1>6, LoginAcknowledgedUnderstood, Zenon
<1>7. CASE x \in SetCompressionPackets
  BY <1>7, SetCompressionUnderstood, Zenon
<1>8. CASE x \in PluginRequestPackets
  BY <1>8, PluginRequestUnderstood, Zenon
<1>9. CASE x \in PluginResponsePackets
  BY <1>9, PluginResponseUnderstood, Zenon
<1>10. CASE x \in VelocityPackets
  BY <1>10, VelocityUnderstood, Zenon
<1>11. CASE x \in RegistryDataPackets
  BY <1>11, RegistryDataUnderstood, Zenon
<1>12. CASE x \in ChatCommandPackets
  BY <1>12, ChatCommandUnderstood, Zenon
<1>13. CASE x \in TabCompleteRequestPackets
  BY <1>13, TabCompleteRequestUnderstood, Zenon
<1>14. CASE x \in TabCompleteResponsePackets
  BY <1>14, TabCompleteResponseUnderstood, Zenon
<1>15. CASE x \in RespawnPackets
  <2>1. v >= 766 \/ v < 766
    OBVIOUS
  <2>2. QED
    BY <1>15, <2>1, RespawnUnderstoodNew, RespawnUnderstoodOld, Zenon
<1>16. CASE x \in SystemChatPackets
  BY <1>16, SystemChatUnderstood, Zenon
<1>17. CASE x \in CloseContainerPackets
  BY <1>17, CloseContainerUnderstood, Zenon
<1>18. CASE x \in StopSoundPackets
  BY <1>18, StopSoundUnderstood, Zenon
<1>19. CASE x \in BossBarPackets
  BY <1>19, BossBarUnderstood, Zenon
<1>20. CASE x \in ObjectivePackets
  BY <1>20, ObjectiveUnderstood, Zenon
<1>21. CASE x \in DisplayObjectivePackets
  BY <1>21, DisplayObjectiveUnderstood, Zenon
<1>22. QED
  BY <1>1, <1>2, <1>3, <1>4, <1>5, <1>6, <1>7, <1>8, <1>9, <1>10, <1>11, <1>12, <1>13, <1>14,
     <1>15, <1>16, <1>17, <1>18, <1>19, <1>20, <1>21, Zenon DEF Packets

(* A packet of any kind whose fields have the types the code gives them is read back as
   what it was, in any version, but for a whole LoginSuccess of 707 to 758.  When it stops
   short it is refused, or read as that but for fields that may be left out; or it is a
   chat message from 766 on, whose text is lost. *)
THEOREM PacketsUnderstood ==
  ASSUME NEW x \in Packets, NEW v \in Int
  PROVE  Understood(x, v) /\ CutChatSeen(x, v)
BY EachUnderstood, CutChatUnderstood, Zenon

-----------------------------------------------------------------------------
(* The command tree.  A node's parts are written one after the other, and read. *)
(* The parts of a node as they are written. *)
NodeStr(x, p1, p2, p3, p4, p5, p6, p7) ==
  /\ p1 = <<x.flags>> /\ p2 = Many(x.children, encode_varint)
  /\ p3 = PutIf(Bit(x.flags, 8), encode_varint(x.redirect))
  /\ p4 = PutIf(x.flags % 4 # 0, Text(x.name))
  /\ p5 = PutIf(x.flags % 4 = 2, encode_varint(x.parser))
  /\ p6 = PutIf(x.flags % 4 = 2, encode_varint(x.property))
  /\ p7 = PutIf(Bit(x.flags, 16), Text(x.suggestions))

NodeIs(x, p1, p2, p3, p4, p5, p6, p7) ==
  /\ p1 \in Str /\ p2 \in Str /\ p3 \in Str /\ p4 \in Str /\ p5 \in Str /\ p6 \in Str
  /\ p7 \in Str /\ WriteNode(x) = p1 \o p2 \o p3 \o p4 \o (p5 \o p6) \o p7
  /\ WriteNode(x) \in Str

(* What of a node its flags say is there. *)
Parts(x) ==
  /\ x.flags \in Bytes /\ x.children \in Seq(Int32) /\ Len(x.children) <= MaxInt32
  /\ Bit(x.flags, 8) => x.redirect \in Int32
  /\ ~Bit(x.flags, 8) => x.redirect = <<>>
  /\ x.flags % 4 # 0 => x.name \in Field
  /\ x.flags % 4 = 0 => x.name = <<>>
  /\ x.flags % 4 = 2 => x.parser \in Int32 /\ x.property \in Int32
  /\ x.flags % 4 # 2 => x.parser = <<>> /\ x.property = <<>>
  /\ Bit(x.flags, 16) => x.suggestions \in Field
  /\ ~Bit(x.flags, 16) => x.suggestions = <<>>

LEMMA ShortTextIs == \A s : ShortText(s) => s \in Field
<1>1. MaxPacketSize <= MaxInt32
  BY SMT DEF MaxPacketSize, MaxInt32
<1>2. ASSUME NEW s, ShortText(s) PROVE s \in Field
  <2>1. s \in Str /\ Len(s) <= MaxPacketSize
    BY <1>2, Zenon DEF ShortText, Str, Bytes
  <2>2. Len(s) \in Nat /\ MaxPacketSize \in Nat /\ MaxInt32 \in Nat
    BY <2>1, LenProperties, SMT DEF Str, MaxPacketSize, MaxInt32
  <2>3. Len(s) <= MaxInt32
    BY <1>1, <2>1, <2>2
  <2>4. QED
    BY <2>1, <2>3, Zenon DEF Field
<1>3. QED
  BY <1>2, Zenon

LEMMA IsNodeParts ==
  ASSUME NEW c \in Nat, c <= MaxPacketSize, NEW x, IsNode(x, c)
  PROVE  Parts(x)
<1>1. c <= MaxInt32 /\ MaxPacketSize <= MaxInt32 /\ MaxPacketSize \in Nat /\ MaxInt32 \in Nat
  BY SMT DEF MaxPacketSize, MaxInt32
<1>2. 0 .. c - 1 \subseteq Int32 /\ 0 .. MaxInt32 \subseteq Int32
  <2>1. ASSUME NEW n \in 0 .. MaxInt32 PROVE n \in Int32
    BY <1>1, SizeIs
  <2>2. 0 .. c - 1 \subseteq 0 .. MaxInt32
    BY <1>1
  <2>3. QED
    BY <2>1, <2>2, Zenon
<1>3. x.flags \in Bytes
  BY Zenon DEF IsNode, Bytes
<1>4. x.children \in Seq(Int32) /\ Len(x.children) <= MaxInt32
  <2>1. x.children \in Seq(0 .. c - 1) /\ Len(x.children) <= MaxPacketSize
    BY Zenon DEF IsNode
  <2> DEFINE xs == x.children
  <2>2. xs \in Seq(0 .. c - 1) /\ Len(xs) <= MaxPacketSize
    BY <2>1, Zenon
  <2> HIDE DEF xs
  <2>3. Len(xs) <= MaxInt32
    BY <1>1, <2>2
  <2>4. xs \in Seq(Int32)
    BY <1>2, <2>2
  <2>5. QED
    BY <2>3, <2>4, Zenon DEF xs
<1>5. /\ Bit(x.flags, 8) => x.redirect \in Int32
      /\ ~Bit(x.flags, 8) => x.redirect = <<>>
  BY <1>2, Zenon DEF IsNode
<1>6. /\ x.flags % 4 # 0 => x.name \in Field
      /\ x.flags % 4 = 0 => x.name = <<>>
  BY ShortTextIs, Zenon DEF IsNode
<1>7. /\ x.flags % 4 = 2 => x.parser \in Int32 /\ x.property \in Int32
      /\ x.flags % 4 # 2 => x.parser = <<>> /\ x.property = <<>>
  BY <1>2, Zenon DEF IsNode
<1>8. /\ Bit(x.flags, 16) => x.suggestions \in Field
      /\ ~Bit(x.flags, 16) => x.suggestions = <<>>
  BY ShortTextIs, Zenon DEF IsNode
<1>9. QED
  BY <1>3, <1>4, <1>5, <1>6, <1>7, <1>8, Zenon DEF Parts

LEMMA PutIfStr == ASSUME NEW c, NEW e, c => e \in Str PROVE PutIf(c, e) \in Str
BY Empty, Zenon DEF PutIf

LEMMA NodeShape ==
  ASSUME NEW x, Parts(x),
         NEW p1, NEW p2, NEW p3, NEW p4, NEW p5, NEW p6, NEW p7, NodeStr(x, p1, p2, p3, p4, p5, p6, p7)
  PROVE  NodeIs(x, p1, p2, p3, p4, p5, p6, p7)
<1>1. p1 \in Str
  BY OneByte, Zenon DEF NodeStr, Parts
<1>2. p2 \in Str
  BY VarIntsStr, Zenon DEF NodeStr, Parts
<1>3. p3 \in Str
  <2>1. Bit(x.flags, 8) => encode_varint(x.redirect) \in Str
    BY VarIntShape, Zenon DEF Parts
  <2>2. QED
    BY <2>1, PutIfStr, Zenon DEF NodeStr
<1>4. p4 \in Str
  <2>1. x.flags % 4 # 0 => Text(x.name) \in Str
    BY TextShape, Zenon DEF Parts
  <2>2. QED
    BY <2>1, PutIfStr, Zenon DEF NodeStr
<1>5. p5 \in Str /\ p6 \in Str
  <2>1. x.flags % 4 = 2 => encode_varint(x.parser) \in Str /\ encode_varint(x.property) \in Str
    BY VarIntShape, Zenon DEF Parts
  <2>2. QED
    BY <2>1, PutIfStr, Zenon DEF NodeStr
<1>6. p7 \in Str
  <2>1. Bit(x.flags, 16) => Text(x.suggestions) \in Str
    BY TextShape, Zenon DEF Parts
  <2>2. QED
    BY <2>1, PutIfStr, Zenon DEF NodeStr
<1> DEFINE q == p5 \o p6
<1>7. q = (IF x.flags % 4 = 2 THEN encode_varint(x.parser) \o encode_varint(x.property) ELSE <<>>)
  <2>1. CASE x.flags % 4 = 2
    BY <2>1, Zenon DEF NodeStr, PutIf
  <2>2. CASE x.flags % 4 # 2
    <3>1. p5 = <<>> /\ p6 = <<>>
      BY <2>2, Zenon DEF NodeStr, PutIf
    <3>2. <<>> \o <<>> = <<>>
      BY Empty, Zenon
    <3>3. QED
      BY <2>2, <3>1, <3>2, Zenon
  <2>3. QED
    BY <2>1, <2>2, Zenon
<1>8. q \in Str
  BY <1>5, Cat, Zenon
<1> HIDE DEF q
<1>9. WriteNode(x) = p1 \o p2 \o p3 \o p4 \o q \o p7
  BY <1>7, Zenon DEF NodeStr, PutIf, WriteNode
<1>10. Flat6(p1, p2, p3, p4, q, p7)
  BY <1>1, <1>2, <1>3, <1>4, <1>6, <1>8, FlatIs6, Zenon
<1>11. QED
  BY <1>1, <1>2, <1>3, <1>4, <1>5, <1>6, <1>9, <1>10, Zenon DEF Flat6, q, NodeIs

LEMMA NodeAt ==
  ASSUME NEW x, Parts(x), x = [flags |-> x.flags, children |-> x.children, redirect |-> x.redirect,
                               name |-> x.name, parser |-> x.parser, property |-> x.property,
                               suggestions |-> x.suggestions],
         NEW r, NEW u, NEW s \in Str, At(r, u, WriteNode(x) \o s, <<>>)
  PROVE  At(ReadNode(r), x, s, <<>>)
<1> DEFINE r1 == GetU8(r)
           r2 == GetMany(r1, MaxInt32, GetVarInt)
           c8 == r1.ok /\ Bit(r1.val, 8)
           cn == r1.ok /\ r1.val % 4 # 0
           cp == r1.ok /\ r1.val % 4 = 2
           cs == r1.ok /\ Bit(r1.val, 16)
           r3 == NextIf(c8, GetVarInt(r2), r2)
           r4 == NextIf(cn, GetText(r3), r3)
           r5 == NextIf(cp, GetVarInt(r4), r4)
           r6 == NextIf(cp, GetVarInt(r5), r5)
           r7 == NextIf(cs, GetText(r6), r6)
           y  == [flags |-> r1.val, children |-> r2.val, redirect |-> PartIf(c8, r3.val),
                  name |-> PartIf(cn, r4.val), parser |-> PartIf(cp, r5.val),
                  property |-> PartIf(cp, r6.val), suggestions |-> PartIf(cs, r7.val)]
           p1 == <<x.flags>>
           p2 == Many(x.children, encode_varint)
           p3 == PutIf(Bit(x.flags, 8), encode_varint(x.redirect))
           p4 == PutIf(x.flags % 4 # 0, Text(x.name))
           p5 == PutIf(x.flags % 4 = 2, encode_varint(x.parser))
           p6 == PutIf(x.flags % 4 = 2, encode_varint(x.property))
           p7 == PutIf(Bit(x.flags, 16), Text(x.suggestions))
           q  == p5 \o p6
           s6 == p7 \o s
           s5 == p6 \o s6
           s4 == p5 \o s5
           s3 == p4 \o s4
           s2 == p3 \o s3
           s1 == p2 \o s2
<1>1. ReadNode(r) = With(r7, y)
  BY Zenon DEF ReadNode, GetIf, NextIf, PartIf
<1>2. NodeStr(x, p1, p2, p3, p4, p5, p6, p7)
  BY Zenon DEF NodeStr
<1> HIDE DEF p1, p2, p3, p4, p5, p6, p7
<1>2a. NodeIs(x, p1, p2, p3, p4, p5, p6, p7)
  BY <1>2, NodeShape, Zenon
<1>3. /\ p1 \in Str /\ p2 \in Str /\ p3 \in Str /\ p4 \in Str /\ p5 \in Str /\ p6 \in Str
      /\ p7 \in Str /\ WriteNode(x) = p1 \o p2 \o p3 \o p4 \o (p5 \o p6) \o p7
  BY <1>2a, Zenon DEF NodeIs
<1>4. q \in Str
  BY <1>3, Cat, Zenon
<1>5. s6 \in Str
  BY <1>3, Cat, Zenon
<1>6. s5 \in Str
  BY <1>3, <1>5, Cat, Zenon
<1>7. s4 \in Str
  BY <1>3, <1>6, Cat, Zenon
<1>8. s3 \in Str
  BY <1>3, <1>7, Cat, Zenon
<1>9. s2 \in Str
  BY <1>3, <1>8, Cat, Zenon
<1>10. s1 \in Str
  BY <1>3, <1>9, Cat, Zenon
<1>11. At(r, u, p1 \o s1, <<>>)
  <2>1. Flat7(p1, p2, p3, p4, q, p7, s)
    BY <1>3, <1>4, FlatIs7, Zenon
  <2>2. s \o <<>> = s
    BY Empty, Zenon
  <2>3. WriteNode(x) \o s = p1 \o (p2 \o (p3 \o (p4 \o (q \o (p7 \o s)))))
    BY <1>3, <2>1, <2>2, Zenon DEF Flat7
  <2>4. AssocIs(p5, p6, s6)
    BY <1>3, <1>5, Assoc, Zenon
  <2>5. q \o (p7 \o s) = s4
    BY <2>4, Zenon DEF AssocIs
  <2> HIDE DEF q, s4
  <2>6. WriteNode(x) \o s = p1 \o s1
    BY <2>3, <2>5, Zenon
  <2>7. QED
    BY <2>6, Zenon
<1> HIDE DEF s1, s2, s3, s4, s5, s6, q
<1>12. At(r1, x.flags, s1, <<>>)
  <2>1. x.flags \in Bytes
    BY Zenon DEF Parts
  <2>2. At(r, u, <<x.flags>> \o s1, <<>>)
    BY <1>11, Zenon DEF p1
  <2>3. QED
    BY <1>10, <2>1, <2>2, Empty, U8At, Zenon
<1> HIDE DEF r1
<1>13. r1.ok /\ r1.val = x.flags
  BY <1>10, <1>12, AtWhole, Zenon
<1>14. At(r2, x.children, s2, <<>>)
  <2>1. At(r1, x.flags, Many(x.children, encode_varint) \o s2, <<>>)
    BY <1>12, Zenon DEF p2, s1
  <2>2. QED
    BY <1>9, <2>1, VarIntsAt, Zenon DEF Parts
<1> HIDE DEF r2
<1>15. r2.val = x.children
  BY <1>9, <1>14, AtWhole, Zenon
<1>16. /\ c8 <=> Bit(x.flags, 8)
       /\ cn <=> x.flags % 4 # 0
       /\ cp <=> x.flags % 4 = 2
       /\ cs <=> Bit(x.flags, 16)
  BY <1>13, Zenon
<1>17. /\ p3 = PutIf(c8, encode_varint(x.redirect)) /\ p4 = PutIf(cn, Text(x.name))
       /\ p5 = PutIf(cp, encode_varint(x.parser)) /\ p6 = PutIf(cp, encode_varint(x.property))
       /\ p7 = PutIf(cs, Text(x.suggestions))
  <2> HIDE DEF c8, cn, cp, cs
  <2>1. QED
    BY <1>16, Zenon DEF p3, p4, p5, p6, p7, PutIf
<1>18. /\ Optional(c8, x.redirect, Int32) /\ Optional(cn, x.name, Field)
       /\ Optional(cp, x.parser, Int32) /\ Optional(cp, x.property, Int32)
       /\ Optional(cs, x.suggestions, Field)
  <2> HIDE DEF c8, cn, cp, cs
  <2>1. QED
    BY <1>16, Zenon DEF Parts, Optional
<1> HIDE DEF c8, cn, cp, cs
<1>19. TakenIf(c8, x.redirect, r3, s3)
  <2>1. Passed(r2, PutIf(c8, encode_varint(x.redirect)) \o s3, <<>>)
    BY <1>14, <1>17, Zenon DEF Passed, s2
  <2>2. QED
    BY <1>8, <1>18, <2>1, NumberIfAt, Zenon
<1> HIDE DEF r3
<1>20. TakenIf(cn, x.name, r4, s4)
  <2>1. Passed(r3, PutIf(cn, Text(x.name)) \o s4, <<>>)
    BY <1>17, <1>19, Zenon DEF TakenIf, s3
  <2>2. QED
    BY <1>7, <1>18, <2>1, TextIfAt, Zenon
<1> HIDE DEF r4
<1>21. TakenIf(cp, x.parser, r5, s5)
  <2>1. Passed(r4, PutIf(cp, encode_varint(x.parser)) \o s5, <<>>)
    BY <1>17, <1>20, Zenon DEF TakenIf, s4
  <2>2. QED
    BY <1>6, <1>18, <2>1, NumberIfAt, Zenon
<1> HIDE DEF r5
<1>22. TakenIf(cp, x.property, r6, s6)
  <2>1. Passed(r5, PutIf(cp, encode_varint(x.property)) \o s6, <<>>)
    BY <1>17, <1>21, Zenon DEF TakenIf, s5
  <2>2. QED
    BY <1>5, <1>18, <2>1, NumberIfAt, Zenon
<1> HIDE DEF r6
<1>23. TakenIf(cs, x.suggestions, r7, s)
  <2>1. Passed(r6, PutIf(cs, Text(x.suggestions)) \o s, <<>>)
    BY <1>17, <1>22, Zenon DEF TakenIf, s6
  <2>2. QED
    BY <1>18, <2>1, TextIfAt, Zenon
<1> HIDE DEF r7
<1>24. y = x
  BY <1>13, <1>15, <1>19, <1>20, <1>21, <1>22, <1>23, Zenon DEF TakenIf
<1> HIDE DEF y
<1>25. PICK z : At(r7, z, s, <<>>)
  BY <1>23, Zenon DEF Passed, TakenIf
<1>26. At(With(r7, y), x, s, <<>>)
  BY <1>24, <1>25, AtEnd, Zenon
<1>27. QED
  BY <1>1, <1>26, Zenon

AddNode(l) == IF l.ok THEN With(ReadNode(l), Append(l.val, ReadNode(l).val)) ELSE Failed

(* A node that can be read back. *)
Plain(x) ==
  /\ Parts(x)
  /\ x = [flags |-> x.flags, children |-> x.children, redirect |-> x.redirect, name |-> x.name,
          parser |-> x.parser, property |-> x.property, suggestions |-> x.suggestions]

LEMMA NodeStep ==
  ASSUME NEW a, NEW l, NEW x, Plain(x), NEW s \in Str, At(a, l, WriteNode(x) \o s, <<>>)
  PROVE  AddNode(a) = Got(Append(l, x), s)
<1> DEFINE g == ReadNode(a)
<1>1. At(g, x, s, <<>>)
  BY NodeAt, Zenon DEF Plain
<1> HIDE DEF g
<1>2. g = Got(x, s) /\ g.val = x
  BY <1>1, AtWhole, Zenon
<1>3. a.val = l /\ a.ok
  <2>1. a # Failed
    BY AtFailed, Zenon
  <2>2. QED
    BY <2>1, AtVal, Zenon
<1>4. With(g, Append(a.val, g.val)) = Got(Append(l, x), s)
  BY <1>2, <1>3, WithParts, Zenon
<1>5. QED
  BY <1>3, <1>4, Zenon DEF AddNode, g
LEMMA NodesLoop ==
  ASSUME NEW xs, xs \in Seq(ToSet(xs)), \A i \in DOMAIN xs : Plain(xs[i]), NEW N \in Nat, N = Len(xs), N <= MaxInt32,
         NEW R, \A i \in 0 .. N : R[i] \in Str,
         \A i \in 1 .. N : R[i - 1] = WriteNode(xs[i]) \o R[i],
         NEW r, NEW u, At(r, u, encode_varint(N) \o R[0], <<>>)
  PROVE  At(GetMany(r, MaxInt32, ReadNode), xs, R[N], <<>>)
<1> DEFINE n     == GetVarInt(r)
           Is(g) == g = [i \in 0 .. n.val |-> IF i = 0 THEN With(n, <<>>) ELSE AddNode(g[i - 1])]
           after == CHOOSE g : Is(g)
           h     == [i \in 0 .. N |-> Got(SubSeq(xs, 1, i), R[i])]
<1>1. N \in Int32 /\ 0 \in 0 .. N /\ N \in 0 .. N /\ N \in 0 .. MaxInt32
  <2>1. N \in Int32 /\ N \in 0 .. MaxInt32
    BY SizeIs, Zenon
  <2>2. 0 \in 0 .. N /\ N \in 0 .. N
    OBVIOUS
  <2>3. QED
    BY <2>1, <2>2, Zenon
<1>2. At(n, N, R[0], <<>>)
  <2>1. R[0] \in Str
    BY <1>1, Zenon
  <2>2. QED
    BY <1>1, <2>1, Empty, VarIntAt, Zenon
<1>3. GetMany(r, MaxInt32, ReadNode)
        = IF n.ok /\ n.val \in 0 .. MaxInt32 THEN after[n.val] ELSE Failed
  BY Zenon DEF GetMany, AddNode
<1> HIDE DEF n
<1>4. n = Got(N, R[0]) /\ n.ok /\ n.val = N
  <2>1. R[0] \in Str
    BY <1>1, Zenon
  <2>2. QED
    BY <1>2, <2>1, AtWhole, Zenon
<1>5. GetMany(r, MaxInt32, ReadNode) = after[N]
  BY <1>1, <1>3, <1>4, Zenon
<1>6. ASSUME NEW i \in 1 .. N
      PROVE  AddNode(Got(SubSeq(xs, 1, i - 1), R[i - 1])) = Got(SubSeq(xs, 1, i), R[i])
  <2> DEFINE l == SubSeq(xs, 1, i - 1)
             a == Got(l, R[i - 1])
  <2>1. i \in 0 .. N /\ i - 1 \in 0 .. N
    OBVIOUS
  <2>2. R[i] \in Str /\ R[i - 1] \in Str /\ R[i - 1] = WriteNode(xs[i]) \o R[i]
    BY <2>1, Zenon
  <2>3. Append(l, xs[i]) = SubSeq(xs, 1, i) /\ Plain(xs[i])
    <3>1. Append(SubSeq(xs, 1, i - 1), xs[i]) = SubSeq(xs, 1, i)
      BY FrontGrows, Zenon
    <3>2. i \in DOMAIN xs
      OBVIOUS
    <3>3. QED
      BY <3>1, <3>2, Zenon
  <2> HIDE DEF l
  <2>4. At(a, l, R[i - 1], <<>>)
    BY <2>2, Empty, Zenon DEF At
  <2> HIDE DEF a
  <2>5. At(a, l, WriteNode(xs[i]) \o R[i], <<>>)
    BY <2>2, <2>4, Zenon
  <2>6. AddNode(a) = Got(Append(l, xs[i]), R[i])
    BY <2>2, <2>3, <2>5, NodeStep, Zenon
  <2>7. QED
    BY <2>3, <2>6, Zenon DEF a, l
<1>7. h[0] = With(n, <<>>)
  <2>1. SubSeq(xs, 1, 0) = <<>>
    OBVIOUS
  <2>2. With(Got(N, R[0]), <<>>) = Got(<<>>, R[0])
    BY WithParts, Zenon
  <2>3. h[0] = Got(SubSeq(xs, 1, 0), R[0])
    BY <1>1, Zenon
  <2>4. QED
    BY <1>4, <2>1, <2>2, <2>3, Zenon
<1>8. \A i \in 1 .. N : h[i] = AddNode(h[i - 1])
  <2> TAKE i \in 1 .. N
  <2>1. i \in 0 .. N /\ i - 1 \in 0 .. N
    OBVIOUS
  <2>2. h[i] = Got(SubSeq(xs, 1, i), R[i]) /\ h[i - 1] = Got(SubSeq(xs, 1, i - 1), R[i - 1])
    BY <2>1, Zenon
  <2>3. QED
    BY <1>6, <2>2, Zenon
<1>9. h = [i \in 0 .. N |-> h[i]] /\ h[N] = Got(SubSeq(xs, 1, N), R[N])
  BY <1>1
<1> HIDE DEF h
<1>10. Is(h)
  <2>1. ASSUME NEW i \in 0 .. N
        PROVE  h[i] = IF i = 0 THEN With(n, <<>>) ELSE AddNode(h[i - 1])
    <3>1. CASE i = 0
      BY <1>7, <3>1, Zenon
    <3>2. CASE i # 0
      <4>1. i \in 1 .. N
        BY <3>2
      <4>2. QED
        BY <1>8, <3>2, <4>1, Zenon
    <3>3. QED
      BY <3>1, <3>2, Zenon
  <2>2. h = [i \in 0 .. N |-> IF i = 0 THEN With(n, <<>>) ELSE AddNode(h[i - 1])]
    BY <1>9, <2>1
  <2>3. QED
    BY <1>4, <2>2, Zenon
<1>11. Is(after)
  BY <1>10, Zenon
<1> HIDE DEF after
<1>12. after[0] = With(n, <<>>) /\ \A i \in 1 .. N : after[i] = AddNode(after[i - 1])
  BY <1>1, <1>4, <1>11
<1> DEFINE C == {i \in 0 .. N : after[i] = h[i]}
<1>13. 0 \in C
  BY <1>1, <1>7, <1>12, Zenon
<1>14. \A i \in 1 .. N : i - 1 \in C => i \in C
  <2> TAKE i \in 1 .. N
  <2>1. i \in 0 .. N
    OBVIOUS
  <2>2. after[i - 1] = h[i - 1] => after[i] = h[i]
    BY <1>8, <1>12, Zenon
  <2>3. QED
    BY <2>1, <2>2, Zenon
<1> HIDE DEF C
<1>15. N \in C
  BY <1>1, <1>13, <1>14, UpTo, Zenon
<1>16. after[N] = h[N]
  BY <1>15, Zenon DEF C
<1>17. SubSeq(xs, 1, N) = xs
  OBVIOUS
<1>18. GetMany(r, MaxInt32, ReadNode) = Got(xs, R[N])
  BY <1>5, <1>9, <1>16, <1>17, Zenon
<1>19. R[N] \in Str
  BY <1>1, Zenon
<1>20. QED
  BY <1>18, <1>19, Empty, Zenon DEF At

-----------------------------------------------------------------------------
(* The commands that are added: their names are not long, not /server, and not twice. *)
LEMMA LeastIn == ASSUME NEW n \in Nat, NEW S, S \subseteq 1 .. n, S # {} PROVE Min(S) \in S
<1>1. S \subseteq Nat
  OBVIOUS
<1>2. \E x \in S : \A y \in S : x <= y
  BY <1>1, LeastElement, Zenon
<1>3. QED
  BY <1>2, Zenon DEF Min

LEMMA GreatestIn == ASSUME NEW n \in Nat, NEW S, S \subseteq 1 .. n, S # {} PROVE Max(S) \in S
<1> DEFINE T == {k \in 0 .. n : n - k \in S}
<1>1. T \subseteq Nat
  OBVIOUS
<1>2. T # {}
  <2>1. PICK x \in S : TRUE
    OBVIOUS
  <2>2. n - x \in T
    BY <2>1
  <2>3. QED
    BY <2>2
<1>3. PICK k \in T : \A j \in T : k <= j
  <2> HIDE DEF T
  <2>1. QED
    BY <1>1, <1>2, LeastElement, Zenon
<1>4. n - k \in S
  BY <1>3
<1>5. \A y \in S : n - k >= y
  <2> TAKE y \in S
  <2>1. n - y \in T /\ y \in 1 .. n
    OBVIOUS
  <2>2. k <= n - y
    BY <1>3, <2>1, Zenon
  <2>3. k \in 0 .. n
    BY <1>3
  <2>4. QED
    BY <2>1, <2>2, <2>3
<1>6. \E x \in S : \A y \in S : x >= y
  BY <1>4, <1>5, Zenon
<1>7. QED
  BY <1>6, Zenon DEF Max

LEMMA TrimLowerField == ASSUME NEW s, ShortText(s) PROVE TrimLower(s) \in Field
<1> DEFINE kept == {i \in DOMAIN s : s[i] # 32}
           word == IF kept = {} THEN <<>> ELSE SubSeq(s, Min(kept), Max(kept))
           t    == [i \in DOMAIN word |-> IF word[i] \in 65 .. 90 THEN word[i] + 32 ELSE word[i]]
           n    == Len(s)
<1>1. s \in Seq(Bytes) /\ s \in Field /\ n \in Nat /\ DOMAIN s = 1 .. n /\ kept \subseteq 1 .. n
  <2>1. s \in Field
    BY ShortTextIs, Zenon
  <2>2. s \in Seq(Bytes)
    BY <2>1, Zenon DEF Field, Str
  <2>3. QED
    BY <2>1, <2>2
<1>2. word \in Seq(Bytes) /\ Len(word) <= n
  <2>1. CASE kept = {}
    <3>1. word = <<>>
      BY <2>1
    <3>2. <<>> \in Seq(Bytes) /\ Len(<<>>) = 0
      OBVIOUS
    <3> HIDE DEF word
    <3>3. QED
      BY <1>1, <3>1, <3>2
  <2>2. CASE kept # {}
    <3> DEFINE a == Min(kept)
               b == Max(kept)
    <3>1. a \in 1 .. n /\ b \in 1 .. n
      <4>1. a \in kept /\ b \in kept
        <5> HIDE DEF kept
        <5>1. QED
          BY <1>1, <2>2, LeastIn, GreatestIn, Zenon
      <4> HIDE DEF kept
      <4>2. QED
        BY <1>1, <4>1, Zenon
    <3>2. word = SubSeq(s, a, b)
      BY <2>2, Zenon
    <3> HIDE DEF word, a, b, kept
    <3>3. SubSeq(s, a, b) \in Seq(Bytes) /\ Len(SubSeq(s, a, b)) <= n
      <4>1. \A i \in a .. b : s[i] \in Bytes
        BY <1>1, <3>1
      <4>2. /\ SubSeq(s, a, b) \in Seq(Bytes)
            /\ Len(SubSeq(s, a, b)) = IF a <= b THEN b - a + 1 ELSE 0
        BY <1>1, <3>1, <4>1, SubSeqProperties
      <4>3. QED
        BY <1>1, <3>1, <4>2
    <3>4. QED
      BY <3>2, <3>3, Zenon
  <2>3. QED
    BY <2>1, <2>2, Zenon
<1>3. TrimLower(s) = t
  BY Zenon DEF TrimLower
<1> HIDE DEF word
<1>4. t \in Seq(Bytes) /\ Len(t) = Len(word)
  <2>1. \A i \in DOMAIN word : word[i] \in Bytes
    BY <1>2
  <2>2. \A i \in DOMAIN word : (IF word[i] \in 65 .. 90 THEN word[i] + 32 ELSE word[i]) \in Bytes
    BY <2>1 DEF Bytes
  <2>3. DOMAIN word = 1 .. Len(word) /\ Len(word) \in Nat
    BY <1>2
  <2>4. t \in [1 .. Len(word) -> Bytes] /\ DOMAIN t = 1 .. Len(word)
    BY <2>2, <2>3
  <2> HIDE DEF t
  <2>5. QED
    BY <2>3, <2>4
<1> HIDE DEF t
<1>5. Len(t) <= MaxInt32
  <2>1. n <= MaxInt32
    BY <1>1, Zenon DEF Field
  <2>2. Len(word) \in Nat /\ MaxInt32 \in Nat
    BY <1>2, MaxLists
  <2>3. QED
    BY <1>1, <1>2, <1>4, <2>1, <2>2
<1>6. QED
  BY <1>3, <1>4, <1>5, Zenon DEF Field, Str

AddLiteral(known, name) ==
  IF name \in {<<>>, Word.server} \cup ToSet(known) THEN known ELSE Append(known, name)

(* At most n names, none of them twice or /server. *)
Literals(l, n) ==
  /\ l \in Seq(Field) /\ Len(l) <= n
  /\ \A j \in 1 .. Len(l) : l[j] # Word.server
  /\ \A j, k \in 1 .. Len(l) : l[j] = l[k] => j = k

LEMMA LiteralStep ==
  ASSUME NEW l, NEW n \in Nat, Literals(l, n), NEW w \in Field
  PROVE  Literals(AddLiteral(l, w), n + 1)
<1>1. /\ l \in Seq(Field) /\ Len(l) \in Nat /\ Len(l) <= n
      /\ \A j \in 1 .. Len(l) : l[j] # Word.server
      /\ \A j, k \in 1 .. Len(l) : l[j] = l[k] => j = k
  BY DEF Literals
<1>2. CASE w \in {<<>>, Word.server} \cup ToSet(l)
  <2>1. AddLiteral(l, w) = l
    BY <1>2, Zenon DEF AddLiteral
  <2>2. Len(l) <= n + 1
    BY <1>1
  <2>3. QED
    BY <1>1, <2>1, <2>2, Zenon DEF Literals
<1>3. CASE w \notin {<<>>, Word.server} \cup ToSet(l)
  <2> DEFINE m == Append(l, w)
  <2>1. AddLiteral(l, w) = m
    BY <1>3, Zenon DEF AddLiteral
  <2>2. /\ m \in Seq(Field) /\ Len(m) = Len(l) + 1 /\ m[Len(l) + 1] = w
        /\ \A j \in 1 .. Len(l) : m[j] = l[j]
    BY <1>1
  <2>3. w # Word.server /\ \A j \in 1 .. Len(l) : l[j] # w
    <3>1. DOMAIN l = 1 .. Len(l)
      BY <1>1
    <3>2. QED
      BY <1>3, <3>1, Zenon DEF ToSet
  <2> HIDE DEF m
  <2>4. ASSUME NEW j \in 1 .. Len(m) PROVE j \in 1 .. Len(l) \/ j = Len(l) + 1
    BY <1>1, <2>2
  <2>5. \A j \in 1 .. Len(m) : m[j] # Word.server
    BY <1>1, <2>2, <2>3, <2>4, Zenon
  <2>6. ASSUME NEW j \in 1 .. Len(m), NEW k \in 1 .. Len(m), m[j] = m[k] PROVE j = k
    <3>1. CASE j \in 1 .. Len(l) /\ k \in 1 .. Len(l)
      BY <1>1, <2>2, <2>6, <3>1, Zenon
    <3>2. CASE j \in 1 .. Len(l) /\ k = Len(l) + 1
      BY <2>2, <2>3, <2>6, <3>2, Zenon
    <3>3. CASE j = Len(l) + 1 /\ k \in 1 .. Len(l)
      BY <2>2, <2>3, <2>6, <3>3, Zenon
    <3>4. CASE j = Len(l) + 1 /\ k = Len(l) + 1
      BY <3>4, Zenon
    <3>5. QED
      BY <2>4, <3>1, <3>2, <3>3, <3>4, Zenon
  <2>7. Len(m) <= n + 1
    BY <1>1, <2>2
  <2>8. Literals(m, n + 1)
    BY <2>2, <2>5, <2>6, <2>7, Zenon DEF Literals
  <2>9. QED
    BY <2>1, <2>8, Zenon
<1>4. QED
  BY <1>2, <1>3, Zenon

LiteralsUpTo(z, servers, N) ==
  \E g : g = [i \in 0 .. N |-> IF i = 0 THEN z ELSE AddLiteral(g[i - 1], TrimLower(servers[i]))]

LEMMA LiteralsLoop ==
  ASSUME NEW z, NEW servers, NEW N \in Nat
  PROVE  LiteralsUpTo(z, servers, N)
<1> DEFINE Is(g, n) == g = [i \in 0 .. n |-> IF i = 0 THEN z
                                            ELSE AddLiteral(g[i - 1], TrimLower(servers[i]))]
           S        == {n \in 0 .. N : \E g : Is(g, n)}
<1>1. 0 \in S
  <2> DEFINE g == [i \in 0 .. 0 |-> z]
  <2>1. Is(g, 0)
    OBVIOUS
  <2>2. 0 \in 0 .. N
    OBVIOUS
  <2> HIDE DEF g
  <2>3. QED
    BY <2>1, <2>2, Zenon
<1>2. ASSUME NEW n \in 1 .. N, n - 1 \in S PROVE n \in S
  <2>1. PICK g : Is(g, n - 1)
    BY <1>2, Zenon
  <2> DEFINE h == [i \in 0 .. n |-> IF i <= n - 1 THEN g[i]
                                    ELSE AddLiteral(g[n - 1], TrimLower(servers[n]))]
  <2>2. ASSUME NEW i \in 0 .. n
        PROVE  h[i] = IF i = 0 THEN z ELSE AddLiteral(h[i - 1], TrimLower(servers[i]))
    <3>1. CASE i <= n - 1 /\ i # 0
      <4>1. h[i] = g[i] /\ h[i - 1] = g[i - 1]
        BY <3>1
      <4>2. g[i] = AddLiteral(g[i - 1], TrimLower(servers[i]))
        BY <2>1, <3>1
      <4>3. QED
        BY <3>1, <4>1, <4>2
    <3>2. CASE i = 0
      <4>1. h[i] = g[i]
        BY <3>2
      <4>2. g[i] = z
        BY <2>1, <3>2
      <4>3. QED
        BY <3>2, <4>1, <4>2
    <3>3. CASE i = n
      <4>1. h[i] = AddLiteral(g[n - 1], TrimLower(servers[n])) /\ h[i - 1] = g[n - 1]
        BY <3>3
      <4>2. QED
        BY <3>3, <4>1
    <3>4. QED
      BY <3>1, <3>2, <3>3
  <2>3. h = [i \in 0 .. n |-> h[i]]
    OBVIOUS
  <2> HIDE DEF h
  <2>4. Is(h, n)
    BY <2>2, <2>3
  <2>5. n \in 0 .. N
    OBVIOUS
  <2>6. QED
    BY <2>4, <2>5, Zenon
<1> HIDE DEF S
<1>3. N \in S
  BY <1>1, <1>2, UpTo
<1>4. QED
  BY <1>3, Zenon DEF S, LiteralsUpTo

(* What a node needs of the commands' names. *)
LEMMA LiteralsAre == Literals(RootLiterals(CustomServers), MaxPacketSize + 3)
<1> DEFINE N     == Len(CustomServers)
           z     == <<Word.hub, Word.lobby, Word.steel>>
           Is(g) == g = [i \in 0 .. N |-> IF i = 0 THEN z
                                          ELSE AddLiteral(g[i - 1], TrimLower(CustomServers[i]))]
           after == CHOOSE g : Is(g)
<1>1. /\ N \in Nat /\ N <= MaxPacketSize /\ DOMAIN CustomServers = 1 .. N
      /\ \A i \in 1 .. N : TrimLower(CustomServers[i]) \in Field
  <2>1. CustomServers \in Seq(ToSet(CustomServers)) /\ N <= MaxPacketSize
    BY CustomServersAssumption, Zenon
  <2>2. N \in Nat /\ DOMAIN CustomServers = 1 .. N
    BY <2>1
  <2>3. \A i \in DOMAIN CustomServers : TrimLower(CustomServers[i]) \in Field
    BY CustomServersAssumption, TrimLowerField, Zenon
  <2>4. QED
    BY <2>1, <2>2, <2>3, Zenon
<1>2. RootLiterals(CustomServers) = after[N]
  BY Zenon DEF RootLiterals, AddLiteral
<1>3. Is(after)
  <2>1. \E g : Is(g)
    <3>1. N \in Nat
      BY <1>1, Zenon
    <3>2. LiteralsUpTo(z, CustomServers, N)
      BY <3>1, LiteralsLoop, Zenon
    <3>3. QED
      BY <3>2, Zenon DEF LiteralsUpTo
  <2>2. QED
    BY <2>1, Zenon
<1> HIDE DEF after
<1>4. /\ after[0] = z
      /\ \A i \in 1 .. N : after[i] = AddLiteral(after[i - 1], TrimLower(CustomServers[i]))
  <2> HIDE DEF N, z
  <2>1. QED
    BY <1>1, <1>3
<1>5. Literals(z, 3)
  <2>1. Word.hub \in Field /\ Word.lobby \in Field /\ Word.steel \in Field
    BY WordsKnown, Zenon
  <2>2. /\ Word.hub # Word.server /\ Word.lobby # Word.server /\ Word.steel # Word.server
        /\ Word.hub # Word.lobby /\ Word.hub # Word.steel /\ Word.lobby # Word.steel
    BY WordAssumption
  <2> DEFINE a == Word.hub
             b == Word.lobby
             c == Word.steel
             d == Word.server
             F == Field
  <2>3. a \in F /\ b \in F /\ c \in F /\ a # d /\ b # d /\ c # d /\ a # b /\ a # c /\ b # c
    BY <2>1, <2>2, Zenon
  <2> HIDE DEF a, b, c, d, F
  <2>4. /\ <<a, b, c>> \in Seq(F) /\ Len(<<a, b, c>>) = 3
        /\ \A j \in 1 .. 3 : <<a, b, c>>[j] # d
        /\ \A j, k \in 1 .. 3 : <<a, b, c>>[j] = <<a, b, c>>[k] => j = k
    BY <2>3
  <2>5. z \in Seq(Field) /\ Len(z) = 3 /\ (\A j \in 1 .. 3 : z[j] # Word.server)
        /\ \A j, k \in 1 .. 3 : z[j] = z[k] => j = k
    BY <2>4, Zenon DEF a, b, c, d, F
  <2> HIDE DEF z
  <2>6. QED
    BY <2>5 DEF Literals
<1> HIDE DEF z
<1> DEFINE C == {i \in 0 .. N : Literals(after[i], i + 3)}
<1>6. 0 \in C
  <2>1. 0 \in 0 .. N /\ 0 + 3 = 3
    BY <1>1
  <2>2. QED
    BY <1>4, <1>5, <2>1
<1>7. ASSUME NEW i \in 1 .. N, i - 1 \in C PROVE i \in C
  <2> DEFINE l == after[i - 1]
             w == TrimLower(CustomServers[i])
  <2>1. Literals(l, (i - 1) + 3)
    BY <1>7, Zenon
  <2>2. w \in Field /\ after[i] = AddLiteral(l, w)
    BY <1>1, <1>4, Zenon
  <2>3. (i - 1) + 3 \in Nat /\ ((i - 1) + 3) + 1 = i + 3 /\ i \in 0 .. N
    BY <1>1
  <2> HIDE DEF l, w
  <2>4. Literals(AddLiteral(l, w), ((i - 1) + 3) + 1)
    BY <2>1, <2>2, <2>3, LiteralStep, Zenon
  <2>5. QED
    BY <2>2, <2>3, <2>4, Zenon
<1> HIDE DEF C
<1>8. N \in C
  <2> HIDE DEF N
  <2>1. \A i \in 0 .. N : i \in C
    BY <1>1, <1>6, <1>7, UpTo, Zenon
  <2>2. N \in 0 .. N
    BY <1>1
  <2>3. QED
    BY <2>1, <2>2, Zenon
<1> DEFINE l == RootLiterals(CustomServers)
<1>9. Literals(l, N + 3)
  BY <1>2, <1>8, Zenon DEF C
<1> HIDE DEF l, N
<1>10. l \in Seq(Field) /\ Len(l) <= N + 3
  BY <1>9, Zenon DEF Literals
<1>11. Len(l) <= MaxPacketSize + 3
  BY <1>1, <1>10 DEF MaxPacketSize
<1>12. QED
  BY <1>9, <1>11, Zenon DEF Literals, l

-----------------------------------------------------------------------------
(* The nodes that inject_proxy_commands_into_declare_commands writes. *)
ServerNode(count) ==
  [flags |-> 5, children |-> <<count + 1>>, redirect |-> <<>>, name |-> Word.server,
   parser |-> <<>>, property |-> <<>>, suggestions |-> <<>>]
ArgumentNode ==
  [flags |-> 22, children |-> <<>>, redirect |-> <<>>, name |-> Word.name, parser |-> 5,
   property |-> 0, suggestions |-> Word.ask_server]
LiteralNode(name) ==
  [flags |-> 5, children |-> <<>>, redirect |-> <<>>, name |-> name, parser |-> <<>>,
   property |-> <<>>, suggestions |-> <<>>]
RootNode(children) ==
  [flags |-> 0, children |-> children, redirect |-> <<>>, name |-> <<>>, parser |-> <<>>,
   property |-> <<>>, suggestions |-> <<>>]

(* The flags in use. *)
LEMMA FlagsKnown ==
  /\ ~Bit(5, 8) /\ ~Bit(5, 16) /\ 5 % 4 = 1
  /\ ~Bit(22, 8) /\ Bit(22, 16) /\ 22 % 4 = 2
  /\ ~Bit(0, 8) /\ ~Bit(0, 16) /\ 0 % 4 = 0
  /\ 0 \in Bytes /\ 5 \in Bytes /\ 22 \in Bytes
  /\ 0 \in Int32 /\ 1 \in Int32 /\ 5 \in Int32
  /\ 0 # 5 /\ 0 # 22 /\ 5 # 22 /\ 1 # 0 /\ 2 # 0 /\ 1 # 2 /\ 0 # 2
<1>1. /\ ~Bit(5, 8) /\ ~Bit(5, 16) /\ 5 % 4 = 1
      /\ ~Bit(22, 8) /\ Bit(22, 16) /\ 22 % 4 = 2
      /\ ~Bit(0, 8) /\ ~Bit(0, 16) /\ 0 % 4 = 0
  BY SMT DEF Bit
<1>2. 0 \in Bytes /\ 5 \in Bytes /\ 22 \in Bytes
  BY SMT DEF Bytes
<1>3. 0 \in Int32 /\ 1 \in Int32 /\ 5 \in Int32
  BY SMT DEF Int32
<1>4. QED
  BY <1>1, <1>2, <1>3

LEMMA AskServerKnown == Word.ask_server \in Field
<1>1. Word.ask_server \in Str /\ Len(Word.ask_server) \in 1 .. 32
  BY WordAssumption, Zenon DEF Str, Bytes
<1> DEFINE k == Len(Word.ask_server)
<1>2. k \in 1 .. 32
  BY <1>1, Zenon
<1> HIDE DEF k
<1>3. k <= MaxInt32
  BY <1>2, SMT DEF MaxInt32
<1>4. QED
  BY <1>1, <1>3, Zenon DEF Field, k

LEMMA RootWritten ==
  ASSUME NEW x, x.flags = 0, x.children \in Seq(Int32), Len(x.children) <= MaxInt32
  PROVE  WriteNode(x) = <<0>> \o Many(x.children, encode_varint)
<1> DEFINE a == <<0>>
           b == Many(x.children, encode_varint)
           e == <<>>
<1>1. WriteNode(x) = a \o b \o e \o e \o e \o e
  BY FlagsKnown, Zenon DEF WriteNode
<1>2. a \in Str /\ b \in Str
  BY FlagsKnown, OneByte, VarIntsStr, Zenon
<1>3. a \o b \in Str
  BY <1>2, Cat, Zenon
<1> HIDE DEF a, b
<1>4. \A s \in Str : s \o e = s
  BY Empty, Zenon
<1> HIDE DEF e
<1>5. a \o b \o e \o e \o e \o e = a \o b
  BY <1>3, <1>4, Zenon
<1>6. QED
  BY <1>1, <1>5, Zenon DEF a, b

LEMMA LiteralWritten ==
  ASSUME NEW x, x.flags = 5, x.children \in Seq(Int32), Len(x.children) <= MaxInt32,
         x.name \in Field
  PROVE  WriteNode(x) = <<5>> \o Many(x.children, encode_varint) \o Text(x.name)
<1> DEFINE a == <<5>>
           b == Many(x.children, encode_varint)
           c == Text(x.name)
           e == <<>>
<1>1. WriteNode(x) = a \o b \o e \o c \o e \o e
  BY FlagsKnown, Zenon DEF WriteNode
<1>2. a \in Str /\ b \in Str /\ c \in Str
  BY FlagsKnown, OneByte, VarIntsStr, TextShape, Zenon
<1>3. a \o b \in Str
  BY <1>2, Cat, Zenon
<1> HIDE DEF a, b, c
<1>4. a \o b \o c \in Str
  BY <1>2, <1>3, Cat, Zenon
<1>5. \A s \in Str : s \o e = s
  BY Empty, Zenon
<1> HIDE DEF e
<1>6. a \o b \o e \o c \o e \o e = a \o b \o c
  BY <1>3, <1>4, <1>5, Zenon
<1>7. QED
  BY <1>1, <1>6, Zenon DEF a, b, c

LEMMA ArgumentWritten ==
  WriteNode(ArgumentNode)
    = <<22>> \o Many(<<>>, encode_varint) \o Text(Word.name) \o (encode_varint(5) \o encode_varint(0))
        \o Text(Word.ask_server)
<1> DEFINE x == ArgumentNode
           a == <<22>>
           b == Many(<<>>, encode_varint)
           c == Text(Word.name)
           d == encode_varint(5) \o encode_varint(0)
           g == Text(Word.ask_server)
           e == <<>>
<1>0. /\ x.flags = 22 /\ x.children = <<>> /\ x.name = Word.name /\ x.parser = 5
      /\ x.property = 0 /\ x.suggestions = Word.ask_server
  BY SMT DEF ArgumentNode
<1> HIDE DEF x
<1>1. WriteNode(x) = a \o b \o e \o c \o d \o g
  BY <1>0, FlagsKnown, Zenon DEF WriteNode
<1>2. a \in Str /\ b \in Str
  <2>1. <<>> \in Seq(Int32) /\ Len(<<>>) <= MaxInt32
    BY SMT DEF MaxInt32
  <2>2. QED
    BY <2>1, FlagsKnown, OneByte, VarIntsStr, Zenon
<1>3. a \o b \in Str
  BY <1>2, Cat, Zenon
<1> HIDE DEF a, b
<1>4. a \o b \o e = a \o b
  BY <1>3, Empty, Zenon
<1>5. QED
  BY <1>1, <1>4, Zenon DEF a, b, x

(* The lists of no and of one number. *)
LEMMA NoNumbers == Many(<<>>, encode_varint) = encode_varint(0)
<1> DEFINE ss == [i \in DOMAIN <<>> |-> encode_varint(<<>>[i])]
<1>1. ss = <<>> /\ Len(<<>>) = 0
  OBVIOUS
<1>2. FlattenSeq(<<>>) = <<>>
  BY DEF FlattenSeq
<1>3. Many(<<>>, encode_varint) = encode_varint(Len(<<>>)) \o FlattenSeq(ss)
  BY Zenon DEF Many
<1>4. encode_varint(0) \in Str
  BY FlagsKnown, VarIntShape, Zenon
<1> HIDE DEF ss
<1>5. QED
  BY <1>1, <1>2, <1>3, <1>4, Empty, Zenon

LEMMA OneNumber ==
  ASSUME NEW n \in Int32 PROVE Many(<<n>>, encode_varint) = encode_varint(1) \o encode_varint(n)
<1> DEFINE ss == [i \in DOMAIN <<n>> |-> encode_varint(<<n>>[i])]
<1>1. Len(<<n>>) = 1 /\ Len(ss) = 1 /\ ss[1] = encode_varint(n)
  OBVIOUS
<1>2. Many(<<n>>, encode_varint) = encode_varint(Len(<<n>>)) \o FlattenSeq(ss)
  BY Zenon DEF Many
<1> HIDE DEF ss
<1>3. FlattenSeq(ss) = ss[1]
  <2>1. 1 \in Nat /\ 1 # 0
    OBVIOUS
  <2>2. PICK g : FlattenSeq(ss) = g[1] /\ g[1] = ss[1]
    BY <1>1, <2>1, FlattenIs
  <2>3. QED
    BY <2>2, Zenon
<1>4. QED
  BY <1>1, <1>2, <1>3, Zenon

LEMMA ZeroByte == encode_varint(0) = <<0>>
<1> DEFINE e == encode_varint(0)
           k == LastGroup(0)
<1>1. \A i \in 1 .. 5 : Group(0, i) = 0
  <2>1. /\ Group(0, 1) = 0 % 128 /\ Group(0, 2) = (0 \div 128) % 128
        /\ Group(0, 3) = (0 \div 16384) % 128 /\ Group(0, 4) = (0 \div 2097152) % 128
        /\ Group(0, 5) = (0 \div 268435456) % 16
    BY Groups, SMT
  <2>2. Group(0, 1) = 0 /\ Group(0, 2) = 0 /\ Group(0, 3) = 0 /\ Group(0, 4) = 0 /\ Group(0, 5) = 0
    BY <2>1, SMT
  <2>3. \A i \in 1 .. 5 : i = 1 \/ i = 2 \/ i = 3 \/ i = 4 \/ i = 5
    OBVIOUS
  <2>4. QED
    BY <2>2, <2>3, Zenon
<1>2. k \in 1 .. 5 /\ (k = 1 \/ Group(0, k) # 0)
  BY LastShape, Zenon
<1>3. k = 1
  BY <1>1, <1>2, Zenon
<1>4. /\ e \in Seq(Bytes) /\ Len(e) = k
      /\ \A i \in 1 .. k : e[i] = Group(0, i) + (IF i < k THEN 128 ELSE 0)
  BY FlagsKnown, EncodeShape, Zenon
<1> HIDE DEF e, k
<1>5. Len(e) = 1 /\ e[1] = 0 /\ e \in Seq(Bytes)
  <2>1. 1 \in 1 .. k /\ ~(1 < k) /\ Group(0, 1) = 0
    BY <1>1, <1>3
  <2>2. e[1] = 0
    BY <1>4, <2>1
  <2>3. QED
    BY <1>3, <1>4, <2>2, Zenon
<1>6. e = <<0>>
  BY <1>5
<1>7. QED
  BY <1>6, Zenon DEF e

(* Nodes that can be read back, and how they are written. *)
LEMMA ServerKnown ==
  ASSUME NEW n \in Nat, n + 1 \in Int32
  PROVE  /\ Plain(ServerNode(n)) /\ WriteNode(ServerNode(n)) \in Str
         /\ WriteNode(ServerNode(n))
              = <<5>> \o encode_varint(1) \o encode_varint(n + 1) \o Text(Word.server)
<1> DEFINE x == ServerNode(n)
           k == n + 1
<1>1. /\ x.flags = 5 /\ x.children = <<k>> /\ x.redirect = <<>> /\ x.name = Word.server
      /\ x.parser = <<>> /\ x.property = <<>> /\ x.suggestions = <<>>
  BY SMT DEF ServerNode
<1>2. x = [flags |-> x.flags, children |-> x.children, redirect |-> x.redirect, name |-> x.name,
           parser |-> x.parser, property |-> x.property, suggestions |-> x.suggestions]
  BY SMT DEF ServerNode
<1>3. k \in Int32 /\ Word.server \in Field
  BY WordsKnown, Zenon
<1> HIDE DEF x, k
<1>4. <<k>> \in Seq(Int32) /\ Len(<<k>>) <= MaxInt32
  BY <1>3, SMT DEF MaxInt32
<1>5. Parts(x)
  BY <1>1, <1>3, <1>4, FlagsKnown, Zenon DEF Parts
<1> DEFINE a == <<5>>
           b == encode_varint(1)
           c == encode_varint(k)
           d == Text(Word.server)
<1>6. WriteNode(x) = a \o (b \o c) \o d
  BY <1>1, <1>3, <1>4, LiteralWritten, OneNumber, Zenon
<1>7. a \in Str /\ b \in Str /\ c \in Str /\ d \in Str
  BY <1>3, FlagsKnown, OneByte, VarIntShape, TextShape, Zenon
<1> HIDE DEF a, b, c, d
<1>8. AssocIs(a, b, c)
  BY <1>7, Assoc, Zenon
<1>9. a \o b \in Str
  BY <1>7, Cat, Zenon
<1>10. a \o b \o c \in Str
  BY <1>7, <1>9, Cat, Zenon
<1>11. a \o b \o c \o d \in Str
  BY <1>7, <1>10, Cat, Zenon
<1>12. WriteNode(x) = a \o b \o c \o d
  BY <1>6, <1>8, Zenon DEF AssocIs
<1>13. Plain(x)
  BY <1>2, <1>5, Zenon DEF Plain
<1>14. QED
  BY <1>11, <1>12, <1>13, Zenon DEF a, b, c, d, x, k

LEMMA ArgumentKnown ==
  /\ Plain(ArgumentNode) /\ WriteNode(ArgumentNode) \in Str
  /\ WriteNode(ArgumentNode)
       = <<22>> \o encode_varint(0) \o Text(Word.name) \o encode_varint(5) \o encode_varint(0)
           \o Text(Word.ask_server)
<1> DEFINE x == ArgumentNode
<1>1. /\ x.flags = 22 /\ x.children = <<>> /\ x.redirect = <<>> /\ x.name = Word.name
      /\ x.parser = 5 /\ x.property = 0 /\ x.suggestions = Word.ask_server
  BY SMT DEF ArgumentNode
<1>2. x = [flags |-> x.flags, children |-> x.children, redirect |-> x.redirect, name |-> x.name,
           parser |-> x.parser, property |-> x.property, suggestions |-> x.suggestions]
  BY SMT DEF ArgumentNode
<1>3. Word.name \in Field /\ Word.ask_server \in Field
  BY WordsKnown, AskServerKnown, Zenon
<1> HIDE DEF x
<1>4. <<>> \in Seq(Int32) /\ Len(<<>>) <= MaxInt32
  BY SMT DEF MaxInt32
<1>5. Parts(x)
  BY <1>1, <1>3, <1>4, FlagsKnown, Zenon DEF Parts
<1> DEFINE a == <<22>>
           b == encode_varint(0)
           c == Text(Word.name)
           d == encode_varint(5)
           g == Text(Word.ask_server)
<1>6. WriteNode(x) = a \o b \o c \o (d \o b) \o g
  BY ArgumentWritten, NoNumbers, Zenon DEF x
<1>7. a \in Str /\ b \in Str /\ c \in Str /\ d \in Str /\ g \in Str
  BY <1>3, FlagsKnown, OneByte, VarIntShape, TextShape, Zenon
<1> HIDE DEF a, b, c, d, g
<1>8. a \o b \in Str
  BY <1>7, Cat, Zenon
<1>9. a \o b \o c \in Str
  BY <1>7, <1>8, Cat, Zenon
<1>10. AssocIs(a \o b \o c, d, b)
  BY <1>7, <1>9, Assoc, Zenon
<1>11. WriteNode(x) = a \o b \o c \o d \o b \o g
  BY <1>6, <1>10, Zenon DEF AssocIs
<1>12. d \o b \in Str
  BY <1>7, Cat, Zenon
<1>13. a \o b \o c \o (d \o b) \in Str
  BY <1>9, <1>12, Cat, Zenon
<1>14. WriteNode(x) \in Str
  BY <1>6, <1>7, <1>13, Cat, Zenon
<1>15. Plain(x)
  BY <1>2, <1>5, Zenon DEF Plain
<1>16. QED
  BY <1>11, <1>14, <1>15, Zenon DEF a, b, c, d, g, x

LEMMA LiteralKnown ==
  ASSUME NEW w \in Field
  PROVE  /\ Plain(LiteralNode(w)) /\ WriteNode(LiteralNode(w)) \in Str
         /\ WriteNode(LiteralNode(w)) = <<5>> \o encode_varint(0) \o Text(w)
<1> DEFINE x == LiteralNode(w)
<1>1. /\ x.flags = 5 /\ x.children = <<>> /\ x.redirect = <<>> /\ x.name = w
      /\ x.parser = <<>> /\ x.property = <<>> /\ x.suggestions = <<>>
  BY SMT DEF LiteralNode
<1>2. x = [flags |-> x.flags, children |-> x.children, redirect |-> x.redirect, name |-> x.name,
           parser |-> x.parser, property |-> x.property, suggestions |-> x.suggestions]
  BY SMT DEF LiteralNode
<1> HIDE DEF x
<1>4. <<>> \in Seq(Int32) /\ Len(<<>>) <= MaxInt32
  BY SMT DEF MaxInt32
<1>5. Parts(x)
  BY <1>1, <1>4, FlagsKnown, Zenon DEF Parts
<1> DEFINE a == <<5>>
           b == encode_varint(0)
           c == Text(w)
<1>6. WriteNode(x) = a \o b \o c
  BY <1>1, <1>4, LiteralWritten, NoNumbers, Zenon
<1>7. a \in Str /\ b \in Str /\ c \in Str
  BY FlagsKnown, OneByte, VarIntShape, TextShape, Zenon
<1> HIDE DEF a, b, c
<1>8. a \o b \in Str
  BY <1>7, Cat, Zenon
<1>9. a \o b \o c \in Str
  BY <1>7, <1>8, Cat, Zenon
<1>10. Plain(x)
  BY <1>2, <1>5, Zenon DEF Plain
<1>11. QED
  BY <1>6, <1>9, <1>10, Zenon DEF a, b, c, x

LEMMA RootKnown ==
  ASSUME NEW children \in Seq(Int32), Len(children) <= MaxInt32
  PROVE  /\ Plain(RootNode(children)) /\ WriteNode(RootNode(children)) \in Str
         /\ WriteNode(RootNode(children)) = <<0>> \o Many(children, encode_varint)
<1> DEFINE x == RootNode(children)
<1>1. /\ x.flags = 0 /\ x.children = children /\ x.redirect = <<>> /\ x.name = <<>>
      /\ x.parser = <<>> /\ x.property = <<>> /\ x.suggestions = <<>>
  BY SMT DEF RootNode
<1>2. x = [flags |-> x.flags, children |-> x.children, redirect |-> x.redirect, name |-> x.name,
           parser |-> x.parser, property |-> x.property, suggestions |-> x.suggestions]
  BY SMT DEF RootNode
<1> HIDE DEF x
<1>5. Parts(x)
  BY <1>1, FlagsKnown, Zenon DEF Parts
<1>6. WriteNode(x) = <<0>> \o Many(children, encode_varint)
  BY <1>1, RootWritten, Zenon
<1>7. <<0>> \in Str /\ Many(children, encode_varint) \in Str
  BY FlagsKnown, OneByte, VarIntsStr, Zenon
<1>8. <<0>> \o Many(children, encode_varint) \in Str
  BY <1>7, Cat, Zenon
<1>9. Plain(x)
  BY <1>2, <1>5, Zenon DEF Plain
<1>10. QED
  BY <1>6, <1>8, <1>9, Zenon DEF x

(* The commands as they are written, after /server and its argument. *)
LiteralStrs(literals) ==
  [i \in DOMAIN literals |-> <<5>> \o encode_varint(0) \o Text(literals[i])]

LEMMA ProxyNodesAre ==
  ASSUME NEW n \in Nat, n + 1 \in Int32, NEW literals, FlattenSeq(LiteralStrs(literals)) \in Str
  PROVE  /\ ProxyNodes(n, literals) \in Str
         /\ ProxyNodes(n, literals) = WriteNode(ServerNode(n)) \o
              (WriteNode(ArgumentNode) \o FlattenSeq(LiteralStrs(literals)))
<1> DEFINE k   == n + 1
           p1  == <<5>>
           p2  == encode_varint(1)
           p3  == encode_varint(k)
           p4  == Text(Word.server)
           p5  == <<22>>
           p6  == encode_varint(0)
           p7  == Text(Word.name)
           p8  == encode_varint(5)
           p10 == Text(Word.ask_server)
           p11 == FlattenSeq(LiteralStrs(literals))
           a   == p1 \o p2 \o p3 \o p4
           b   == p5 \o p6 \o p7 \o p8 \o p6 \o p10
           z   == b \o p11
           y   == p5 \o (p6 \o (p7 \o (p8 \o (p6 \o (p10 \o (p11 \o <<>>))))))
<1>1. ProxyNodes(n, literals)
        = p1 \o p2 \o p3 \o p4 \o p5 \o p6 \o p7 \o p8 \o p6 \o p10 \o p11
  BY Zenon DEF ProxyNodes, LiteralStrs
<1>2. WriteNode(ServerNode(n)) = a
  BY ServerKnown, Zenon
<1>3. WriteNode(ArgumentNode) = b
  BY ArgumentKnown, Zenon
<1>4. k \in Int32
  OBVIOUS
<1>5. /\ p1 \in Str /\ p2 \in Str /\ p3 \in Str /\ p4 \in Str /\ p5 \in Str /\ p6 \in Str
      /\ p7 \in Str /\ p8 \in Str /\ p10 \in Str /\ p11 \in Str
  <2> HIDE DEF k, p11
  <2>1. p1 \in Str /\ p5 \in Str
    BY FlagsKnown, OneByte, Zenon
  <2>2. p2 \in Str /\ p3 \in Str /\ p6 \in Str /\ p8 \in Str
    BY <1>4, FlagsKnown, VarIntShape, Zenon
  <2>3. p4 \in Str /\ p7 \in Str /\ p10 \in Str
    BY WordsKnown, AskServerKnown, TextShape, Zenon
  <2>4. p11 \in Str
    BY Zenon DEF p11
  <2>5. QED
    BY <2>1, <2>2, <2>3, <2>4, Zenon
<1> HIDE DEF p1, p2, p3, p4, p5, p6, p7, p8, p10, p11
<1>6. Flat11(p1, p2, p3, p4, p5, p6, p7, p8, p6, p10, p11)
  BY <1>5, FlatIs11, Zenon
<1>7. Flat7(p5, p6, p7, p8, p6, p10, p11)
  BY <1>5, FlatIs7, Zenon
<1>8. z = y /\ z \in Str
  BY <1>7, Zenon DEF Flat7
<1> HIDE DEF z
<1>9. Flat5(p1, p2, p3, p4, z)
  BY <1>5, <1>8, FlatIs5, Zenon
<1>10. z \o <<>> = z
  BY <1>8, Empty, Zenon
<1>11. a \o z = p1 \o (p2 \o (p3 \o (p4 \o z))) /\ a \o z \in Str
  BY <1>9, <1>10, Zenon DEF Flat5
<1>12. ProxyNodes(n, literals) = p1 \o (p2 \o (p3 \o (p4 \o y)))
  BY <1>1, <1>6, Zenon DEF Flat11
<1> HIDE DEF a, y
<1>13. ProxyNodes(n, literals) = a \o z /\ a \o z \in Str
  BY <1>8, <1>11, <1>12, Zenon
<1>14. QED
  BY <1>2, <1>3, <1>13, Zenon DEF z, p11

(* What is left of a tree's nodes after each of them. *)
TreeLeft(Q, nodes) ==
  /\ Many(nodes, WriteNode) = encode_varint(Len(nodes)) \o Q[0] /\ Q[Len(nodes)] = <<>>
  /\ \A i \in 0 .. Len(nodes) : Q[i] \in Str
  /\ \A i \in 1 .. Len(nodes) : Q[i - 1] = WriteNode(nodes[i]) \o Q[i]

LEMMA PlainStr == ASSUME NEW x, Plain(x) PROVE WriteNode(x) \in Str
<1> DEFINE p1 == <<x.flags>>
           p2 == Many(x.children, encode_varint)
           p3 == PutIf(Bit(x.flags, 8), encode_varint(x.redirect))
           p4 == PutIf(x.flags % 4 # 0, Text(x.name))
           p5 == PutIf(x.flags % 4 = 2, encode_varint(x.parser))
           p6 == PutIf(x.flags % 4 = 2, encode_varint(x.property))
           p7 == PutIf(Bit(x.flags, 16), Text(x.suggestions))
<1>1. NodeStr(x, p1, p2, p3, p4, p5, p6, p7)
  BY Zenon DEF NodeStr
<1> HIDE DEF p1, p2, p3, p4, p5, p6, p7
<1>2. NodeIs(x, p1, p2, p3, p4, p5, p6, p7)
  BY <1>1, NodeShape, Zenon DEF Plain
<1>3. QED
  BY <1>2, Zenon DEF NodeIs

LEMMA TreePeels ==
  ASSUME NEW nodes, nodes \in Seq(ToSet(nodes)), Len(nodes) <= MaxInt32,
         \A i \in DOMAIN nodes : Plain(nodes[i])
  PROVE  Many(nodes, WriteNode) \in Str /\ \E Q : TreeLeft(Q, nodes)
<1> DEFINE N  == Len(nodes)
           ss == [i \in DOMAIN nodes |-> WriteNode(nodes[i])]
           F  == FlattenSeq(ss)
           e  == encode_varint(N)
<1>1. N \in Nat /\ DOMAIN nodes = 1 .. N
  OBVIOUS
<1>2. /\ Len(ss) = N /\ (N = 0 => ss = <<>>)
      /\ \A i \in 1 .. N : ss[i] = WriteNode(nodes[i])
  BY <1>1
<1>3. \A i \in 1 .. N : WriteNode(nodes[i]) \in Str
  BY <1>1, PlainStr, Zenon
<1>4. \A i \in 1 .. N : ss[i] \in Str
  BY <1>2, <1>3, Zenon
<1>5. Many(nodes, WriteNode) = e \o F
  BY Zenon DEF Many
<1>6. e \in Str
  BY <1>1, SizeIs, VarIntShape, Zenon
<1> HIDE DEF ss
<1>7. F \in Str /\ \E Q : Peels(Q, ss, <<>>, N)
  BY <1>1, <1>2, <1>4, Empty, FlattenPeels, Zenon
<1>8. PICK Q : Peels(Q, ss, <<>>, N)
  BY <1>7, Zenon
<1>9. /\ Q[0] = F \o <<>> /\ Q[N] = <<>> /\ \A i \in 0 .. N : Q[i] \in Str
      /\ \A i \in 1 .. N : Q[i - 1] = ss[i] \o Q[i]
  BY <1>8, Zenon DEF Peels
<1> HIDE DEF F, e
<1>10. Q[0] = F
  BY <1>7, <1>9, Empty, Zenon
<1>11. \A i \in 1 .. N : Q[i - 1] = WriteNode(nodes[i]) \o Q[i]
  BY <1>2, <1>9, Zenon
<1>12. TreeLeft(Q, nodes)
  BY <1>5, <1>9, <1>10, <1>11, Zenon DEF TreeLeft, e
<1>13. e \o F \in Str
  BY <1>6, <1>7, Cat, Zenon
<1>14. QED
  BY <1>5, <1>12, <1>13, Zenon

(* The trees of the backends. *)
LEMMA TreesTyped ==
  ASSUME NEW t \in Trees
  PROVE  /\ t.nodes \in Seq(ToSet(t.nodes)) /\ Len(t.nodes) \in Nat /\ Len(t.nodes) <= MaxPacketSize
         /\ Len(t.nodes) <= MaxInt32 /\ Len(t.nodes) >= 1 /\ DOMAIN t.nodes = 1 .. Len(t.nodes)
         /\ t.root \in 0 .. Len(t.nodes) - 1 /\ t.root \in Int32
         /\ \A i \in DOMAIN t.nodes : Plain(t.nodes[i]) /\ IsNode(t.nodes[i], Len(t.nodes))
         /\ t.nodes[1].flags = 0 => t.root = 0
<1> DEFINE nodes == t.nodes
           root  == t.root
           N     == Len(nodes)
<1>1. /\ nodes \in Seq(ToSet(nodes)) /\ N <= MaxPacketSize /\ root \in 0 .. N - 1
      /\ \A i \in DOMAIN nodes :
           IsNode(nodes[i], N) /\ (nodes[i].flags % 4 = 0 <=> i = root + 1)
  BY TreesAssumption, Zenon
<1> HIDE DEF nodes, root
<1>2. N \in Nat /\ DOMAIN nodes = 1 .. N
  BY <1>1
<1>3. MaxPacketSize \in Nat /\ MaxInt32 \in Nat /\ MaxPacketSize <= MaxInt32
  BY SMT DEF MaxPacketSize, MaxInt32
<1> HIDE DEF N
<1>4. N <= MaxInt32 /\ N >= 1 /\ root \in Nat /\ root <= MaxInt32
  BY <1>1, <1>2, <1>3
<1>5. root \in Int32
  BY <1>4, SizeIs, Zenon
<1>6. \A i \in DOMAIN nodes : Plain(nodes[i])
  <2> TAKE i \in DOMAIN nodes
  <2> DEFINE x == nodes[i]
  <2>1. IsNode(x, N)
    BY <1>1, Zenon
  <2> HIDE DEF x
  <2>2. Parts(x)
    BY <1>1, <1>2, <2>1, IsNodeParts, Zenon
  <2>3. x = [flags |-> x.flags, children |-> x.children, redirect |-> x.redirect, name |-> x.name,
           parser |-> x.parser, property |-> x.property, suggestions |-> x.suggestions]
    BY <2>1, Zenon DEF IsNode
  <2>4. QED
    BY <2>2, <2>3, Zenon DEF Plain, x
<1>7. nodes[1].flags = 0 => root = 0
  <2>1. 1 \in DOMAIN nodes
    BY <1>2, <1>4
  <2>2. nodes[1].flags % 4 = 0 => 1 = root + 1
    BY <1>1, <2>1, Zenon
  <2>3. nodes[1].flags = 0 => nodes[1].flags % 4 = 0
    BY FlagsKnown, Zenon
  <2>4. 1 = root + 1 => root = 0
    BY <1>4
  <2>5. QED
    BY <2>2, <2>3, <2>4, Zenon
<1>8. QED
  BY <1>1, <1>2, <1>4, <1>5, <1>6, <1>7, Zenon DEF nodes, root, N

TreeBytes(t) == Many(t.nodes, WriteNode) \o encode_varint(t.root)

LEMMA TreeWritten == ASSUME NEW t \in Trees PROVE TreeBytes(t) \in Str
<1>1. Many(t.nodes, WriteNode) \in Str
  BY TreesTyped, TreePeels, Zenon
<1>2. encode_varint(t.root) \in Str
  BY TreesTyped, VarIntShape, Zenon
<1>3. QED
  BY <1>1, <1>2, Cat, Zenon DEF TreeBytes

(* What the injection reads first: how many nodes there are, and the first one's flags. *)
HeadRead(t, Q, count, flags) ==
  /\ count = Got(Len(t.nodes), Q[0] \o encode_varint(t.root))
  /\ Q[0] = WriteNode(t.nodes[1]) \o Q[1] /\ Q[0] \in Str /\ Q[1] \in Str
  /\ flags.ok /\ flags.val = t.nodes[1].flags

LEMMA TreeHead ==
  ASSUME NEW t \in Trees, NEW Q, TreeLeft(Q, t.nodes)
  PROVE  LET count == GetVarInt(Start(TreeBytes(t)))
         IN HeadRead(t, Q, count, GetU8(count))
<1> DEFINE count == GetVarInt(Start(TreeBytes(t)))
           flags == GetU8(count)
           x     == t.nodes[1]
           e     == encode_varint(t.root)
           n     == encode_varint(Len(t.nodes))
           s     == Q[0] \o e
<1>1. e \in Str /\ n \in Str /\ Len(t.nodes) \in Int32
  <2>1. Len(t.nodes) \in Int32
    BY TreesTyped, SizeIs, Zenon
  <2>2. QED
    BY <2>1, TreesTyped, VarIntShape, Zenon
<1>2. Len(t.nodes) \in Nat /\ Len(t.nodes) >= 1 /\ Plain(x)
  <2>1. Len(t.nodes) \in Nat /\ Len(t.nodes) >= 1 /\ DOMAIN t.nodes = 1 .. Len(t.nodes)
    BY TreesTyped, Zenon
  <2>2. 1 \in DOMAIN t.nodes
    BY <2>1
  <2>3. QED
    BY <2>1, <2>2, TreesTyped, Zenon
<1>3. Q[0] \in Str /\ Q[1] \in Str /\ Q[0] = WriteNode(x) \o Q[1]
  <2> DEFINE k == Len(t.nodes)
  <2>1. /\ \A i \in 0 .. k : Q[i] \in Str
        /\ \A i \in 1 .. k : Q[i - 1] = WriteNode(t.nodes[i]) \o Q[i]
    BY Zenon DEF TreeLeft
  <2>2. k \in Nat /\ k >= 1
    BY <1>2, Zenon
  <2> HIDE DEF k
  <2>3. 0 \in 0 .. k /\ 1 \in 0 .. k /\ 1 \in 1 .. k /\ 1 - 1 = 0
    BY <2>2
  <2>4. Q[1 - 1] = WriteNode(t.nodes[1]) \o Q[1]
    BY <2>1, <2>3, Zenon
  <2>5. QED
    BY <2>1, <2>3, <2>4, Zenon
<1>4. s \in Str
  BY <1>1, <1>3, Cat, Zenon
<1>5. TreeBytes(t) = n \o s
  <2>1. TreeBytes(t) = (n \o Q[0]) \o e
    BY Zenon DEF TreeBytes, TreeLeft
  <2> HIDE DEF n, e
  <2>2. AssocIs(n, Q[0], e)
    BY <1>1, <1>3, Assoc, Zenon
  <2>3. QED
    BY <2>1, <2>2, Zenon DEF AssocIs
<1> HIDE DEF s
<1>6. n \o s \in Str
  BY <1>1, <1>4, Cat, Zenon
<1>7. At(Start(TreeBytes(t)), <<>>, n \o s, <<>>)
  BY <1>5, <1>6, StartAt, Zenon
<1>8. At(count, Len(t.nodes), s, <<>>)
  BY <1>1, <1>4, <1>7, Empty, VarIntAt, Zenon
<1> HIDE DEF count
<1>9. count = Got(Len(t.nodes), s)
  BY <1>4, <1>8, AtWhole, Zenon
<1>10. flags.ok /\ flags.val = x.flags
  <2> DEFINE f  == x.flags
             p1 == <<f>>
             p2 == Many(x.children, encode_varint)
             p3 == PutIf(Bit(x.flags, 8), encode_varint(x.redirect))
             p4 == PutIf(x.flags % 4 # 0, Text(x.name))
             p5 == PutIf(x.flags % 4 = 2, encode_varint(x.parser))
             p6 == PutIf(x.flags % 4 = 2, encode_varint(x.property))
             p7 == PutIf(Bit(x.flags, 16), Text(x.suggestions))
             q  == p5 \o p6
             T  == p2 \o (p3 \o (p4 \o (q \o (p7 \o <<>>))))
             U  == Q[1] \o e
  <2>1. NodeStr(x, p1, p2, p3, p4, p5, p6, p7)
    BY Zenon DEF NodeStr
  <2>2. f \in Bytes
    BY <1>2, Zenon DEF Plain, Parts
  <2> HIDE DEF p1, p2, p3, p4, p5, p6, p7, x
  <2>3. NodeIs(x, p1, p2, p3, p4, p5, p6, p7)
    BY <1>2, <2>1, NodeShape, Zenon DEF Plain
  <2>4. p1 \in Str /\ p2 \in Str /\ p3 \in Str /\ p4 \in Str /\ p5 \in Str /\ p6 \in Str /\ p7 \in Str
        /\ WriteNode(x) = p1 \o p2 \o p3 \o p4 \o q \o p7
    BY <2>3, Zenon DEF NodeIs
  <2>5. q \in Str
    BY <2>4, Cat, Zenon
  <2> HIDE DEF q
  <2>6. Flat6(p1, p2, p3, p4, q, p7)
    BY <2>4, <2>5, FlatIs6, Zenon
  <2>7. WriteNode(x) = p1 \o T /\ T \in Str
    BY <2>4, <2>6, Zenon DEF Flat6
  <2>8. U \in Str
    BY <1>1, <1>3, Cat, Zenon
  <2> HIDE DEF T, e
  <2>9. T \o U \in Str
    BY <2>7, <2>8, Cat, Zenon
  <2>10. s = p1 \o (T \o U)
    <3>1. AssocIs(WriteNode(x), Q[1], e)
      <4>1. WriteNode(x) \in Str
        BY <1>2, PlainStr, Zenon
      <4>2. QED
        BY <1>1, <1>3, <4>1, Assoc, Zenon
    <3>2. s = WriteNode(x) \o U
      BY <1>3, <3>1, Zenon DEF AssocIs, s, x
    <3> HIDE DEF U
    <3>3. AssocIs(p1, T, U)
      BY <2>4, <2>7, <2>8, Assoc, Zenon
    <3>4. QED
      BY <2>7, <3>2, <3>3, Zenon DEF AssocIs
  <2> HIDE DEF U, f
  <2>11. At(count, Len(t.nodes), <<f>> \o (T \o U), <<>>)
    BY <1>8, <2>10, Zenon DEF p1
  <2>12. At(flags, f, T \o U, <<>>)
    BY <2>2, <2>9, <2>11, Empty, U8At, Zenon
  <2> HIDE DEF flags
  <2>13. flags.ok /\ flags.val = f
    BY <2>9, <2>12, AtWhole, Zenon
  <2>14. QED
    BY <2>13, Zenon DEF f, x
<1>11. QED
  BY <1>3, <1>9, <1>10, Zenon DEF HeadRead, s, count

(* A tree that does not begin with its root is passed on as it is. *)
LEMMA TreeKept ==
  ASSUME NEW t \in Trees, NEW id, NEW v, t.nodes[1].flags # 0
  PROVE  inject_proxy_commands_into_declare_commands(RawPacket(id, TreeBytes(t)), v, CustomServers)
           = RawPacket(id, TreeBytes(t))
<1> DEFINE raw   == RawPacket(id, TreeBytes(t))
           count == GetVarInt(Start(raw.payload))
           flags == GetU8(count)
<1>1. raw.payload = TreeBytes(t)
  BY RawParts, Zenon
<1>2. PICK Q : TreeLeft(Q, t.nodes)
  BY TreesTyped, TreePeels, Zenon
<1>3. HeadRead(t, Q, count, flags)
  BY <1>1, <1>2, TreeHead, Zenon
<1>4. flags.val # 0
  BY <1>3, Zenon DEF HeadRead
<1>5. count.val <= 0 \/ flags.val # 0
  BY <1>4, Zenon
<1> HIDE DEF raw
<1>6. inject_proxy_commands_into_declare_commands(raw, v, CustomServers) = raw
  BY <1>5, Zenon DEF inject_proxy_commands_into_declare_commands
<1>7. QED
  BY <1>6, Zenon DEF raw

LEMMA GotAt == ASSUME NEW x, NEW s \in Str PROVE At(Got(x, s), x, s, <<>>)
BY Empty, Zenon DEF At

(* The root of the other trees is the node with index 0, whose VarInt is a zero byte. *)
LEMMA ZeroFound ==
  ASSUME NEW s \in Str, NEW n
  PROVE  /\ TrailingRoot(s \o <<0>>, n) = {1} /\ Len(s \o <<0>>) - Only({1}) = Len(s)
         /\ SubSeq(s \o <<0>>, 1, Len(s)) = s
         /\ SubSeq(s \o <<0>>, Len(s) + 1, Len(s \o <<0>>)) = <<0>>
<1> DEFINE z == <<0>>
           b == s \o z
<1>1. z \in Str /\ Len(z) = 1 /\ z[1] = 0
  BY FlagsKnown, OneByte, Zenon
<1> HIDE DEF z
<1>2. b \in Str /\ Len(b) = Len(s) + 1 /\ Len(s) \in Nat
  BY <1>1, Cat, Zenon
<1>3. SubSeq(b, 1, Len(s)) = s /\ SubSeq(b, Len(s) + 1, Len(b)) = z
  BY <1>1, CutFront, Zenon DEF Str
<1>4. b[Len(b)] = 0
  <2>1. b[Len(s) + 1] = z[1]
    BY <1>1, <1>2 DEF Str
  <2>2. QED
    BY <1>1, <1>2, <2>1, Zenon
<1>5. Last(b) = 0
  BY <1>4, Zenon DEF Last
<1>6. b # <<>>
  BY <1>2
<1> HIDE DEF b
<1>7. TrailingRoot(b, n) = {1}
  BY <1>5, <1>6, Zenon DEF TrailingRoot
<1>8. Only({1}) = 1
  BY OnlyOne, Zenon
<1>9. Len(b) - Only({1}) = Len(s)
  BY <1>2, <1>8
<1>10. QED
  BY <1>3, <1>7, <1>9, Zenon DEF b, z

(* What is written in place of a tree: the root with more children, the other nodes and
   the new ones. *)
AddedBytes(t, Q, literals) ==
  LET n == Len(t.nodes)
  IN encode_varint(n + 2 + Len(literals)) \o <<0>>
       \o Many(t.nodes[1].children \o ProxyChildren(n, literals), encode_varint) \o Q[1]
       \o ProxyNodes(n, literals) \o <<0>>

LEMMA CommandsWritten ==
  ASSUME NEW t \in Trees, t.nodes[1].flags = 0, NEW Q, TreeLeft(Q, t.nodes), NEW v \in Int,
         v >= 393, NEW id \in is_declare_commands_packet(v)
  PROVE  inject_proxy_commands_into_declare_commands(RawPacket(id, TreeBytes(t)), v, CustomServers)
           = RawPacket(id, AddedBytes(t, Q, RootLiterals(CustomServers)))
<1> DEFINE raw      == RawPacket(id, TreeBytes(t))
           lits     == RootLiterals(CustomServers)
           N        == Len(t.nodes)
           x        == t.nodes[1]
           z        == <<0>>
           count    == GetVarInt(Start(raw.payload))
           flags    == GetU8(count)
           head     == GetMany(flags, MaxInt32, GetVarInt)
           rest     == head.rest
           ends     == TrailingRoot(rest, count.val)
           cut      == Len(rest) - Only(ends)
           children == head.val \o ProxyChildren(count.val, lits)
           m        == Many(x.children, encode_varint)
           s        == Q[1] \o z
<1>1. raw.payload = TreeBytes(t) /\ raw.id = id
  BY RawParts, Zenon
<1>2. HeadRead(t, Q, count, flags)
  BY <1>1, TreeHead, Zenon
<1>3. t.root = 0 /\ Plain(x) /\ N \in Nat /\ N >= 1
  <2>1. N \in Nat /\ N >= 1 /\ DOMAIN t.nodes = 1 .. N
    BY TreesTyped, Zenon
  <2>2. 1 \in DOMAIN t.nodes
    BY <2>1
  <2>3. QED
    BY <2>1, <2>2, TreesTyped, Zenon
<1>4. x.flags = 0 /\ x.children \in Seq(Int32) /\ Len(x.children) <= MaxInt32
  BY <1>3, Zenon DEF Plain, Parts
<1>5. z \in Str /\ m \in Str
  BY <1>4, FlagsKnown, OneByte, VarIntsStr, Zenon
<1>6. WriteNode(x) = z \o m
  BY <1>4, RootWritten, Zenon
<1> HIDE DEF m
<1>7. /\ count = Got(N, Q[0] \o encode_varint(t.root)) /\ Q[0] = WriteNode(x) \o Q[1]
      /\ Q[1] \in Str
  BY <1>2, Zenon DEF HeadRead
<1>8. count = Got(N, ((z \o m) \o Q[1]) \o z)
  BY <1>3, <1>6, <1>7, ZeroByte, Zenon
<1> HIDE DEF z, x, N, count, lits
<1>9. s \in Str
  BY <1>5, <1>7, Cat, Zenon
<1>10. m \o s \in Str
  BY <1>5, <1>9, Cat, Zenon
<1>11. ((z \o m) \o Q[1]) \o z = z \o (m \o s)
  <2>1. z \o m \in Str
    BY <1>5, Cat, Zenon
  <2>2. AssocIs(z \o m, Q[1], z)
    BY <1>5, <1>7, <2>1, Assoc, Zenon
  <2>3. ((z \o m) \o Q[1]) \o z = (z \o m) \o s
    BY <2>2, Zenon DEF AssocIs
  <2> HIDE DEF s
  <2>4. AssocIs(z, m, s)
    BY <1>5, <1>9, Assoc, Zenon
  <2>5. QED
    BY <2>3, <2>4, Zenon DEF AssocIs
<1> HIDE DEF s
<1>12. z \o (m \o s) \in Str
  BY <1>5, <1>10, Cat, Zenon
<1>13. At(count, N, z \o (m \o s), <<>>)
  BY <1>8, <1>11, <1>12, GotAt, Zenon
<1>14. At(flags, 0, m \o s, <<>>)
  BY <1>10, <1>13, FlagsKnown, Empty, U8At, Zenon DEF z
<1> HIDE DEF flags
<1>15. At(head, x.children, s, <<>>)
  BY <1>4, <1>9, <1>14, VarIntsAt, Zenon DEF m
<1> HIDE DEF head
<1>16. head.ok /\ head.val = x.children /\ rest = s
  BY <1>9, <1>15, AtWhole, Zenon
<1>17. count.val = N /\ flags.val = 0
  <2>1. flags.val = 0
    BY <1>10, <1>14, AtWhole, Zenon
  <2>2. QED
    BY <1>8, <2>1, GotParts, Zenon
<1>18. ends = {1} /\ cut = Len(Q[1]) /\ SubSeq(s, 1, Len(Q[1])) = Q[1]
       /\ SubSeq(s, Len(Q[1]) + 1, Len(s)) = z
  BY <1>7, <1>16, ZeroFound, Zenon DEF s, z
<1>19. ends # {}
  BY <1>18, Zenon
<1>20. ~(N <= 0) /\ ~(v < 393)
  BY <1>3, SMT DEF N
<1>21. inject_proxy_commands_into_declare_commands(raw, v, CustomServers)
         = IF v < 393 \/ raw.id \notin is_declare_commands_packet(v) \/ ~head.ok THEN raw
           ELSE IF count.val <= 0 \/ flags.val # 0 \/ ends = {} THEN raw
           ELSE RawPacket(raw.id,
                  encode_varint(count.val + 2 + Len(lits)) \o <<0>> \o Many(children, encode_varint)
                    \o SubSeq(rest, 1, cut) \o ProxyNodes(count.val, lits)
                    \o SubSeq(rest, cut + 1, Len(rest)))
  BY Zenon DEF inject_proxy_commands_into_declare_commands, count, flags, head, lits
<1>22. AddedBytes(t, Q, lits)
         = encode_varint(N + 2 + Len(lits)) \o <<0>>
             \o Many(x.children \o ProxyChildren(N, lits), encode_varint) \o Q[1]
             \o ProxyNodes(N, lits) \o <<0>>
  BY Zenon DEF AddedBytes, N, x
<1> HIDE DEF raw, rest, ends, cut
<1>23. inject_proxy_commands_into_declare_commands(raw, v, CustomServers)
         = RawPacket(raw.id,
             encode_varint(N + 2 + Len(lits)) \o z \o Many(x.children \o ProxyChildren(N, lits), encode_varint)
               \o Q[1] \o ProxyNodes(N, lits) \o z)
  BY <1>1, <1>16, <1>17, <1>18, <1>19, <1>20, <1>21, Zenon DEF z
<1>24. QED
  BY <1>1, <1>22, <1>23, Zenon DEF raw, lits, z

(* The nodes of the tree that goes on to the client. *)
Injected(nodes, literals) ==
  LET n == Len(nodes)
  IN [i \in 1 .. n + 2 + Len(literals) |->
        IF i = 1 THEN RootNode(nodes[1].children \o ProxyChildren(n, literals))
        ELSE IF i <= n THEN nodes[i]
        ELSE IF i = n + 1 THEN ServerNode(n)
        ELSE IF i = n + 2 THEN ArgumentNode ELSE LiteralNode(literals[i - n - 2])]

(* They are these, N being how many nodes there were, L how many commands. *)
InjectedIs(xs, nodes, literals, N, L) ==
  /\ xs \in Seq(ToSet(xs)) /\ Len(xs) = N + 2 + L
  /\ xs[1] = RootNode(nodes[1].children \o ProxyChildren(N, literals))
  /\ \A i \in 2 .. N : xs[i] = nodes[i]
  /\ xs[N + 1] = ServerNode(N) /\ xs[N + 2] = ArgumentNode
  /\ \A j \in 1 .. L : xs[N + 2 + j] = LiteralNode(literals[j])

LEMMA InjectedShape ==
  ASSUME NEW nodes, NEW literals, NEW N \in Nat, NEW L \in Nat, N = Len(nodes), L = Len(literals),
         N >= 1
  PROVE  InjectedIs(Injected(nodes, literals), nodes, literals, N, L)
<1> DEFINE f(i) == IF i = 1 THEN RootNode(nodes[1].children \o ProxyChildren(N, literals))
                   ELSE IF i <= N THEN nodes[i]
                   ELSE IF i = N + 1 THEN ServerNode(N)
                   ELSE IF i = N + 2 THEN ArgumentNode ELSE LiteralNode(literals[i - N - 2])
           xs   == [i \in 1 .. N + 2 + L |-> f(i)]
<1>1. Injected(nodes, literals) = xs
  BY Zenon DEF Injected
<1>2. \A i \in 1 .. N + 2 + L : xs[i] = f(i)
  OBVIOUS
<1>3. Len(xs) = N + 2 + L /\ DOMAIN xs = 1 .. N + 2 + L
  OBVIOUS
<1>4. xs \in Seq(ToSet(xs))
  <2> DEFINE T == {f(i) : i \in 1 .. N + 2 + L}
  <2>1. ToSet(xs) = T
    <3>1. ToSet(xs) = {xs[i] : i \in 1 .. N + 2 + L}
      BY <1>3, Zenon DEF ToSet
    <3> HIDE DEF f
    <3>2. QED
      BY <1>2, <3>1
  <2> HIDE DEF f
  <2>2. xs \in Seq(T)
    OBVIOUS
  <2>3. QED
    BY <2>1, <2>2, Zenon
<1> HIDE DEF xs
<1>5. xs[1] = RootNode(nodes[1].children \o ProxyChildren(N, literals))
  BY <1>2
<1>6. ASSUME NEW i \in 2 .. N PROVE xs[i] = nodes[i]
  BY <1>2
<1>7. xs[N + 1] = ServerNode(N) /\ xs[N + 2] = ArgumentNode
  BY <1>2
<1>8. ASSUME NEW j \in 1 .. L PROVE xs[N + 2 + j] = LiteralNode(literals[j])
  <2> DEFINE i == N + 2 + j
  <2>1. /\ i \in 1 .. N + 2 + L /\ i # 1 /\ ~(i <= N) /\ i # N + 1 /\ i # N + 2
        /\ i - N - 2 = j
    OBVIOUS
  <2> HIDE DEF i
  <2>2. QED
    BY <1>2, <2>1, Zenon DEF i
<1>9. QED
  BY <1>1, <1>3, <1>4, <1>5, <1>6, <1>7, <1>8, Zenon DEF InjectedIs

(* The children the root gets. *)
ProxyChildrenIs(c, n, L) ==
  /\ c \in Seq(n .. n + 1 + L) /\ Len(c) = L + 1 /\ c[1] = n
  /\ \A j \in 1 .. L : c[j + 1] = n + 1 + j

LEMMA ProxyChildrenAre ==
  ASSUME NEW n \in Nat, NEW literals, NEW L \in Nat, L = Len(literals), DOMAIN literals = 1 .. L
  PROVE  ProxyChildrenIs(ProxyChildren(n, literals), n, L)
<1> DEFINE a == <<n>>
           b == [i \in DOMAIN literals |-> n + 1 + i]
<1>1. a \in Seq(n .. n + 1 + L) /\ Len(a) = 1 /\ a[1] = n
  OBVIOUS
<1>2. b \in Seq(n .. n + 1 + L) /\ Len(b) = L /\ \A j \in 1 .. L : b[j] = n + 1 + j
  OBVIOUS
<1>3. ProxyChildren(n, literals) = a \o b
  BY DEF ProxyChildren
<1> HIDE DEF a, b
<1> DEFINE S == n .. n + 1 + L
           k == Len(a) + Len(b)
<1> HIDE DEF S
<1>4. /\ a \o b \in Seq(S) /\ Len(a \o b) = k
      /\ \A i \in 1 .. k : (a \o b)[i] = IF i <= Len(a) THEN a[i] ELSE b[i - Len(a)]
  BY <1>1, <1>2, ConcatProperties, Zenon DEF S
<1>5. k = L + 1 /\ 1 <= Len(a)
  BY <1>1, <1>2
<1> HIDE DEF k
<1>6. (a \o b)[1] = n
  <2>1. 1 \in 1 .. k
    BY <1>5
  <2>2. QED
    BY <1>1, <1>4, <1>5, <2>1, Zenon
<1>7. ASSUME NEW j \in 1 .. L PROVE (a \o b)[j + 1] = n + 1 + j
  <2> DEFINE i == j + 1
  <2>1. i \in 1 .. k /\ ~(i <= Len(a)) /\ i - Len(a) = j
    BY <1>1, <1>5
  <2> HIDE DEF i
  <2>2. (a \o b)[i] = b[j]
    BY <1>4, <2>1, Zenon
  <2>3. QED
    BY <1>2, <2>2, Zenon DEF i
<1>8. QED
  BY <1>3, <1>4, <1>5, <1>6, <1>7, Zenon DEF S, ProxyChildrenIs

(* Everything about a tree and the commands that its rewriting depends on. *)
Placeable(nodes, N, literals, L) ==
  /\ N \in Nat /\ N = Len(nodes) /\ DOMAIN nodes = 1 .. N /\ N >= 1 /\ N <= MaxPacketSize
  /\ \A i \in 1 .. N : Plain(nodes[i]) /\ IsNode(nodes[i], N)
  /\ L \in Nat /\ L = Len(literals) /\ DOMAIN literals = 1 .. L /\ L <= MaxPacketSize + 3
  /\ \A j \in 1 .. L : literals[j] \in Field

LEMMA CommandsPlaceable ==
  ASSUME NEW t \in Trees
  PROVE  LET lits == RootLiterals(CustomServers)
         IN Placeable(t.nodes, Len(t.nodes), lits, Len(lits))
<1> DEFINE lits == RootLiterals(CustomServers)
           L    == Len(lits)
           N    == Len(t.nodes)
<1>1. lits \in Seq(Field) /\ L <= MaxPacketSize + 3
  BY LiteralsAre, Zenon DEF Literals
<1>2. /\ N \in Nat /\ DOMAIN t.nodes = 1 .. N /\ N >= 1 /\ N <= MaxPacketSize
      /\ \A i \in 1 .. N : Plain(t.nodes[i]) /\ IsNode(t.nodes[i], N)
  BY TreesTyped, Zenon
<1> HIDE DEF lits
<1>3. L \in Nat /\ DOMAIN lits = 1 .. L /\ \A j \in 1 .. L : lits[j] \in Field
  BY <1>1
<1>4. QED
  BY <1>1, <1>2, <1>3, Zenon DEF Placeable, lits

LEMMA SeqMore == ASSUME NEW S, NEW T, S \subseteq T, NEW s \in Seq(S) PROVE s \in Seq(T)
OBVIOUS

LEMMA ChildrenKnown ==
  ASSUME NEW nodes, NEW N, NEW literals, NEW L, Placeable(nodes, N, literals, L)
  PROVE  LET old == nodes[1].children
             new == old \o ProxyChildren(N, literals)
         IN /\ old \in Seq(0 .. N - 1) /\ ProxyChildren(N, literals) \in Seq(N .. N + 1 + L)
            /\ new \in Seq(0 .. N + 1 + L) /\ new \in Seq(Int32) /\ Len(new) <= MaxInt32
            /\ N + 2 + L \in Nat /\ N + 2 + L <= MaxInt32 /\ N + 1 \in Int32
<1> DEFINE old == nodes[1].children
           pc  == ProxyChildren(N, literals)
           new == old \o pc
<1>1. /\ N \in Nat /\ N >= 1 /\ N <= MaxPacketSize /\ L \in Nat /\ L = Len(literals)
      /\ DOMAIN literals = 1 .. L /\ L <= MaxPacketSize + 3
  BY Zenon DEF Placeable
<1>2. IsNode(nodes[1], N)
  <2>1. 1 \in 1 .. N
    BY <1>1
  <2>2. QED
    BY <2>1, Zenon DEF Placeable
<1>3. old \in Seq(0 .. N - 1) /\ Len(old) <= MaxPacketSize
  BY <1>2, Zenon DEF IsNode
<1>4. pc \in Seq(N .. N + 1 + L) /\ Len(pc) = L + 1
  BY <1>1, ProxyChildrenAre, Zenon DEF ProxyChildrenIs
<1> HIDE DEF old, pc
<1>5. new \in Seq(0 .. N + 1 + L) /\ Len(new) = Len(old) + Len(pc) /\ Len(old) \in Nat
  <2>1. old \in Seq(0 .. N + 1 + L) /\ pc \in Seq(0 .. N + 1 + L)
    BY <1>1, <1>3, <1>4
  <2>2. QED
    BY <2>1, ConcatProperties
<1> HIDE DEF new
<1>6. Len(new) <= MaxInt32 /\ N + 2 + L \in Nat /\ N + 2 + L <= MaxInt32 /\ N + 1 \in Nat
      /\ N + 1 <= MaxInt32
  BY <1>1, <1>3, <1>4, <1>5 DEF MaxPacketSize, MaxInt32
<1>7. N + 1 \in Int32
  BY <1>6, SizeIs, Zenon
<1>8. 0 .. N + 1 + L \subseteq Int32
  BY <1>1, <1>6 DEF MaxInt32, Int32
<1> DEFINE S == 0 .. N + 1 + L
<1> HIDE DEF S
<1>9. new \in Seq(Int32)
  <2>1. new \in Seq(S) /\ S \subseteq Int32
    BY <1>5, <1>8, Zenon DEF S
  <2>2. QED
    BY <2>1, SeqMore, Zenon
<1>10. QED
  BY <1>3, <1>4, <1>5, <1>6, <1>7, <1>9, Zenon DEF old, pc, new

LEMMA InjectedPlain ==
  ASSUME NEW nodes, NEW N, NEW literals, NEW L, Placeable(nodes, N, literals, L),
         NEW xs, InjectedIs(xs, nodes, literals, N, L)
  PROVE  DOMAIN xs = 1 .. N + 2 + L /\ \A i \in DOMAIN xs : Plain(xs[i])
<1>1. /\ N \in Nat /\ N >= 1 /\ L \in Nat
      /\ \A i \in 1 .. N : Plain(nodes[i])
      /\ \A j \in 1 .. L : literals[j] \in Field
  BY Zenon DEF Placeable
<1>2. /\ xs \in Seq(ToSet(xs)) /\ Len(xs) = N + 2 + L
      /\ xs[1] = RootNode(nodes[1].children \o ProxyChildren(N, literals))
      /\ \A i \in 2 .. N : xs[i] = nodes[i]
      /\ xs[N + 1] = ServerNode(N) /\ xs[N + 2] = ArgumentNode
      /\ \A j \in 1 .. L : xs[N + 2 + j] = LiteralNode(literals[j])
  BY Zenon DEF InjectedIs
<1>3. DOMAIN xs = 1 .. N + 2 + L
  BY <1>2
<1>4. ASSUME NEW i \in 1 .. N + 2 + L
      PROVE  i = 1 \/ i \in 2 .. N \/ i = N + 1 \/ i = N + 2 \/ \E j \in 1 .. L : i = N + 2 + j
  <2>1. i > N + 2 => i - N - 2 \in 1 .. L /\ i = N + 2 + (i - N - 2)
    BY <1>1
  <2>2. QED
    BY <1>1, <2>1
<1>5. Plain(xs[1])
  BY <1>2, ChildrenKnown, RootKnown, Zenon
<1>6. Plain(xs[N + 1]) /\ Plain(xs[N + 2])
  BY <1>1, <1>2, ChildrenKnown, ServerKnown, ArgumentKnown, Zenon
<1>7. ASSUME NEW i \in 2 .. N PROVE Plain(xs[i])
  <2>1. i \in 1 .. N
    BY <1>1
  <2>2. QED
    BY <1>1, <1>2, <2>1, Zenon
<1>8. ASSUME NEW j \in 1 .. L PROVE Plain(xs[N + 2 + j])
  BY <1>1, <1>2, LiteralKnown, Zenon
<1>9. \A i \in 1 .. N + 2 + L : Plain(xs[i])
  BY <1>4, <1>5, <1>6, <1>7, <1>8, Zenon
<1>10. QED
  BY <1>3, <1>9, Zenon

(* What is left of the new tree after each of its nodes: R. *)
NodesLeft(R, xs, M) ==
  /\ R[M] = <<0>>
  /\ \A i \in 0 .. M : R[i] \in Str
  /\ \A i \in 1 .. M : R[i - 1] = WriteNode(xs[i]) \o R[i]

NodesFollow(b, xs, M) == \E R : b = encode_varint(M) \o R[0] /\ NodesLeft(R, xs, M)

LEMMA AddedLeft ==
  ASSUME NEW t \in Trees, NEW Q, TreeLeft(Q, t.nodes), NEW N, NEW literals, NEW L,
         Placeable(t.nodes, N, literals, L),
         NEW xs, InjectedIs(xs, t.nodes, literals, N, L)
  PROVE  NodesFollow(AddedBytes(t, Q, literals), xs, N + 2 + L)
<1> DEFINE nodes == t.nodes
           ch == nodes[1].children \o ProxyChildren(N, literals)
           M  == N + 2 + L
           c  == encode_varint(M)
           z  == <<0>>
           m  == Many(ch, encode_varint)
           ss == LiteralStrs(literals)
           F  == FlattenSeq(ss)
           w1 == WriteNode(RootNode(ch))
           ws == WriteNode(ServerNode(N))
           wa == WriteNode(ArgumentNode)
           p  == ProxyNodes(N, literals)
           S  == p \o z
           X  == Q[1] \o S
<1>1. /\ N \in Nat /\ N >= 1 /\ N = Len(nodes) /\ L \in Nat /\ L = Len(literals)
      /\ DOMAIN literals = 1 .. L /\ \A j \in 1 .. L : literals[j] \in Field
  BY Zenon DEF Placeable
<1>2. ch \in Seq(Int32) /\ Len(ch) <= MaxInt32 /\ M \in Nat /\ M <= MaxInt32 /\ N + 1 \in Int32
  BY ChildrenKnown, Zenon
<1>3. /\ Q[N] = <<>> /\ \A i \in 0 .. N : Q[i] \in Str
      /\ \A i \in 1 .. N : Q[i - 1] = WriteNode(nodes[i]) \o Q[i]
  BY <1>1, Zenon DEF TreeLeft
<1>4. /\ xs[1] = RootNode(ch)
      /\ \A i \in 2 .. N : xs[i] = nodes[i]
      /\ xs[N + 1] = ServerNode(N) /\ xs[N + 2] = ArgumentNode
      /\ \A j \in 1 .. L : xs[N + 2 + j] = LiteralNode(literals[j])
  BY Zenon DEF InjectedIs
<1>5. c \in Str /\ z \in Str /\ m \in Str /\ w1 \in Str /\ ws \in Str /\ wa \in Str /\ w1 = z \o m
  <2>1. M \in Int32
    BY <1>2, SizeIs, Zenon
  <2> HIDE DEF M, ch
  <2>2. c \in Str
    BY <2>1, VarIntShape, Zenon
  <2>3. z \in Str
    BY FlagsKnown, OneByte, Zenon
  <2>4. m \in Str
    BY <1>2, VarIntsStr, Zenon
  <2>5. w1 \in Str /\ w1 = z \o m
    BY <1>2, RootKnown, Zenon
  <2>6. ws \in Str /\ wa \in Str
    BY <1>1, <1>2, ServerKnown, ArgumentKnown, Zenon
  <2>7. QED
    BY <2>2, <2>3, <2>4, <2>5, <2>6, Zenon
<1>6. /\ Len(ss) = L /\ (L = 0 => ss = <<>>)
      /\ \A j \in 1 .. L : ss[j] = <<5>> \o encode_varint(0) \o Text(literals[j])
  <2> DEFINE g(j) == <<5>> \o encode_varint(0) \o Text(literals[j])
  <2>1. ss = [j \in 1 .. L |-> g(j)]
    BY <1>1, Zenon DEF LiteralStrs
  <2> HIDE DEF g, ss
  <2>2. Len(ss) = L /\ (L = 0 => ss = <<>>) /\ \A j \in 1 .. L : ss[j] = g(j)
    BY <1>1, <2>1
  <2>3. QED
    BY <2>2, Zenon DEF g
<1> HIDE DEF ss
<1>7. \A j \in 1 .. L : ss[j] = WriteNode(LiteralNode(literals[j])) /\ ss[j] \in Str
  BY <1>1, <1>6, LiteralKnown, Zenon
<1>8. F \in Str /\ \E r : Peels(r, ss, z, L)
  BY <1>1, <1>5, <1>6, <1>7, FlattenPeels, Zenon
<1>9. PICK r : Peels(r, ss, z, L)
  BY <1>8, Zenon
<1>10. /\ r[0] = F \o z /\ r[L] = z /\ \A j \in 0 .. L : r[j] \in Str
       /\ \A j \in 1 .. L : r[j - 1] = ss[j] \o r[j]
  BY <1>9, Zenon DEF Peels
<1>11. p \in Str /\ p = ws \o (wa \o F)
  BY <1>1, <1>2, <1>8, ProxyNodesAre, Zenon DEF ss
<1> HIDE DEF p, ws, wa, F, z, m, c, w1, ch, M, nodes
<1>12. r[0] \in Str /\ 0 \in 0 .. L
  <2>1. 0 \in 0 .. L
    BY <1>1
  <2>2. QED
    BY <1>10, <2>1, Zenon
<1> DEFINE B == wa \o r[0]
<1>13. B \in Str /\ S = ws \o B /\ S \in Str
  <2>1. B \in Str
    BY <1>5, <1>12, Cat, Zenon
  <2>2. wa \o F \in Str
    BY <1>5, <1>8, Cat, Zenon
  <2>3. AssocIs(ws, wa \o F, z) /\ AssocIs(wa, F, z)
    BY <1>5, <1>8, <2>2, Assoc, Zenon
  <2>4. S = ws \o B
    BY <1>10, <1>11, <2>3, Zenon DEF AssocIs
  <2>5. QED
    BY <1>5, <1>11, <2>1, <2>4, Cat, Zenon
<1>14. Q[1] \in Str /\ X \in Str
  <2>1. 1 \in 0 .. N
    BY <1>1
  <2>2. Q[1] \in Str
    BY <1>3, <2>1, Zenon
  <2> HIDE DEF S
  <2>3. QED
    BY <1>13, <2>2, Cat, Zenon
<1>15. AddedBytes(t, Q, literals) = c \o (w1 \o X)
  <2> DEFINE q == Q[1]
  <2>1. AddedBytes(t, Q, literals) = c \o z \o m \o q \o p \o z
    BY <1>1, Zenon DEF AddedBytes, c, z, m, p, M, ch, nodes
  <2>2. q \in Str
    BY <1>14, Zenon
  <2> HIDE DEF q
  <2>3. Flat6(c, z, m, q, p, z)
    BY <1>5, <1>11, <2>2, FlatIs6, Zenon
  <2>4. AddedBytes(t, Q, literals) = c \o (z \o (m \o (q \o (p \o (z \o <<>>)))))
    BY <2>1, <2>3, Zenon DEF Flat6
  <2>5. z \o <<>> = z
    BY <1>5, Empty, Zenon
  <2>6. q \o (p \o z) \in Str
    BY <1>14, Zenon DEF q
  <2>7. AssocIs(z, m, q \o (p \o z))
    BY <1>5, <2>6, Assoc, Zenon
  <2>8. QED
    BY <1>5, <2>4, <2>5, <2>7, Zenon DEF AssocIs, q
<1> HIDE DEF B, S
<1> DEFINE f(i) == IF i = 0 THEN w1 \o X ELSE IF i <= N THEN Q[i] \o S
                   ELSE IF i = N + 1 THEN B ELSE r[i - N - 2]
           R == [i \in 0 .. M |-> f(i)]
<1> HIDE DEF X
<1>16. \A i \in 0 .. M : R[i] = f(i)
  OBVIOUS
<1>17. /\ R[0] = w1 \o X /\ R[1] = X /\ R[N + 1] = B /\ R[M] = z
       /\ \A i \in 1 .. N : R[i] = Q[i] \o S
       /\ \A j \in 0 .. L : R[N + 2 + j] = r[j]
  <2>1. M = N + 2 + L
    BY Zenon DEF M
  <2>2. 0 \in 0 .. M /\ N + 1 \in 0 .. M /\ N + 1 # 0 /\ ~(N + 1 <= N)
    BY <1>1, <2>1
  <2>3. R[0] = w1 \o X
    BY <1>16, <2>2, Zenon
  <2>4. R[N + 1] = B
    BY <1>16, <2>2, Zenon
  <2>5. ASSUME NEW i \in 1 .. N PROVE R[i] = Q[i] \o S
    <3>1. i \in 0 .. M /\ i # 0 /\ i <= N
      BY <1>1, <2>1
    <3>2. QED
      BY <1>16, <3>1, Zenon
  <2>6. ASSUME NEW j \in 0 .. L PROVE R[N + 2 + j] = r[j]
    <3> DEFINE i == N + 2 + j
    <3>1. i \in 0 .. M /\ i # 0 /\ ~(i <= N) /\ i # N + 1 /\ i - N - 2 = j
      BY <1>1, <2>1
    <3> HIDE DEF i
    <3>2. QED
      BY <1>16, <3>1, Zenon DEF i
  <2>7. 1 \in 1 .. N /\ L \in 0 .. L
    BY <1>1
  <2>8. QED
    BY <1>10, <2>1, <2>3, <2>4, <2>5, <2>6, <2>7, Zenon DEF X
<1> HIDE DEF R
<1>18. \A i \in 0 .. M : i = 0 \/ i \in 1 .. N \/ i = N + 1 \/ \E j \in 0 .. L : i = N + 2 + j
  <2>1. ASSUME NEW i \in 0 .. M, i > N + 1 PROVE i - N - 2 \in 0 .. L /\ i = N + 2 + (i - N - 2)
    BY <1>1, <2>1 DEF M
  <2>2. ASSUME NEW i \in 0 .. M PROVE i = 0 \/ i \in 1 .. N \/ i = N + 1 \/ i > N + 1
    BY <1>1
  <2>3. QED
    BY <2>1, <2>2, Zenon
<1>19. ASSUME NEW i \in 0 .. M PROVE R[i] \in Str
  <2>1. w1 \o X \in Str
    BY <1>5, <1>14, Cat, Zenon
  <2>2. ASSUME NEW j \in 1 .. N PROVE Q[j] \o S \in Str
    <3>1. j \in 0 .. N
      BY <1>1
    <3>2. QED
      BY <1>3, <1>13, <3>1, Cat, Zenon
  <2>3. QED
    BY <1>10, <1>13, <1>17, <1>18, <2>1, <2>2, Zenon
<1>20. ASSUME NEW i \in 1 .. M PROVE R[i - 1] = WriteNode(xs[i]) \o R[i]
  <2>1. CASE i = 1
    <3>1. i - 1 = 0
      BY <2>1
    <3>2. QED
      BY <1>4, <1>17, <2>1, <3>1, Zenon DEF w1
  <2>2. CASE i \in 2 .. N
    <3> DEFINE k == i - 1
               w == WriteNode(nodes[i])
    <3>1. i \in 1 .. N /\ k \in 1 .. N /\ k \in 0 .. N /\ i \in 0 .. N
      BY <1>1, <2>2
    <3>2. Q[k] = w \o Q[i] /\ Q[i] \in Str /\ xs[i] = nodes[i] /\ R[k] = Q[k] \o S
          /\ R[i] = Q[i] \o S
      BY <1>3, <1>4, <1>17, <2>2, <3>1, Zenon
    <3>3. w \in Str
      <4>1. Plain(nodes[i])
        BY <1>1, <3>1, Zenon DEF Placeable, nodes
      <4>2. QED
        BY <4>1, PlainStr, Zenon
    <3> HIDE DEF w, k
    <3>4. AssocIs(w, Q[i], S)
      BY <1>13, <3>2, <3>3, Assoc, Zenon
    <3>5. QED
      BY <3>2, <3>4, Zenon DEF AssocIs, w, k
  <2>3. CASE i = N + 1
    <3>1. i - 1 = N /\ N \in 1 .. N
      BY <1>1, <2>3
    <3>2. R[i - 1] = S
      <4>1. R[N] = Q[N] \o S /\ Q[N] = <<>>
        BY <1>3, <1>17, <3>1, Zenon
      <4>2. <<>> \o S = S
        BY <1>13, Empty, Zenon
      <4>3. QED
        BY <3>1, <4>1, <4>2, Zenon
    <3>3. QED
      BY <1>4, <1>13, <1>17, <2>3, <3>2, Zenon DEF ws
  <2>4. CASE i = N + 2
    <3>1. i - 1 = N + 1 /\ i = N + 2 + 0
      BY <1>1, <2>4
    <3>2. R[i] = r[0] /\ R[i - 1] = B
      BY <1>12, <1>17, <3>1, Zenon
    <3>3. QED
      BY <1>4, <2>4, <3>2, Zenon DEF wa, B
  <2>5. CASE i > N + 2
    <3> DEFINE j == i - N - 2
               k == j - 1
    <3>1. j \in 1 .. L /\ k \in 0 .. L /\ j \in 0 .. L /\ i = N + 2 + j /\ i - 1 = N + 2 + k
      BY <1>1, <2>5 DEF M
    <3>2. r[k] = ss[j] \o r[j]
      BY <1>10, <3>1, Zenon
    <3> HIDE DEF j, k
    <3>3. R[i] = r[j] /\ R[i - 1] = r[k] /\ xs[i] = LiteralNode(literals[j])
      BY <1>4, <1>17, <3>1, Zenon
    <3>4. QED
      BY <1>7, <3>1, <3>2, <3>3, Zenon
  <2>6. i = 1 \/ i \in 2 .. N \/ i = N + 1 \/ i = N + 2 \/ i > N + 2
    BY <1>1
  <2>7. QED
    BY <2>1, <2>2, <2>3, <2>4, <2>5, <2>6, Zenon
<1>21. NodesLeft(R, xs, M)
  BY <1>17, <1>19, <1>20, Zenon DEF NodesLeft, z
<1>22. AddedBytes(t, Q, literals) = c \o R[0]
  BY <1>15, <1>17, Zenon
<1>23. QED
  BY <1>21, <1>22, Zenon DEF c, M, NodesFollow

LEMMA AddedRead ==
  ASSUME NEW t \in Trees, NEW Q, TreeLeft(Q, t.nodes), NEW N, NEW literals, NEW L,
         Placeable(t.nodes, N, literals, L),
         NEW xs, InjectedIs(xs, t.nodes, literals, N, L), NEW id
  PROVE  ReadTree(RawPacket(id, AddedBytes(t, Q, literals))) = Got([nodes |-> xs, root |-> 0], <<>>)
<1> DEFINE b     == AddedBytes(t, Q, literals)
           M     == N + 2 + L
           nodes == GetMany(Start(b), MaxInt32, ReadNode)
           root  == GetVarInt(nodes)
<1>1. M \in Nat /\ M <= MaxInt32
  BY ChildrenKnown, Zenon
<1>2. DOMAIN xs = 1 .. M /\ \A i \in DOMAIN xs : Plain(xs[i])
  BY InjectedPlain, Zenon
<1>3. xs \in Seq(ToSet(xs)) /\ Len(xs) = M
  BY Zenon DEF InjectedIs
<1>4. PICK R : b = encode_varint(M) \o R[0] /\ NodesLeft(R, xs, M)
  <2>1. NodesFollow(b, xs, M)
    BY AddedLeft, Zenon
  <2>2. QED
    BY <2>1, Zenon DEF NodesFollow
<1> HIDE DEF b, M
<1>5. /\ R[M] = <<0>> /\ \A i \in 0 .. M : R[i] \in Str
      /\ \A i \in 1 .. M : R[i - 1] = WriteNode(xs[i]) \o R[i]
  BY <1>4, Zenon DEF NodesLeft
<1>6. M \in Int32 /\ 0 \in 0 .. M
  <2>1. 0 \in 0 .. M
    BY <1>1
  <2>2. QED
    BY <1>1, <2>1, SizeIs, Zenon
<1>7. b \in Str
  <2>1. encode_varint(M) \in Str
    BY <1>6, VarIntShape, Zenon
  <2>2. QED
    BY <1>4, <1>5, <1>6, <2>1, Cat, Zenon
<1>8. At(Start(b), <<>>, encode_varint(M) \o R[0], <<>>)
  BY <1>4, <1>7, StartAt, Zenon
<1>9. At(nodes, xs, R[M], <<>>)
  BY <1>1, <1>2, <1>3, <1>5, <1>8, NodesLoop, Zenon
<1> HIDE DEF nodes
<1>10. At(nodes, xs, encode_varint(0) \o <<>>, <<>>)
  <2>1. encode_varint(0) \in Str
    BY FlagsKnown, VarIntShape, Zenon
  <2>2. encode_varint(0) \o <<>> = R[M]
    BY <1>5, <2>1, Empty, ZeroByte, Zenon
  <2>3. QED
    BY <1>9, <2>2, Zenon
<1>11. At(root, 0, <<>>, <<>>)
  BY <1>10, FlagsKnown, Empty, VarIntAt, Zenon
<1> HIDE DEF root
<1>12. root.ok /\ root.val = 0 /\ root.rest = <<>>
  BY <1>11, Empty, AtWhole, Zenon
<1>13. nodes.val = xs
  <2>1. encode_varint(0) \o <<>> \in Str
    BY FlagsKnown, VarIntShape, Empty, Zenon
  <2>2. QED
    BY <1>10, <2>1, AtWhole, Zenon
<1>14. ReadRoot(nodes) = Got([nodes |-> xs, root |-> 0], <<>>)
  BY <1>12, <1>13, Zenon DEF ReadRoot, root
<1>15. RawPacket(id, b).payload = b
  BY RawParts, Zenon
<1>16. ReadTree(RawPacket(id, b)) = ReadRoot(nodes)
  BY <1>15, Zenon DEF ReadTree, nodes
<1>17. QED
  BY <1>14, <1>16, Zenon DEF b

-----------------------------------------------------------------------------
(* The tree that is read is the old one with the commands. *)
LEMMA SameMiddle ==
  ASSUME NEW s, NEW t, NEW m \in Int, NEW n \in Int, \A i \in m .. n : s[i] = t[i]
  PROVE  SubSeq(s, m, n) = SubSeq(t, m, n)
<1> DEFINE S == {s[i] : i \in m .. n}
           a == SubSeq(s, m, n)
           b == SubSeq(t, m, n)
<1>1. \A i \in m .. n : s[i] \in S /\ t[i] \in S
  OBVIOUS
<1> HIDE DEF S
<1>2. /\ a \in Seq(S) /\ Len(a) = (IF m <= n THEN n - m + 1 ELSE 0)
      /\ \A i \in 1 .. n - m + 1 : a[i] = s[m + i - 1]
  BY <1>1, SubSeqProperties
<1>3. /\ b \in Seq(S) /\ Len(b) = (IF m <= n THEN n - m + 1 ELSE 0)
      /\ \A i \in 1 .. n - m + 1 : b[i] = t[m + i - 1]
  BY <1>1, SubSeqProperties
<1> HIDE DEF a, b
<1>4. ASSUME NEW i \in 1 .. Len(a) PROVE a[i] = b[i]
  <2> DEFINE k == Len(a)
  <2>0. k = (IF m <= n THEN n - m + 1 ELSE 0) /\ i \in 1 .. k
    BY <1>2, Zenon
  <2> HIDE DEF k
  <2>1. i \in 1 .. n - m + 1 /\ m + i - 1 \in m .. n
    BY <2>0
  <2>2. QED
    BY <1>2, <1>3, <2>1, Zenon
<1>5. Len(a) = Len(b)
  BY <1>2, <1>3
<1>6. a = b
  BY <1>2, <1>3, <1>4, <1>5, SeqEqual, Zenon
<1>7. QED
  BY <1>6, Zenon DEF a, b

LEMMA MoreChildren ==
  ASSUME NEW S, NEW a \in Seq(S), NEW b \in Seq(S)
  PROVE  IsPrefix(a, a \o b) /\ ToSet(a \o b) = ToSet(a) \cup ToSet(b)
<1> DEFINE c == a \o b
           m == Len(a)
           n == Len(b)
<1>1. /\ c \in Seq(S) /\ Len(c) = m + n /\ m \in Nat /\ n \in Nat
      /\ \A i \in 1 .. m + n : c[i] = IF i <= m THEN a[i] ELSE b[i - m]
  BY ConcatProperties, LenProperties, Zenon
<1>2. DOMAIN a = 1 .. m /\ DOMAIN b = 1 .. n
  OBVIOUS
<1>3. DOMAIN c = 1 .. m + n
  BY <1>1
<1> HIDE DEF c, m, n
<1>4. \A i \in 1 .. m : c[i] = a[i] /\ i \in 1 .. m + n
  BY <1>1
<1>5. \A i \in 1 .. n : c[m + i] = b[i] /\ m + i \in 1 .. m + n
  BY <1>1
<1>6. \A i \in 1 .. m + n : i \in 1 .. m \/ (i - m \in 1 .. n /\ c[i] = b[i - m])
  BY <1>1
<1>7. SubSeq(a, 1, m) = SubSeq(c, 1, m)
  BY <1>1, <1>4, SameMiddle
<1>8. m <= Len(c)
  BY <1>1
<1>9. IsPrefix(a, c)
  BY <1>7, <1>8, Zenon DEF IsPrefix, m
<1>10. ToSet(c) = ToSet(a) \cup ToSet(b)
  <2>1. /\ ToSet(a) = {a[i] : i \in 1 .. m} /\ ToSet(b) = {b[i] : i \in 1 .. n}
        /\ ToSet(c) = {c[i] : i \in 1 .. m + n}
    BY <1>2, <1>3, Zenon DEF ToSet
  <2>2. ASSUME NEW x \in ToSet(c) PROVE x \in ToSet(a) \cup ToSet(b)
    BY <1>4, <1>6, <2>1, Zenon
  <2>3. ASSUME NEW x \in ToSet(a) \cup ToSet(b) PROVE x \in ToSet(c)
    BY <1>4, <1>5, <2>1, Zenon
  <2>4. QED
    BY <2>2, <2>3, Zenon
<1>11. QED
  BY <1>9, <1>10, Zenon DEF c

(* The fields of the new nodes. *)
LEMMA NewFields ==
  /\ \A n : /\ ServerNode(n).flags = 5 /\ ServerNode(n).children = <<n + 1>>
            /\ ServerNode(n).name = Word.server
  /\ ArgumentNode.flags = 22 /\ ArgumentNode.children = <<>> /\ ArgumentNode.name = Word.name
  /\ ArgumentNode.suggestions = Word.ask_server
  /\ \A w : LiteralNode(w).flags = 5 /\ LiteralNode(w).children = <<>> /\ LiteralNode(w).name = w
  /\ \A c : RootNode(c).children = c
BY SMT DEF ServerNode, ArgumentNode, LiteralNode, RootNode

(* The commands among the nodes. *)
Commands(xs, N)  == {i \in N + 1 .. Len(xs) : xs[i].flags % 4 = 1}
NewIndices(N, L) == {N + 1} \cup {N + 2 + j : j \in 1 .. L}

LEMMA AddedAre ==
  ASSUME NEW N \in Nat, NEW L \in Nat, NEW nodes, NEW literals, NEW xs,
         InjectedIs(xs, nodes, literals, N, L)
  PROVE  Commands(xs, N) = NewIndices(N, L)
<1> DEFINE A == {i \in N + 1 .. Len(xs) : xs[i].flags % 4 = 1}
<1>1. /\ Len(xs) = N + 2 + L
      /\ xs[N + 1] = ServerNode(N) /\ xs[N + 2] = ArgumentNode
      /\ \A j \in 1 .. L : xs[N + 2 + j] = LiteralNode(literals[j])
  BY Zenon DEF InjectedIs
<1>2. /\ xs[N + 1].flags % 4 = 1 /\ xs[N + 2].flags % 4 # 1
      /\ \A j \in 1 .. L : xs[N + 2 + j].flags % 4 = 1
  <2>1. 5 % 4 = 1 /\ 22 % 4 # 1
    BY SMT
  <2>2. xs[N + 1].flags = 5 /\ xs[N + 2].flags = 22
    BY <1>1, NewFields, SMT
  <2>3. ASSUME NEW j \in 1 .. L PROVE xs[N + 2 + j].flags = 5
    <3>1. xs[N + 2 + j] = LiteralNode(literals[j])
      BY <1>1, Zenon
    <3>2. QED
      BY <3>1, NewFields, SMT
  <2>4. xs[N + 1].flags % 4 = 1 /\ xs[N + 2].flags % 4 # 1
    BY <2>1, <2>2
  <2>5. ASSUME NEW j \in 1 .. L PROVE xs[N + 2 + j].flags % 4 = 1
    BY <2>1, <2>3
  <2>6. QED
    BY <2>4, <2>5, Zenon
<1>3. N + 1 \in N + 1 .. Len(xs) /\ \A j \in 1 .. L : N + 2 + j \in N + 1 .. Len(xs)
  BY <1>1
<1>4. ASSUME NEW i \in N + 1 .. Len(xs)
      PROVE  i = N + 1 \/ i = N + 2 \/ (i - N - 2 \in 1 .. L /\ i = N + 2 + (i - N - 2))
  BY <1>1
<1>5. ASSUME NEW i \in A PROVE i \in {N + 1} \cup {N + 2 + j : j \in 1 .. L}
  <2>1. i \in N + 1 .. Len(xs) /\ i # N + 2
    BY <1>2, Zenon
  <2>2. QED
    BY <1>4, <2>1, Zenon
<1>6. ASSUME NEW i \in {N + 1} \cup {N + 2 + j : j \in 1 .. L} PROVE i \in A
  BY <1>2, <1>3, Zenon
<1>7. QED
  BY <1>5, <1>6, Zenon DEF Commands, NewIndices

(* The conjuncts of Extends, of n nodes before and the nodes `new', of which `added' are
   the commands. *)
ExtendsAs(r, old, literals, n, new, added) ==
  /\ r.ok /\ r.val.root = old.root
  /\ SubSeq(new, 2, n) = SubSeq(old.nodes, 2, n)
  /\ IsPrefix(old.nodes[1].children, new[1].children)
  /\ ToSet(new[1].children) = ToSet(old.nodes[1].children) \cup {i - 1 : i \in added}
  /\ \A i \in DOMAIN new : \A c \in ToSet(new[i].children) : c \in 0 .. Len(new) - 1
  /\ {new[i].name : i \in added} = {Word.server} \cup ToSet(literals)
  /\ \A i, j \in added : new[i].name = new[j].name => i = j
  /\ \A i \in added : new[i].name = Word.server =>
       /\ Len(new[i].children) = 1
       /\ LET arg == new[new[i].children[1] + 1]
          IN arg.name = Word.name /\ arg.suggestions = Word.ask_server

LEMMA Indices ==
  ASSUME NEW N \in Nat, NEW L \in Nat, NEW i \in 1 .. N + 2 + L
  PROVE  \/ i = 1 \/ i \in 2 .. N \/ i = N + 1 \/ i = N + 2
         \/ (i - N - 2 \in 1 .. L /\ i = N + 2 + (i - N - 2))
<1>1. i > N + 2 => i - N - 2 \in 1 .. L /\ i = N + 2 + (i - N - 2)
  OBVIOUS
<1>2. i = 1 \/ i \in 2 .. N \/ i = N + 1 \/ i = N + 2 \/ i > N + 2
  OBVIOUS
<1>3. QED
  BY <1>1, <1>2, Zenon

LEMMA TreeExtended ==
  ASSUME NEW t \in Trees, t.nodes[1].flags = 0, NEW N, NEW literals, NEW L,
         Placeable(t.nodes, N, literals, L), Literals(literals, MaxPacketSize + 3),
         NEW new, InjectedIs(new, t.nodes, literals, N, L)
  PROVE  Extends(Got([nodes |-> new, root |-> 0], <<>>), t, literals)
<1> DEFINE nodes == t.nodes
           r     == Got([nodes |-> new, root |-> 0], <<>>)
           M     == N + 2 + L
           added == Commands(new, N)
           old   == nodes[1].children
           pc    == ProxyChildren(N, literals)
<1>0. N \in Nat /\ N >= 1 /\ L \in Nat /\ L = Len(literals) /\ DOMAIN literals = 1 .. L
  BY Zenon DEF Placeable
<1>1. /\ N \in Nat /\ N = Len(nodes) /\ DOMAIN nodes = 1 .. N /\ N >= 1
      /\ L \in Nat /\ L = Len(literals) /\ DOMAIN literals = 1 .. L
      /\ \A i \in 1 .. N : IsNode(nodes[i], N)
  BY Zenon DEF Placeable
<1>2. /\ Len(new) = M
      /\ new[1] = RootNode(old \o pc)
      /\ \A i \in 2 .. N : new[i] = nodes[i]
      /\ new[N + 1] = ServerNode(N) /\ new[N + 2] = ArgumentNode
      /\ \A j \in 1 .. L : new[N + 2 + j] = LiteralNode(literals[j])
  BY Zenon DEF InjectedIs
<1>3. /\ old \in Seq(0 .. N - 1) /\ pc \in Seq(N .. N + 1 + L)
      /\ old \o pc \in Seq(0 .. N + 1 + L)
  BY ChildrenKnown, Zenon
<1>4. added = {N + 1} \cup {N + 2 + j : j \in 1 .. L}
  <2>1. N \in Nat /\ L \in Nat
    BY <1>1, Zenon
  <2>2. Commands(new, N) = NewIndices(N, L)
    BY <2>1, AddedAre, Zenon
  <2>3. QED
    BY <2>2, Zenon DEF NewIndices
<1>5. DOMAIN new = 1 .. M /\ \A i \in DOMAIN new : Plain(new[i])
  BY InjectedPlain, Zenon
<1>6. new[1].children = old \o pc
  <2> DEFINE c == old \o pc
  <2>1. new[1] = RootNode(c)
    BY <1>2, Zenon
  <2> HIDE DEF c
  <2>2. new[1].children = c
    BY <2>1, NewFields, SMT
  <2>3. QED
    BY <2>2, Zenon DEF c
<1>7. t.root = 0
  BY TreesTyped, Zenon
<1>8. r.ok /\ r.val.nodes = new /\ r.val.root = t.root
  <2> DEFINE y == [nodes |-> new, root |-> 0]
  <2>1. y.nodes = new /\ y.root = 0
    OBVIOUS
  <2> HIDE DEF y
  <2>2. r.ok /\ r.val = y
    BY GotParts, Zenon DEF y
  <2>3. QED
    BY <1>7, <2>1, <2>2, Zenon
<1> HIDE DEF nodes, r, added, old, pc
<1>9. SubSeq(new, 2, N) = SubSeq(nodes, 2, N)
  BY <1>1, <1>2, SameMiddle
<1>10. IsPrefix(old, old \o pc) /\ ToSet(old \o pc) = ToSet(old) \cup ToSet(pc)
  <2> DEFINE S == 0 .. N + 1 + L
  <2>1. old \in Seq(S) /\ pc \in Seq(S)
    <3>1. 0 .. N - 1 \subseteq S /\ N .. N + 1 + L \subseteq S
      BY <1>1
    <3> HIDE DEF S
    <3>2. QED
      BY <1>3, <3>1, SeqMore, Zenon
  <2> HIDE DEF S
  <2>2. QED
    BY <2>1, MoreChildren, Zenon
<1>11. ToSet(pc) = {i - 1 : i \in added}
  <2>1. /\ pc \in Seq(N .. N + 1 + L) /\ Len(pc) = L + 1 /\ pc[1] = N
        /\ \A j \in 1 .. L : pc[j + 1] = N + 1 + j
    <3>1. ProxyChildrenIs(ProxyChildren(N, literals), N, L)
      BY <1>0, ProxyChildrenAre, Zenon
    <3>2. QED
      BY <3>1, Zenon DEF pc, ProxyChildrenIs
  <2>2. DOMAIN pc = 1 .. L + 1
    BY <1>3, <2>1
  <2>3. ToSet(pc) = {pc[k] : k \in 1 .. L + 1}
    BY <2>2, Zenon DEF ToSet
  <2>4. ASSUME NEW x \in ToSet(pc) PROVE x \in {i - 1 : i \in added}
    <3>1. PICK k \in 1 .. L + 1 : x = pc[k]
      BY <2>3, Zenon
    <3>2. CASE k = 1
      <4>1. N + 1 \in added /\ x = (N + 1) - 1
        BY <1>1, <1>4, <2>1, <3>1, <3>2
      <4>2. QED
        BY <4>1, Zenon
    <3>3. CASE k # 1
      <4> DEFINE j == k - 1
      <4>1. j \in 1 .. L /\ j + 1 = k
        BY <1>1, <3>1, <3>3
      <4>2. x = N + 1 + j
        BY <2>1, <3>1, <4>1
      <4>3. N + 2 + j \in added
        BY <1>4, <4>1, Zenon
      <4>4. x = (N + 2 + j) - 1
        BY <1>1, <4>1, <4>2
      <4>5. QED
        BY <4>3, <4>4, Zenon
    <3>4. QED
      BY <3>2, <3>3, Zenon
  <2>5. ASSUME NEW i \in added PROVE i - 1 \in ToSet(pc)
    <3>1. CASE i = N + 1
      <4>1. 1 \in 1 .. L + 1 /\ i - 1 = pc[1]
        BY <1>1, <2>1, <3>1
      <4>2. QED
        BY <2>3, <4>1, Zenon
    <3>2. ASSUME NEW j \in 1 .. L, i = N + 2 + j PROVE i - 1 \in ToSet(pc)
      <4>1. j + 1 \in 1 .. L + 1 /\ i - 1 = pc[j + 1]
        BY <1>1, <2>1, <3>2
      <4>2. QED
        BY <2>3, <4>1, Zenon
    <3>3. QED
      BY <1>4, <3>1, <3>2, Zenon
  <2>6. \A x \in {i - 1 : i \in added} : x \in ToSet(pc)
    BY <2>5, Zenon
  <2>7. QED
    BY <2>4, <2>6, Zenon
<1>12. ToSet(new[1].children) = ToSet(old) \cup {i - 1 : i \in added}
  BY <1>6, <1>10, <1>11, Zenon
<1>13. ASSUME NEW S, NEW s \in Seq(S), NEW c \in ToSet(s) PROVE c \in S
  <2>1. PICK k \in DOMAIN s : c = s[k]
    BY <1>13, Zenon DEF ToSet
  <2>2. QED
    BY <2>1
<1>14. ASSUME NEW i \in DOMAIN new, NEW c \in ToSet(new[i].children)
       PROVE  c \in 0 .. Len(new) - 1
  <2>0. i \in 1 .. N + 2 + L
    BY <1>5, Zenon
  <2>1. i = 1 \/ i \in 2 .. N \/ i = N + 1 \/ i = N + 2 \/ (i - N - 2 \in 1 .. L /\ i = N + 2 + (i - N - 2))
    BY <1>0, <2>0, Indices, Zenon
  <2>2. CASE i = 1
    <3>1. c \in 0 .. N + 1 + L
      BY <1>3, <1>6, <1>13, <1>14, <2>2, Zenon
    <3>2. QED
      BY <1>1, <1>2, <3>1
  <2>3. CASE i \in 2 .. N
    <3>1. i \in 1 .. N
      BY <1>1, <2>3
    <3>2. new[i].children \in Seq(0 .. N - 1)
      BY <1>1, <1>2, <2>3, <3>1, Zenon DEF IsNode
    <3>3. c \in 0 .. N - 1
      BY <1>13, <1>14, <3>2, Zenon
    <3>4. QED
      BY <1>1, <1>2, <3>3
  <2>4. CASE i = N + 1
    <3>1. <<N + 1>> \in Seq({N + 1})
      OBVIOUS
    <3>2. new[i].children = <<N + 1>>
      BY <1>2, <2>4, NewFields, Zenon
    <3>3. c \in {N + 1}
      BY <1>13, <1>14, <3>1, <3>2, Zenon
    <3>4. QED
      BY <1>1, <1>2, <3>3
  <2>5. ASSUME new[i].children = <<>> PROVE FALSE
    <3>1. <<>> \in Seq({})
      OBVIOUS
    <3>2. c \in {}
      BY <1>13, <1>14, <2>5, <3>1, Zenon
    <3>3. QED
      BY <3>2, Zenon
  <2>6. i # N + 2
    BY <1>2, <2>5, NewFields, Zenon
  <2>7. ASSUME NEW j \in 1 .. L, i = N + 2 + j PROVE FALSE
    <3>1. new[i] = LiteralNode(literals[j])
      BY <1>2, <2>7, Zenon
    <3>2. new[i].children = <<>>
      BY <3>1, NewFields, SMT
    <3>3. QED
      BY <2>5, <3>2, Zenon
  <2>8. QED
    BY <2>1, <2>2, <2>3, <2>4, <2>6, <2>7, Zenon
<1>15. /\ new[N + 1].name = Word.server /\ \A j \in 1 .. L : new[N + 2 + j].name = literals[j]
  BY <1>2, NewFields, SMT
<1>16. {new[i].name : i \in added} = {Word.server} \cup ToSet(literals)
  <2>1. ToSet(literals) = {literals[j] : j \in 1 .. L}
    BY <1>1, Zenon DEF ToSet
  <2>2. ASSUME NEW i \in added PROVE new[i].name \in {Word.server} \cup ToSet(literals)
    BY <1>4, <1>15, <2>1, Zenon
  <2>3. N + 1 \in added /\ \A j \in 1 .. L : N + 2 + j \in added
    BY <1>4, Zenon
  <2>4. Word.server \in {new[i].name : i \in added}
    BY <1>15, <2>3, Zenon
  <2>5. ASSUME NEW j \in 1 .. L PROVE literals[j] \in {new[i].name : i \in added}
    BY <1>15, <2>3, Zenon
  <2>6. \A w \in {Word.server} \cup ToSet(literals) : w \in {new[i].name : i \in added}
    BY <2>1, <2>4, <2>5, Zenon
  <2>7. \A w \in {new[i].name : i \in added} : w \in {Word.server} \cup ToSet(literals)
    BY <2>2, Zenon
  <2>8. QED
    BY <2>6, <2>7, Zenon
<1>17. /\ \A j \in 1 .. L : literals[j] # Word.server
       /\ \A j, k \in 1 .. L : literals[j] = literals[k] => j = k
  BY <1>1, Zenon DEF Literals
<1>18. ASSUME NEW i \in added, new[i].name = Word.server PROVE i = N + 1
  <2>1. ASSUME NEW j \in 1 .. L, i = N + 2 + j PROVE FALSE
    BY <1>15, <1>17, <1>18, <2>1, Zenon
  <2>2. QED
    BY <1>4, <2>1, Zenon
<1>19. ASSUME NEW i \in added, NEW j \in added, new[i].name = new[j].name PROVE i = j
  <2>1. CASE i = N + 1
    <3>1. new[j].name = Word.server
      BY <1>15, <1>19, <2>1, Zenon
    <3>2. QED
      BY <1>18, <2>1, <3>1, Zenon
  <2>2. CASE j = N + 1
    <3>1. new[i].name = Word.server
      BY <1>15, <1>19, <2>2, Zenon
    <3>2. QED
      BY <1>18, <2>2, <3>1, Zenon
  <2>3. ASSUME NEW k \in 1 .. L, NEW l \in 1 .. L, i = N + 2 + k, j = N + 2 + l PROVE i = j
    <3>1. literals[k] = literals[l]
      BY <1>15, <1>19, <2>3, Zenon
    <3>2. QED
      BY <1>17, <2>3, <3>1, Zenon
  <2>4. QED
    BY <1>4, <2>1, <2>2, <2>3, Zenon
<1>20. ASSUME NEW i \in added, new[i].name = Word.server
       PROVE  /\ Len(new[i].children) = 1
              /\ LET arg == new[new[i].children[1] + 1]
                 IN arg.name = Word.name /\ arg.suggestions = Word.ask_server
  <2>1. i = N + 1
    BY <1>18, <1>20, Zenon
  <2>2. new[i].children = <<N + 1>>
    BY <1>2, <2>1, NewFields, Zenon
  <2>3. Len(new[i].children) = 1 /\ new[i].children[1] = N + 1
    BY <2>2
  <2>4. (N + 1) + 1 = N + 2
    BY <1>1
  <2>5. new[new[i].children[1] + 1] = ArgumentNode
    BY <1>2, <2>3, <2>4, Zenon
  <2>6. QED
    BY <2>3, <2>5, NewFields, Zenon
<1>21. ExtendsAs(r, t, literals, N, new, added)
  BY <1>6, <1>8, <1>9, <1>10, <1>12, <1>14, <1>16, <1>19, <1>20, Zenon DEF ExtendsAs, nodes, old
<1>22. Extends(r, t, literals)
  <2> DEFINE n == Len(t.nodes)
             w == r.val.nodes
  <2>1. Extends(r, t, literals) <=> ExtendsAs(r, t, literals, n, w, Commands(w, n))
    BY Zenon DEF Extends, ExtendsAs, Commands
  <2>2. n = N /\ w = new /\ Commands(w, n) = added
    BY <1>1, <1>8, Zenon DEF nodes, added
  <2>3. ExtendsAs(r, t, literals, n, w, Commands(w, n))
    BY <1>21, <2>2, Zenon
  <2>4. QED
    BY <2>1, <2>3, Zenon
<1>23. QED
  BY <1>22, Zenon DEF r


-----------------------------------------------------------------------------
(* What a run sends is a packet with a small id and bytes for its payload. *)
LEMMA WorldsPlaced == ASSUME NEW y \in Worlds PROVE Placed(y)
<1> DEFINE deaths == Opts({[dimension |-> Word.hub, position |-> Seed]})
           names  == {<<>>, <<Word.hub, Word.lobby>>}
           F == {FALSE}
           T == {TRUE}
<1>0. y \in [dimension : {2}, dimension_type : {Word.hub}, dimension_name : {Word.lobby},
             hashed_seed : {Seed}, gamemode : {1}, previous_gamemode : {-1, 0}, is_debug : F,
             is_flat : T, portal_cooldown : {300}, sea_level : {-1}, death : deaths,
             is_hardcore : F, dimension_names : names, max_players : {200},
             do_limited_crafting : T]
  BY DEF Worlds
<1>f. F \subseteq Bools /\ T \subseteq Bools
  BY TextsKnown, Zenon
<1>n. names \subseteq Words(Field, MaxDimensions)
  BY TextsKnown, Zenon
<1> HIDE DEF F, T, names, deaths
<1>1. /\ y.dimension \in {2} /\ y.gamemode \in {1} /\ y.previous_gamemode \in {-1, 0}
      /\ y.portal_cooldown \in {300} /\ y.sea_level \in {-1} /\ y.max_players \in {200}
  BY <1>0, SMT
<1>t. /\ y.dimension_type \in {Word.hub} /\ y.dimension_name \in {Word.lobby}
      /\ y.hashed_seed \in {Seed}
  BY <1>0, SMT
<1>d. y.death \in deaths /\ y.dimension_names \in names
  BY <1>0, SMT
<1>2. y.is_debug \in F /\ y.is_flat \in T /\ y.is_hardcore \in F /\ y.do_limited_crafting \in T
  BY <1>0, SMT
<1>3. /\ y.is_debug \in Bools /\ y.is_flat \in Bools /\ y.is_hardcore \in Bools
      /\ y.do_limited_crafting \in Bools
  BY <1>2, <1>f, Zenon
<1>4. deaths \subseteq Opts(Death)
  <2>1. Word.hub \in Field /\ Seed \in {s \in Str : Len(s) = 8}
    BY WordsKnown, ConstantsTyped, Zenon
  <2>2. [dimension |-> Word.hub, position |-> Seed] \in Death
    BY <2>1, SMT DEF Death
  <2>3. QED
    BY <2>2, Zenon DEF Opts, deaths
<1>5. y.death \in Opts(Death)
  BY <1>d, <1>4, Zenon
<1>6. y.dimension_names \in Words(Field, MaxDimensions)
  BY <1>d, <1>n, Zenon
<1>7. /\ y.dimension \in Int32 /\ y.gamemode \in Bytes /\ y.previous_gamemode \in -1 .. 127
      /\ y.portal_cooldown \in Int32 /\ y.sea_level \in Int32 /\ y.max_players \in Int32
  BY <1>1, NumbersKnown
<1>8. /\ y.dimension_type \in Field /\ y.dimension_name \in Field
      /\ y.hashed_seed \in Str /\ Len(y.hashed_seed) = 8
  BY <1>t, TextsKnown, Zenon
<1>9. y.dimension_names \in Seq(Field) /\ Len(y.dimension_names) <= MaxDimensions
  BY <1>6, Zenon DEF Words
<1>10. QED
  BY <1>3, <1>5, <1>7, <1>8, <1>9, Zenon DEF Placed

LEMMA Kinds ==
  ASSUME NEW x \in Sendable
  PROVE  /\ x \in Packets \/ (x.kind = "Login" /\ x.val \in Worlds)
              \/ (x.kind = "DeclareCommands" /\ x.val \in Trees)
         /\ x.kind \notin Rewritten => x \in Packets
<1>1. x \in Packets \/ x \in Of("Login", Worlds) \/ x \in Of("DeclareCommands", Trees)
  BY SendableTyped, Zenon
<1>2. x \in Of("Login", Worlds) => x.kind = "Login" /\ x.val \in Worlds
  BY SMT DEF Of
<1>3. x \in Of("DeclareCommands", Trees) => x.kind = "DeclareCommands" /\ x.val \in Trees
  BY SMT DEF Of
<1>4. QED
  BY <1>1, <1>2, <1>3, Zenon DEF Rewritten

LEMMA Written ==
  ASSUME NEW x \in Sendable, NEW v \in Versions, Exists(x, v)
  PROVE  \E id \in SmallIds, p \in Str :
           Encode(x, v) = RawPacket(id, p) /\ Len(p) <= MaxPacketSize - 11
<1>0. v \in Int
  BY VersionsAssumption, Zenon
<1>1. \E id \in SmallIds, p \in Str : Encode(x, v) = RawPacket(id, p)
  <2>1. CASE x \in Packets
    BY <1>0, <2>1, PacketsUnderstood, Zenon DEF Understood
  <2>2. CASE x.kind = "Login" /\ x.val \in Worlds
    <3>1. Encode(x, v) = WriteLogin(x.val, v)
      BY <2>2, SMT DEF Encode
    <3>2. Placed(x.val)
      BY <2>2, WorldsPlaced, Zenon
    <3>3. Only(is_login_play_packet(v)) \in SmallIds
      BY <1>0, SmallKnown, Zenon
    <3>4. QED
      BY <1>0, <3>1, <3>2, <3>3, LoginCat, Zenon
  <2>3. CASE x.kind = "DeclareCommands" /\ x.val \in Trees
    <3>1. Encode(x, v) = WriteTree(x.val, v)
      BY <2>3, SMT DEF Encode
    <3>2. v >= 393
      BY <2>3, Zenon DEF Exists
    <3>3. WriteTree(x.val, v) = RawPacket(Only(is_declare_commands_packet(v)), TreeBytes(x.val))
      BY Zenon DEF WriteTree, TreeBytes
    <3>4. Only(is_declare_commands_packet(v)) \in SmallIds
      BY <1>0, <3>2, SmallKnown, Zenon
    <3>5. TreeBytes(x.val) \in Str
      BY <2>3, TreeWritten, Zenon
    <3>6. QED
      BY <3>1, <3>3, <3>4, <3>5, Zenon
  <2>4. QED
    BY <2>1, <2>2, <2>3, Kinds, Zenon
<1>2. PICK id \in SmallIds, p \in Str : Encode(x, v) = RawPacket(id, p)
  BY <1>1, Zenon
<1>3. Len(Encode(x, v).payload) <= MaxPacketSize - 11
  BY SizesAssumption, Zenon
<1>4. Encode(x, v).payload = p
  BY <1>2, RawParts, Zenon
<1>5. Len(p) <= MaxPacketSize - 11
  BY <1>3, <1>4, Zenon
<1>6. QED
  BY <1>2, <1>5, Zenon

(* Such a packet gets through. *)
LEMMA FrameArrives ==
  ASSUME NEW id \in SmallIds, NEW b \in Str, Len(b) <= MaxPacketSize - 11,
         NEW t \in Thresholds \cup {<<>>}
  PROVE  read_packet_with_compression(
           encode_packet_with_compression(RawPacket(id, b), t), MaxPacketSize, t)
           = Got(RawPacket(id, b), <<>>)
<1> DEFINE p   == RawPacket(id, b)
           len == Len(Packed(p))
           e   == encode_packet_with_compression(p, t)
<1>1. id \in Int32
  BY DEF SmallIds, Int32
<1>2. p \in RawPackets /\ p.id = id /\ p.payload = b
  BY <1>1, RawParts, SMT DEF RawPackets, RawPacket, Str
<1>3. Packed(p) \in Str /\ len = varint_size(id) + Len(b) /\ varint_size(id) \in 1 .. 5
  BY <1>1, <1>2, PackedShape, SizeOfEncoded, Zenon DEF Str
<1> HIDE DEF p, e
<1>4. Len(b) \in Nat /\ len \in Nat /\ len <= MaxPacketSize - 6
  <2>1. Len(b) \in Nat
    BY DEF Str
  <2> DEFINE n == Len(b)
             k == varint_size(id)
  <2>2. n \in Nat /\ k \in 1 .. 5 /\ len = k + n /\ n <= MaxPacketSize - 11
    BY <1>3, <2>1, Zenon
  <2> HIDE DEF n, k, len
  <2>3. len \in Nat /\ len <= MaxPacketSize - 6
    BY <2>2 DEF MaxPacketSize
  <2>4. QED
    BY <2>1, <2>3, Zenon DEF len
<1>5. varint_size(len) \in 1 .. 5
  <2>1. len \in Int32
    BY <1>4 DEF Int32, MaxPacketSize
  <2>2. QED
    BY <2>1, SizeOfEncoded, Zenon
<1>6. Len(Compress(Packed(p))) = 1 + len
  BY <1>3 DEF Compress, Str
<1>7. BodyLength(p, t) <= MaxPacketSize
  <2> DEFINE k == varint_size(len)
             z == Len(Compress(Packed(p)))
  <2>1. BodyLength(p, t) = IF t = <<>> THEN len ELSE IF len < t[1] THEN 1 + len ELSE k + z
    BY Zenon DEF BodyLength
  <2>2. k \in 1 .. 5 /\ z = 1 + len
    BY <1>5, <1>6, Zenon
  <2> HIDE DEF k, z, len
  <2>3. QED
    BY <1>4, <2>1, <2>2 DEF MaxPacketSize
<1>8. MaxPacketSize \in Nat /\ MaxPacketSize <= MaxInt32
  BY DEF MaxPacketSize, MaxInt32
<1>9. len <= MaxPacketSize
  <2> HIDE DEF len
  <2>1. QED
    BY <1>4, <1>8
<1>a. e \in Str
  <2> DEFINE z == Compress(Packed(p))
             k == varint_size(len) + Len(z)
  <2>1. z \in Str
    BY <1>3 DEF Compress, Str, Bytes
  <2>2. len \in Int32 /\ 1 + len \in Int32 /\ 0 \in Int32 /\ k \in Int32
    <3> HIDE DEF len
    <3>1. QED
      BY <1>4, <1>5, <1>6 DEF Int32, MaxPacketSize
  <2>3. encode_varint(len) \in Str /\ encode_varint(1 + len) \in Str /\ encode_varint(0) \in Str
        /\ encode_varint(k) \in Str
    BY <2>2, VarIntShape, Zenon
  <2>4. e = IF t = <<>> THEN encode_varint(len) \o Packed(p)
            ELSE IF len < t[1] THEN encode_varint(1 + len) \o encode_varint(0) \o Packed(p)
            ELSE encode_varint(k) \o encode_varint(len) \o z
    BY <1>2, <1>3, Zenon DEF e, encode_packet_with_compression
  <2> HIDE DEF z, k, len
  <2>5. /\ encode_varint(len) \o Packed(p) \in Str
        /\ encode_varint(1 + len) \o encode_varint(0) \o Packed(p) \in Str
        /\ encode_varint(k) \o encode_varint(len) \o z \in Str
    BY <1>3, <2>1, <2>3, Cat, Cat3, Zenon
  <2>6. QED
    BY <2>4, <2>5, Zenon
<1>10. <<>> \in Seq(Bytes) /\ e \o <<>> = e
  BY <1>a, Empty, Zenon DEF Str
<1>11. \E k \in Nat : t \in {<<>>, <<k>>}
  BY ThresholdsAssumption
<1>12. read_packet_with_compression(e \o <<>>, MaxPacketSize, t) = Got(p, <<>>)
  BY <1>2, <1>7, <1>8, <1>9, <1>10, <1>11, FrameDelivered, Zenon DEF e
<1>13. QED
  BY <1>10, <1>12, Zenon DEF e, p

-----------------------------------------------------------------------------
(* Packets are identified as they were meant: the tables are cut into the bands of
   versions in which they are constant, and the bands are checked one by one. *)
(* The versions from 764 on, in bands the tables do not cut. *)
LEMMA Bands ==
  ASSUME NEW v \in Int, v >= Supported
  PROVE  v >= 776 \/ (v >= 768 /\ v < 776) \/ (v >= 766 /\ v < 768) \/ v = 765 \/ v = 764
  BY DEF Supported

(* The chain of handle_client_packet finds the meaning of a client's packet, as what
   it takes it. *)
LEMMA ClientChain ==
  ASSUME NEW v \in Int, v >= Supported,
         NEW p \in Packet, p.from = "client", WellFormed(p, v)
  PROVE  ClientEffects(p, v) = Meaning(TakenAs(p, v))
<1> DEFINE Id(k) == p.id \in ServerboundIds(k, v)
           taken == TakenAs(p, v).kind
<1>1. /\ p.id \in Int /\ p.kind \in ServerKinds /\ p.payload \in Payloads
      /\ p.taken \in BOOLEAN
  BY PacketIdsAssumption DEF Packet
<1>2. IF p.kind = "Other" THEN \A k \in ServerKinds \ {"Other"} : ~Id(k) ELSE Id(p.kind)
  BY <1>1 DEF WellFormed
<1>3. /\ TakenAs(p, v).from = p.from /\ TakenAs(p, v).payload = p.payload
      /\ TakenAs(p, v).taken = p.taken /\ taken \in ServerKinds
  BY <1>1 DEF TakenAs, Packet, ServerKinds
<1>4. /\ taken = "Command" <=> p.id \in is_command_packet(v) /\ p.id \notin is_chat_packet(v)
      /\ taken = "Chat" <=> p.id \in is_chat_packet(v)
      /\ taken = "TabComplete" <=> p.id \in is_tab_complete_request(v)
      /\ taken = "CloseContainer" <=> p.id \in is_serverbound_close_container_packet(v)
      /\ taken = "Chat" => p.id \in is_command_packet(v)
  <2> USE DEF ServerKinds, ServerboundIds, SERVERBOUND_CHAT_COMMAND_PACKET_ID,
          SERVERBOUND_CHAT_MESSAGE_PACKET_ID, is_command_packet, is_chat_packet,
          is_tab_complete_request, is_serverbound_close_container_packet
  <2>1. CASE v < 766
    <3>1. v = 765 \/ v = 764
      BY <2>1 DEF Supported
    <3>2. taken = IF p.kind = "Chat" THEN "Command" ELSE IF p.id = 6 THEN "Chat" ELSE p.kind
      BY <2>1 DEF TakenAs, Packet
    <3>3. /\ is_command_packet(v) = {4, 5, 6} /\ is_chat_packet(v) = {6}
          /\ is_tab_complete_request(v) = {10}
          /\ is_serverbound_close_container_packet(v) = {14}
      BY <3>1
    <3>4. /\ Id("Command") <=> p.id = 4
          /\ Id("Chat") <=> p.id = 5
          /\ Id("TabComplete") <=> p.id = 10
          /\ Id("CloseContainer") <=> p.id = 14
      BY <2>1, <3>3
    <3> HIDE DEF Id, taken, is_command_packet, is_chat_packet, is_tab_complete_request,
             is_serverbound_close_container_packet
    <3>5. /\ p.kind = "Command" <=> p.id = 4
          /\ p.kind = "Chat" <=> p.id = 5
          /\ p.kind = "TabComplete" <=> p.id = 10
          /\ p.kind = "CloseContainer" <=> p.id = 14
      BY <1>1, <1>2, <3>4
    <3> QED
      BY <1>1, <3>2, <3>3, <3>5
  <2>2. CASE v >= 766
    <3>1. taken = p.kind
      BY <2>2 DEF TakenAs, Packet
    <3>2. \A k, l \in ServerKinds \ {"Other"} : Id(k) /\ Id(l) => k = l
      BY Bands, <1>1, <2>2
    <3>3. /\ Id("Command") <=> p.id \in is_command_packet(v) /\ p.id \notin is_chat_packet(v)
          /\ Id("Chat") <=> p.id \in is_chat_packet(v)
          /\ Id("Chat") => p.id \in is_command_packet(v)
          /\ Id("TabComplete") <=> p.id \in is_tab_complete_request(v)
          /\ Id("CloseContainer") <=> p.id \in is_serverbound_close_container_packet(v)
      BY Bands, <1>1, <2>2
    <3>4. {"Command", "Chat", "TabComplete", "CloseContainer"} \subseteq ServerKinds \ {"Other"}
      OBVIOUS
    <3> HIDE DEF Id, ServerKinds
    <3>5. \A k \in ServerKinds \ {"Other"} : Id(k) <=> p.kind = k
      BY <1>1, <1>2, <3>2, Zenon
    <3> QED
      BY <3>1, <3>3, <3>4, <3>5
  <2> QED
    BY <2>1, <2>2
<1> HIDE DEF taken
<1>5. Meaning(TakenAs(p, v)) =
        IF p.payload = "protected" THEN {}
        ELSE LET decodes == p.payload \in {"slash", "plain"}
                 script  == decodes /\ (taken = "Command" \/ (taken = "Chat" /\ p.payload = "slash"))
                 suggest == decodes /\ taken = "TabComplete"
             IN When(script, "script") \cup When(suggest, "suggest")
                  \cup When(taken = "CloseContainer", "untrack_window")
                  \cup When(~(p.taken /\ (script \/ suggest)), "forward")
  BY <1>3 DEF Meaning, ClientMeaning, taken
<1>6. QED
  BY <1>1, <1>3, <1>4, <1>5 DEF ClientEffects, When, ServerKinds, Payloads

(* The chain of handle_backend_packet finds the meaning of a backend's packet. *)
LEMMA BackendChain ==
  ASSUME NEW v \in Int, v >= Supported,
         NEW p \in Packet, p.from = "backend", WellFormed(p, v)
  PROVE  BackendEffects(p, v) = Meaning(p)
<1> DEFINE Id(k) == p.id \in ClientboundIds(k, v)
<1>1. p.id \in Int /\ p.kind \in ClientKinds /\ p.payload \in Payloads
  BY PacketIdsAssumption DEF Packet
<1>2. IF p.kind = "Other" THEN \A k \in ClientKinds \ {"Other"} : ~Id(k) ELSE Id(p.kind)
  BY <1>1 DEF WellFormed
<1>3. /\ Id("OpenWindow") <=> p.id \in is_open_window_packet(v)
      /\ Id("CloseContainer") <=> p.id \in CloseContainerId(v)
      /\ Id("Sound") <=> p.id \in is_sound_packet(v)
      /\ Id("StopSound") <=> p.id \in StopSoundId(v)
      /\ Id("BossBar") <=> p.id \in BossBarId(v)
      /\ Id("Objective") <=> p.id \in ScoreboardObjectiveId(v)
      /\ Id("DisplaySlot") <=> p.id \in DisplayObjectiveId(v)
      /\ Id("Disconnect") <=> p.id \in is_disconnect
      /\ Id("Login") <=> p.id \in is_login_play_packet(v)
      /\ Id("DeclareCommands") <=> p.id \in is_declare_commands_packet(v)
  BY DEF ClientboundIds
<1>4. \A k, l \in ClientKinds \ {"Other"} : Id(k) /\ Id(l) => k = l
  BY Bands, <1>1 DEF ClientKinds, ClientboundIds, is_open_window_packet, CloseContainerId,
       is_sound_packet, StopSoundId, BossBarId, ScoreboardObjectiveId, DisplayObjectiveId,
       is_disconnect, is_login_play_packet, is_declare_commands_packet
<1> HIDE DEF Id
<1>5. \A k \in ClientKinds \ {"Other"} : Id(k) <=> p.kind = k
  BY <1>1, <1>2, <1>4, Zenon
<1>6. /\ p.id \in is_open_window_packet(v) <=> p.kind = "OpenWindow"
      /\ p.id \in CloseContainerId(v) <=> p.kind = "CloseContainer"
      /\ p.id \in is_sound_packet(v) <=> p.kind = "Sound"
      /\ p.id \in StopSoundId(v) <=> p.kind = "StopSound"
      /\ p.id \in BossBarId(v) <=> p.kind = "BossBar"
      /\ p.id \in ScoreboardObjectiveId(v) <=> p.kind = "Objective"
      /\ p.id \in DisplayObjectiveId(v) <=> p.kind = "DisplaySlot"
      /\ p.id \in is_disconnect <=> p.kind = "Disconnect"
      /\ p.id \in is_login_play_packet(v) <=> p.kind = "Login"
      /\ p.id \in is_declare_commands_packet(v) <=> p.kind = "DeclareCommands"
  BY <1>3, <1>5 DEF ClientKinds
<1>7. CASE p.payload = "protected"
  BY <1>7 DEF BackendEffects, Meaning
<1>8. CASE p.payload # "protected"
  <2>1. Meaning(p) = BackendMeaning(p)
    BY <1>8 DEF Meaning
  <2>2. CASE p.kind = "OpenWindow"
    BY <1>6, <1>8, <2>1, <2>2 DEF BackendEffects, BackendMeaning, When
  <2>3. CASE p.kind = "CloseContainer"
    BY <1>6, <1>8, <2>1, <2>3 DEF BackendEffects, BackendMeaning, When
  <2>4. CASE p.kind = "Sound"
    BY <1>6, <1>8, <2>1, <2>4 DEF BackendEffects, BackendMeaning, When
  <2>5. CASE p.kind = "StopSound"
    BY <1>6, <1>8, <2>1, <2>5 DEF BackendEffects, BackendMeaning, When
  <2>6. CASE p.kind = "BossBar"
    BY <1>6, <1>8, <2>1, <2>6 DEF BackendEffects, BackendMeaning, When
  <2>7. CASE p.kind = "Objective"
    BY <1>6, <1>8, <2>1, <2>7 DEF BackendEffects, BackendMeaning, When
  <2>8. CASE p.kind = "DisplaySlot"
    BY <1>6, <1>8, <2>1, <2>8 DEF BackendEffects, BackendMeaning, When
  <2>9. CASE p.kind = "Disconnect"
    BY <1>6, <1>8, <2>1, <2>9 DEF BackendEffects, BackendMeaning, When
  <2>10. CASE p.kind = "Login"
    BY <1>6, <1>8, <2>1, <2>10 DEF BackendEffects, BackendMeaning, When
  <2>11. CASE p.kind = "DeclareCommands"
    BY <1>6, <1>8, <2>1, <2>11 DEF BackendEffects, BackendMeaning, When
  <2>12. CASE p.kind = "Other"
    BY <1>6, <1>8, <2>1, <2>12 DEF BackendEffects, BackendMeaning, When
  <2>13. QED
    BY <1>1, <2>2, <2>3, <2>4, <2>5, <2>6, <2>7, <2>8, <2>9, <2>10, <2>11, <2>12 DEF ClientKinds
<1>9. QED
  BY <1>7, <1>8

(* The ids of the packets the proxy makes up, against those of the kinds it reads. *)
LEMMA OwnIds ==
  ASSUME NEW v \in Int, v >= Supported
  PROVE  /\ RespawnId(v) # SystemChatId(v) /\ RespawnId(v) # TabCompleteResponseId(v)
         /\ SystemChatId(v) # TabCompleteResponseId(v)
         /\ \A k \in ClientKinds \ {"Other"} :
              ClientboundIds(k, v)
                \cap {RespawnId(v), SystemChatId(v), TabCompleteResponseId(v)} = {}
  BY Bands DEF ClientKinds, ClientboundIds, is_open_window_packet, CloseContainerId,
       is_sound_packet, StopSoundId, BossBarId, ScoreboardObjectiveId, DisplayObjectiveId,
       is_disconnect, is_login_play_packet, is_declare_commands_packet, RespawnId,
       SystemChatId, TabCompleteResponseId

(* The version of a session is one of Versions and never changes. *)
LEMMA VersionFixed == Spec => [](protocol_version \in Versions)
<1>1. Init => protocol_version \in Versions
  BY DEF Init
<1>2. protocol_version \in Versions /\ [Next]_vars => (protocol_version \in Versions)'
  BY DEF Next, HandleClient, HandleBackend, Shutdown, Again, Ended, vars
<1>3. QED
  BY <1>1, <1>2, PTL DEF Spec

(* The codec changes nothing that the dispatch of packets relies on. *)
LEMMA CodecKeepsDispatch == CodecSpec => Spec
<1>1. CodecInit => Init
  BY DEF CodecInit
<1>2. [CodecNext]_codecVars => [Next]_vars
  BY DEF CodecNext, codecVars, vars, Send, Receive, Done
<1>3. QED
  BY <1>1, <1>2, PTL DEF CodecSpec, Spec

(* In every supported version, for every packet id there may be, handle_client_packet
   and handle_backend_packet do with a packet what its sender meant by it: no two of
   their tests claim one id.  Only the chat of 764 and 765 is handled as something
   else, and the packets of their id 0x06 as chat. *)
THEOREM MeaningsKept == CodecSpec => []OneRole
<1>1. Init => OneRole
  BY DEF Init, OneRole, None
<1>2. protocol_version \in Versions /\ OneRole /\ [Next]_vars => OneRole'
  <2> SUFFICES ASSUME protocol_version \in Versions, OneRole, [Next]_vars
               PROVE  OneRole'
    OBVIOUS
  <2>1. ASSUME NEW p \in Packet, HandleClient(p)
        PROVE  OneRole'
    BY <2>1, ClientChain, VersionsAssumption DEF HandleClient, OneRole
  <2>2. ASSUME NEW p \in Packet, HandleBackend(p)
        PROVE  OneRole'
    <3>1. TakenAs(p, protocol_version) = p
      BY <2>2 DEF HandleBackend, TakenAs, Packet
    <3> QED
      BY <2>2, <3>1, BackendChain, VersionsAssumption DEF HandleBackend, OneRole
  <2>3. CASE Shutdown
    BY <2>3 DEF Shutdown, OneRole
  <2>4. CASE Again
    BY <2>4 DEF Again, OneRole, None
  <2>5. CASE UNCHANGED vars
    BY <2>5 DEF vars, OneRole
  <2>6. QED
    BY <2>1, <2>2, <2>3, <2>4, <2>5 DEF Next, Ended
<1>3. QED
  BY <1>1, <1>2, VersionFixed, CodecKeepsDispatch, PTL DEF Spec

(* In every supported version, the Respawn, SystemChat and suggestion packets of the
   proxy have ids of their own. *)
THEOREM OwnPacketsTold == CodecSpec => []OwnPacketsDistinct
<1>1. protocol_version \in Versions => OwnPacketsDistinct
  BY OwnIds, VersionsAssumption DEF OwnPacketsDistinct
<1>2. QED
  BY <1>1, VersionFixed, CodecKeepsDispatch, PTL

-----------------------------------------------------------------------------
(* The packet w carries in version v: what was sent, or as much of it as was written. *)
Carried(w, v) ==
  /\ w.sent \in Sendable /\ Exists(w.sent, v)
  /\ \E n \in Nat :
       LET full == Encode(w.sent, v)
       IN /\ n <= Len(full.payload) /\ (w.cut <=> n < Len(full.payload))
          /\ w.raw = RawPacket(full.id, SubSeq(full.payload, 1, n))

(* The inductive invariant: a frame on the wire holds the packet that was carried, and
   what a reader made of it is what the decoder makes of that packet. *)
OnWire(w, v) ==
  \/ w = Idle
  \/ /\ w.at = "sent" /\ Carried(w, v) /\ w.threshold \in Thresholds \cup {<<>>}
     /\ w.bytes = encode_packet_with_compression(w.raw, w.threshold)
  \/ /\ w.at = "received" /\ Carried(w, v) /\ w.arrived = Got(w.raw, <<>>)
     /\ w.read = Decode(w.sent.kind, w.raw, v)

CodecInv == protocol_version \in Versions /\ OnWire(wire, protocol_version)

LEMMA Cuts ==
  ASSUME NEW p \in Str, NEW n \in Nat, n <= Len(p)
  PROVE  LET b == SubSeq(p, 1, n)
             m == SubSeq(p, n + 1, Len(p))
         IN b \in Str /\ m \in Str /\ b \o m = p /\ Len(b) = n /\ (n < Len(p) <=> m # <<>>)
<1> DEFINE b == SubSeq(p, 1, n)
           m == SubSeq(p, n + 1, Len(p))
<1>1. p \in Seq(Bytes) /\ Len(p) \in Nat
  BY LenProperties DEF Str
<1>2. b \in Seq(Bytes) /\ Len(b) = n /\ \A i \in 1 .. n : b[i] = p[i]
  BY <1>1, SMT
<1>3. m \in Seq(Bytes) /\ Len(m) = Len(p) - n /\ \A i \in 1 .. Len(p) - n : m[i] = p[n + i]
  BY <1>1, SMT
<1>4. b \o m = p
  <2>1. b \o m \in Seq(Bytes) /\ Len(b \o m) = Len(p)
    <3> HIDE DEF b, m
    <3>1. b \o m \in Seq(Bytes) /\ Len(b \o m) = Len(b) + Len(m)
      BY <1>2, <1>3, ConcatProperties, Zenon
    <3>2. QED
      BY <1>1, <1>2, <1>3, <3>1
  <2>2. ASSUME NEW i \in 1 .. Len(p) PROVE (b \o m)[i] = p[i]
    <3> HIDE DEF b, m
    <3>1. (b \o m)[i] = IF i <= n THEN b[i] ELSE m[i - n]
      BY <1>1, <1>2, <1>3, SMT
    <3>2. QED
      BY <1>1, <1>2, <1>3, <3>1
  <2> HIDE DEF b, m
  <2>3. QED
    BY <1>1, <2>1, <2>2, SeqEqual
<1>5. n < Len(p) <=> m # <<>>
  <2> HIDE DEF m
  <2>1. QED
    BY <1>1, <1>3, EmptySeq
<1>6. QED
  BY <1>2, <1>3, <1>4, <1>5, Zenon DEF Str

(* A carried packet, taken apart. *)
CarriedAs(w, v, id, p, b, m) ==
  /\ Encode(w.sent, v) = RawPacket(id, p) /\ w.raw = RawPacket(id, b) /\ b \o m = p
  /\ Len(b) <= MaxPacketSize - 11 /\ (w.cut <=> m # <<>>)

LEMMA CarriedParts ==
  ASSUME NEW w, NEW v \in Versions, Carried(w, v)
  PROVE  \E id \in SmallIds, p \in Str, b \in Str, m \in Str : CarriedAs(w, v, id, p, b, m)
<1>1. w.sent \in Sendable /\ Exists(w.sent, v)
  BY Zenon DEF Carried
<1>2. PICK id \in SmallIds, p \in Str :
        Encode(w.sent, v) = RawPacket(id, p) /\ Len(p) <= MaxPacketSize - 11
  BY <1>1, Written, Zenon
<1>3. Encode(w.sent, v).id = id /\ Encode(w.sent, v).payload = p
  BY <1>2, RawParts, Zenon
<1>4. PICK n \in Nat : /\ n <= Len(p) /\ (w.cut <=> n < Len(p))
                       /\ w.raw = RawPacket(id, SubSeq(p, 1, n))
  BY <1>3, Zenon DEF Carried
<1> DEFINE b == SubSeq(p, 1, n)
           m == SubSeq(p, n + 1, Len(p))
<1>5. b \in Str /\ m \in Str /\ b \o m = p /\ Len(b) = n /\ (n < Len(p) <=> m # <<>>)
  BY <1>4, Cuts, Zenon
<1> HIDE DEF b, m
<1>6. Len(b) <= MaxPacketSize - 11
  <2> DEFINE k == Len(p)
  <2>1. k \in Nat /\ n <= k /\ k <= MaxPacketSize - 11
    BY <1>2, <1>4, LenProperties DEF Str
  <2> HIDE DEF k
  <2>2. n <= MaxPacketSize - 11
    BY <2>1 DEF MaxPacketSize
  <2>3. QED
    BY <1>5, <2>2, Zenon
<1>7. (w.cut <=> m # <<>>)
  BY <1>4, <1>5, Zenon
<1>8. CarriedAs(w, v, id, p, b, m)
  BY <1>2, <1>4, <1>5, <1>6, <1>7, Zenon DEF CarriedAs, b
<1>9. QED
  BY <1>5, <1>8, Zenon

LEMMA IsGot == ASSUME NEW r, NEW y, NEW s, r = Got(y, s) PROVE r.ok /\ r.val = y
BY SMT DEF Got

LEMMA SendWrites ==
  ASSUME NEW x \in Sendable, NEW n \in Nat, NEW t \in Thresholds \cup {<<>>}, Send(x, n, t)
  PROVE  OnWire(wire', protocol_version) /\ protocol_version' = protocol_version
<1> DEFINE v    == protocol_version
           full == Encode(x, v)
           raw  == RawPacket(full.id, SubSeq(full.payload, 1, n))
           cut  == n < Len(full.payload)
           e    == encode_packet_with_compression(raw, t)
<1>1. /\ wire' = [at |-> "sent", sent |-> x, threshold |-> t, cut |-> cut, raw |-> raw,
                  bytes |-> e]
      /\ Exists(x, v) /\ n <= Len(full.payload) /\ v' = v
  BY Zenon DEF Send
<1> HIDE DEF e, cut, raw
<1>2. /\ wire'.at = "sent" /\ wire'.sent = x /\ wire'.threshold = t /\ wire'.raw = raw
      /\ wire'.bytes = e
  BY <1>1, SMT
<1>3. wire'.cut <=> cut
  BY <1>1, Zenon
<1>4. Carried(wire', v)
  <2>1. /\ wire'.raw = RawPacket(full.id, SubSeq(full.payload, 1, n))
        /\ wire'.cut <=> n < Len(full.payload)
    BY <1>2, <1>3, Zenon DEF raw, cut
  <2> HIDE DEF full
  <2>2. QED
    BY <1>1, <1>2, <2>1, Zenon DEF Carried, full
<1>5. wire'.bytes = encode_packet_with_compression(wire'.raw, wire'.threshold)
  BY <1>2, Zenon DEF e
<1>6. QED
  BY <1>1, <1>2, <1>4, <1>5, Zenon DEF OnWire

LEMMA ReceiveReads ==
  ASSUME CodecInv, Receive
  PROVE  OnWire(wire', protocol_version) /\ protocol_version' = protocol_version
<1> DEFINE v == protocol_version
           r == read_packet_with_compression(wire.bytes, MaxPacketSize, wire.threshold)
           d == IF r.ok THEN Decode(wire.sent.kind, r.val, v) ELSE Failed
<1>1. /\ wire' = [at |-> "received", sent |-> wire.sent, cut |-> wire.cut, raw |-> wire.raw,
                  arrived |-> r, read |-> d]
      /\ wire.at = "sent" /\ v' = v
  BY Zenon DEF Receive
<1>2. /\ Carried(wire, v) /\ wire.threshold \in Thresholds \cup {<<>>}
      /\ wire.bytes = encode_packet_with_compression(wire.raw, wire.threshold)
  <2>1. wire # Idle /\ wire.at # "received"
    BY <1>1 DEF Idle
  <2>2. OnWire(wire, v)
    BY Zenon DEF CodecInv
  <2>3. QED
    BY <2>1, <2>2, Zenon DEF OnWire
<1>3. v \in Versions
  BY Zenon DEF CodecInv
<1>4. PICK id \in SmallIds, p \in Str, b \in Str, m \in Str : CarriedAs(wire, v, id, p, b, m)
  BY <1>2, <1>3, CarriedParts, Zenon
<1>5. wire.raw = RawPacket(id, b) /\ Len(b) <= MaxPacketSize - 11
  BY <1>4, Zenon DEF CarriedAs
<1>6. r = Got(wire.raw, <<>>)
  BY <1>2, <1>5, FrameArrives, Zenon
<1> HIDE DEF r
<1>7. d = Decode(wire.sent.kind, wire.raw, v)
  <2>1. r.ok /\ r.val = wire.raw
    BY <1>6, IsGot, Zenon
  <2>2. QED
    BY <2>1, Zenon
<1> HIDE DEF d
<1>8. /\ wire'.at = "received" /\ wire'.sent = wire.sent /\ wire'.raw = wire.raw
      /\ wire'.arrived = r /\ wire'.read = d
  BY <1>1, SMT
<1>9. wire'.cut <=> wire.cut
  BY <1>1, Zenon
<1>10. Carried(wire', v)
  BY <1>2, <1>8, <1>9, Zenon DEF Carried
<1>11. QED
  BY <1>1, <1>6, <1>7, <1>8, <1>10, Zenon DEF OnWire

LEMMA CodecInvariant == CodecSpec => []CodecInv
<1>1. CodecInit => CodecInv
  BY Zenon DEF CodecInit, Init, CodecInv, OnWire
<1>2. ASSUME CodecInv, [CodecNext]_codecVars PROVE CodecInv'
  <2> DEFINE v == protocol_version
  <2>0. v \in Versions /\ OnWire(wire, v)
    BY <1>2, Zenon DEF CodecInv
  <2>1. CASE wire = Idle /\ Next /\ UNCHANGED wire
    <3>1. v' = v
      BY <2>1 DEF Next, HandleClient, HandleBackend, Shutdown, Again, Ended, vars
    <3>2. wire' = wire
      BY <2>1, Zenon
    <3>3. QED
      BY <2>0, <3>1, <3>2, Zenon DEF CodecInv
  <2>2. CASE \E x \in Sendable, t \in Thresholds : Send(x, Complete(x), t)
    <3>1. PICK x \in Sendable, t \in Thresholds : Send(x, Complete(x), t)
      BY <2>2, Zenon
    <3>2. Exists(x, v)
      BY <3>1, Zenon DEF Send
    <3>3. \E id \in SmallIds, p \in Str : Encode(x, v) = RawPacket(id, p)
      BY <2>0, <3>2, Written, Zenon
    <3>4. Encode(x, v).payload \in Str
      BY <3>3, RawParts, Zenon
    <3>5. Complete(x) \in Nat
      BY <3>4, Empty, Cat, Zenon DEF Complete
    <3>6. OnWire(wire', v) /\ v' = v
      BY <3>1, <3>5, SendWrites, Zenon
    <3>7. QED
      BY <2>0, <3>6, Zenon DEF CodecInv
  <2>3. CASE \E x \in Sendable : x.kind # "DeclareCommands"
                                 /\ \E n \in 0 .. Complete(x) - 1 : Send(x, n, <<>>)
    <3>1. PICK x \in Sendable : \E n \in 0 .. Complete(x) - 1 : Send(x, n, <<>>)
      BY <2>3, Zenon
    <3>2. PICK n \in 0 .. Complete(x) - 1 : Send(x, n, <<>>)
      BY <3>1, Zenon
    <3>3. n \in Nat
      OBVIOUS
    <3>4. OnWire(wire', v) /\ v' = v
      BY <3>2, <3>3, SendWrites, Zenon
    <3>5. QED
      BY <2>0, <3>4, Zenon DEF CodecInv
  <2>4. CASE Receive
    BY <1>2, <2>0, <2>4, ReceiveReads, Zenon DEF CodecInv
  <2>5. CASE Done
    BY <2>0, <2>5, Zenon DEF Done, CodecInv, OnWire
  <2>6. CASE UNCHANGED codecVars
    BY <2>0, <2>6, Zenon DEF codecVars, CodecInv
  <2>7. QED
    BY <1>2, <2>1, <2>2, <2>3, <2>4, <2>5, <2>6, Zenon DEF CodecNext
<1>3. QED
  BY <1>1, <1>2, PTL DEF CodecSpec

(* What has been received. *)
LEMMA Arrived ==
  ASSUME CodecInv, wire.at = "received"
  PROVE  /\ protocol_version \in Versions /\ Carried(wire, protocol_version)
         /\ wire.arrived = Got(wire.raw, <<>>)
         /\ wire.read = Decode(wire.sent.kind, wire.raw, protocol_version)
<1>1. wire # Idle /\ wire.at # "sent"
  BY SMT DEF Idle
<1>2. QED
  BY <1>1, Zenon DEF CodecInv, OnWire

(* read_packet_with_compression hands over the packet that
   encode_packet_with_compression was given, complete or cut short, at every threshold:
   no length that the writer states differs from the one the reader counts. *)
THEOREM FramesAreDelivered == CodecSpec => []FramesDelivered
<1>1. CodecInv => FramesDelivered
  BY Arrived, Zenon DEF FramesDelivered
<1>2. QED
  BY <1>1, CodecInvariant, PTL

(* What the decoder makes of a packet that is not rewritten. *)
LEMMA Decoded ==
  ASSUME CodecInv, wire.at = "received", wire.sent.kind \notin Rewritten
  PROVE  \E m \in Str :
           /\ (wire.cut <=> m # <<>>)
           /\ Readable(wire.sent, protocol_version, m) =>
                Fits(wire.read, Expected(wire.sent, protocol_version), wire.sent.kind, m)
<1> DEFINE v == protocol_version
           x == wire.sent
<1>1. v \in Versions /\ Carried(wire, v) /\ wire.read = Decode(x.kind, wire.raw, v)
  BY Arrived, Zenon
<1>2. PICK id \in SmallIds, p \in Str, b \in Str, m \in Str : CarriedAs(wire, v, id, p, b, m)
  BY <1>1, CarriedParts, Zenon
<1>3. /\ Encode(x, v) = RawPacket(id, p) /\ wire.raw = RawPacket(id, b) /\ b \o m = p
      /\ (wire.cut <=> m # <<>>)
  BY <1>2, Zenon DEF CarriedAs
<1>4. x \in Packets /\ v \in Int
  BY <1>1, Kinds, VersionsAssumption, Zenon DEF Carried
<1>5. Understood(x, v)
  BY <1>4, PacketsUnderstood, Zenon
<1>6. PICK i \in SmallIds, q \in Str :
        /\ Encode(x, v) = RawPacket(i, q)
        /\ \A c, d \in Str : c \o d = q /\ Readable(x, v, d) =>
             Fits(Decode(x.kind, RawPacket(i, c), v), Expected(x, v), x.kind, d)
  BY <1>5, Zenon DEF Understood
<1>7. i = id /\ q = p
  <2>1. RawPacket(i, q) = RawPacket(id, p)
    BY <1>3, <1>6, Zenon
  <2>2. QED
    BY <2>1, SMT DEF RawPacket
<1>8. Readable(x, v, m) => Fits(wire.read, Expected(x, v), x.kind, m)
  BY <1>1, <1>3, <1>6, <1>7, Zenon
<1>9. QED
  BY <1>3, <1>8, Zenon

(* In every version and for all field values the runs send, what one end encodes the
   other end decodes as the same packet; LoginSuccess from 707 to 758 is the exception. *)
THEOREM PacketsComeBack == CodecSpec => []RoundTrip
<1>1. ASSUME CodecInv, wire.at = "received", ~wire.cut, wire.sent.kind \notin Rewritten,
             ~(wire.sent.kind = "LoginSuccess" /\ protocol_version \in 707 .. 758)
      PROVE  wire.read.ok /\ wire.read.val = Expected(wire.sent, protocol_version)
  <2> DEFINE e == Expected(wire.sent, protocol_version)
  <2>1. PICK m \in Str : /\ (wire.cut <=> m # <<>>)
                         /\ Readable(wire.sent, protocol_version, m) =>
                              Fits(wire.read, e, wire.sent.kind, m)
    BY <1>1, Decoded, Zenon
  <2>2. m = <<>>
    BY <1>1, <2>1, Zenon
  <2>3. Readable(wire.sent, protocol_version, m)
    BY <1>1, <2>2, Zenon DEF Readable
  <2>4. Fits(wire.read, e, wire.sent.kind, m)
    BY <2>1, <2>3, Zenon
  <2>5. PICK t : wire.read = Got(e, t)
    BY <2>2, <2>4, Zenon DEF Fits
  <2>6. QED
    BY <2>5, IsGot, Zenon
<1>2. CodecInv => RoundTrip
  BY <1>1, Zenon DEF RoundTrip
<1>3. QED
  BY <1>2, CodecInvariant, PTL

(* What the receiver makes of a chat message that stops short. *)
LEMMA ChatCarried ==
  ASSUME CodecInv, wire.at = "received", wire.cut, wire.sent.kind = "SystemChat"
  PROVE  /\ ChatCut(wire.read, wire.sent.val, protocol_version)
         /\ Expected(wire.sent, protocol_version) = wire.sent.val
         /\ DOMAIN wire.sent.val = {"message", "overlay"}
<1> DEFINE v == protocol_version
           x == wire.sent
<1>1. v \in Versions /\ Carried(wire, v) /\ wire.read = Decode(x.kind, wire.raw, v)
  BY Arrived, Zenon
<1>2. PICK id \in SmallIds, p \in Str, b \in Str, m \in Str : CarriedAs(wire, v, id, p, b, m)
  BY <1>1, CarriedParts, Zenon
<1>3. /\ Encode(x, v) = RawPacket(id, p) /\ wire.raw = RawPacket(id, b) /\ b \o m = p /\ m # <<>>
  BY <1>2, Zenon DEF CarriedAs
<1>4. x \in Packets /\ v \in Int
  <2>1. x.kind \notin Rewritten
    BY DEF Rewritten
  <2>2. QED
    BY <1>1, <2>1, Kinds, VersionsAssumption, Zenon DEF Carried
<1>5. CutChatSeen(x, v)
  BY <1>4, PacketsUnderstood, Zenon
<1>6. PICK i \in SmallIds, q \in Str :
        /\ Encode(x, v) = RawPacket(i, q)
        /\ \A c, d \in Str : c \o d = q /\ d # <<>> =>
             ChatCut(Decode(x.kind, RawPacket(i, c), v), x.val, v)
  BY <1>5, Zenon DEF CutChatSeen
<1>7. i = id /\ q = p
  <2>1. RawPacket(i, q) = RawPacket(id, p)
    BY <1>3, <1>6, Zenon
  <2>2. QED
    BY <2>1, SMT DEF RawPacket
<1>8. ChatCut(wire.read, x.val, v)
  BY <1>1, <1>3, <1>6, <1>7, Zenon
<1>9. x \in SystemChatPackets
  BY <1>4, ChatKind, Zenon
<1>10. Expected(x, v) = x.val
  BY SMT DEF Expected
<1>11. DOMAIN x.val = {"message", "overlay"}
  BY <1>9, SMT DEF Of, SystemChatPackets
<1>12. QED
  BY <1>8, <1>10, <1>11, Zenon

(* In every version a payload that stops short is refused, or read as what was sent but
   for fields that may be left out; decode_system_chat alone takes a byte of the text for
   the overlay, from 766 on, and hands over no text then. *)
THEOREM CutsAreSeen == CodecSpec => []CutNeverForged
<1> DEFINE e == Expected(wire.sent, protocol_version)
           got == wire.read.val
           Kept(f) == got[f] = e[f] \/ Tolerated(wire.sent.kind, f, got[f], e[f])
<1>1. ASSUME CodecInv, wire.at = "received", wire.cut,
             wire.sent.kind \notin Rewritten \cup {"SystemChat"}, wire.read.ok,
             NEW f \in DOMAIN e
      PROVE  Kept(f)
  <2>1. PICK m \in Str : /\ (wire.cut <=> m # <<>>)
                         /\ Readable(wire.sent, protocol_version, m) =>
                              Fits(wire.read, e, wire.sent.kind, m)
    BY <1>1, Decoded, Zenon
  <2>2. m # <<>>
    BY <1>1, <2>1, Zenon
  <2>3. Readable(wire.sent, protocol_version, m)
    BY <1>1, <2>2, Zenon DEF Readable
  <2>4. Fits(wire.read, e, wire.sent.kind, m)
    BY <2>1, <2>3, Zenon
  <2>5. wire.read # Failed
    BY <1>1, FailedParts, Zenon
  <2> HIDE DEF e
  <2>6. PICK y, t : /\ wire.read = Got(y, t)
                    /\ \A g \in DOMAIN e : \/ y[g] = e[g]
                                           \/ Tolerated(wire.sent.kind, g, y[g], e[g])
    BY <2>4, <2>5, Zenon DEF Fits
  <2>7. wire.read.val = y
    BY <2>6, GotParts, Zenon
  <2>8. QED
    BY <1>1, <2>6, <2>7, Zenon DEF e
<1>2. ASSUME CodecInv, wire.at = "received", wire.cut, wire.sent.kind = "SystemChat", wire.read.ok
      PROVE  (\A f \in DOMAIN e : Kept(f)) \/ TextLost(wire.sent.kind, got, protocol_version)
  <2> DEFINE x == wire.sent.val
  <2>1. ChatCut(wire.read, x, protocol_version) /\ e = x /\ DOMAIN x = {"message", "overlay"}
    BY <1>2, ChatCarried, Zenon
  <2>2. wire.read # Failed
    BY <1>2, FailedParts, Zenon
  <2>3. PICK t, o, w : /\ wire.read = Got([message |-> t, overlay |-> o], w)
                       /\ \/ protocol_version >= 766 /\ t = <<>>
                          \/ t = x.message /\ o = FALSE
    BY <2>1, <2>2, Zenon DEF ChatCut
  <2>4. got = [message |-> t, overlay |-> o]
    <3> DEFINE z == [message |-> t, overlay |-> o]
    <3>1. wire.read = Got(z, w)
      BY <2>3
    <3> HIDE DEF z
    <3>2. wire.read.val = z
      BY <3>1, GotParts, Zenon
    <3>3. QED
      BY <3>2 DEF z
  <2> HIDE DEF got, e, x
  <2>5. got.message = t /\ got.overlay = o
    BY <2>4
  <2>6. CASE protocol_version >= 766 /\ t = <<>>
    BY <1>2, <2>5, <2>6, Zenon DEF TextLost
  <2>7. CASE t = x.message /\ o = FALSE
    <3>1. Kept("message")
      BY <2>1, <2>5, <2>7, Zenon
    <3>2. Tolerated("SystemChat", "overlay", got["overlay"], e["overlay"])
      BY <2>5, <2>7, SMT DEF Tolerated
    <3>3. Kept("overlay")
      BY <1>2, <3>2, Zenon
    <3> HIDE DEF Kept
    <3>4. QED
      BY <2>1, <3>1, <3>3, Zenon
  <2>8. QED
    BY <2>3, <2>6, <2>7, Zenon
<1>3. CodecInv => CutNeverForged
  BY <1>1, <1>2, Zenon DEF CutNeverForged
<1>4. QED
  BY <1>3, CodecInvariant, PTL

LEMMA OtherKinds == \A x \in Packets : x.kind \notin Rewritten
<1>1. \A x \in HandshakePackets : x.kind \notin Rewritten
  BY SMT DEF Of, Rewritten, HandshakePackets
<1>2. \A x \in LoginStartPackets : x.kind \notin Rewritten
  BY SMT DEF Of, Rewritten, LoginStartPackets
<1>3. \A x \in EncryptionRequestPackets : x.kind \notin Rewritten
  BY SMT DEF Of, Rewritten, EncryptionRequestPackets
<1>4. \A x \in EncryptionResponsePackets : x.kind \notin Rewritten
  BY SMT DEF Of, Rewritten, EncryptionResponsePackets
<1>5. \A x \in LoginSuccessPackets : x.kind \notin Rewritten
  BY SMT DEF Of, Rewritten, LoginSuccessPackets
<1>6. \A x \in LoginAcknowledgedPackets : x.kind \notin Rewritten
  BY SMT DEF Of, Rewritten, LoginAcknowledgedPackets
<1>7. \A x \in SetCompressionPackets : x.kind \notin Rewritten
  BY SMT DEF Of, Rewritten, SetCompressionPackets
<1>8. \A x \in PluginRequestPackets : x.kind \notin Rewritten
  BY SMT DEF Of, Rewritten, PluginRequestPackets
<1>9. \A x \in PluginResponsePackets : x.kind \notin Rewritten
  BY SMT DEF Of, Rewritten, PluginResponsePackets
<1>10. \A x \in VelocityPackets : x.kind \notin Rewritten
  BY SMT DEF Of, Rewritten, VelocityPackets
<1>11. \A x \in RegistryDataPackets : x.kind \notin Rewritten
  BY SMT DEF Of, Rewritten, RegistryDataPackets
<1>12. \A x \in ChatCommandPackets : x.kind \notin Rewritten
  BY SMT DEF Of, Rewritten, ChatCommandPackets
<1>13. \A x \in TabCompleteRequestPackets : x.kind \notin Rewritten
  BY SMT DEF Of, Rewritten, TabCompleteRequestPackets
<1>14. \A x \in TabCompleteResponsePackets : x.kind \notin Rewritten
  BY SMT DEF Of, Rewritten, TabCompleteResponsePackets
<1>15. \A x \in RespawnPackets : x.kind \notin Rewritten
  BY SMT DEF Of, Rewritten, RespawnPackets
<1>16. \A x \in SystemChatPackets : x.kind \notin Rewritten
  BY SMT DEF Of, Rewritten, SystemChatPackets
<1>17. \A x \in CloseContainerPackets : x.kind \notin Rewritten
  BY SMT DEF Of, Rewritten, CloseContainerPackets
<1>18. \A x \in StopSoundPackets : x.kind \notin Rewritten
  BY SMT DEF Of, Rewritten, StopSoundPackets
<1>19. \A x \in BossBarPackets : x.kind \notin Rewritten
  BY SMT DEF Of, Rewritten, BossBarPackets
<1>20. \A x \in ObjectivePackets : x.kind \notin Rewritten
  BY SMT DEF Of, Rewritten, ObjectivePackets
<1>21. \A x \in DisplayObjectivePackets : x.kind \notin Rewritten
  BY SMT DEF Of, Rewritten, DisplayObjectivePackets
<1>22. QED
  BY <1>1, <1>2, <1>3, <1>4, <1>5, <1>6, <1>7, <1>8, <1>9, <1>10, <1>11, <1>12, <1>13, <1>14,
     <1>15, <1>16, <1>17, <1>18, <1>19, <1>20, <1>21, Zenon DEF Packets

(* extract_respawn_from_login_with_data_kept puts a transferred player into the world of
   the backend's Login (Play), in every supported version and for every world the runs
   send; of a packet that stops short it makes that world or the default one. *)
THEOREM WorldIsEntered == CodecSpec => []RespawnMatchesLogin
<1>1. ASSUME CodecInv, wire.at = "received", wire.sent.kind = "Login",
             protocol_version >= Supported
      PROVE  \E m : /\ (wire.cut <=> m # <<>>)
                    /\ Entered(wire.read.val, wire.sent.val, protocol_version, m)
  <2> DEFINE v == protocol_version
             x == wire.sent
  <2>1. v \in Versions /\ Carried(wire, v) /\ wire.read = Decode(x.kind, wire.raw, v)
    BY <1>1, Arrived, Zenon
  <2>2. PICK id \in SmallIds, p \in Str, b \in Str, m \in Str : CarriedAs(wire, v, id, p, b, m)
    BY <2>1, CarriedParts, Zenon
  <2>3. /\ Encode(x, v) = RawPacket(id, p) /\ wire.raw = RawPacket(id, b) /\ b \o m = p
        /\ (wire.cut <=> m # <<>>)
    BY <2>2, Zenon DEF CarriedAs
  <2>4. v \in Int /\ x \in Sendable
    BY <2>1, VersionsAssumption, Zenon DEF Carried
  <2>5. x.val \in Worlds
    <3>1. x \in Packets => x.kind # "Login"
      BY OtherKinds, Zenon DEF Rewritten
    <3>2. QED
      BY <1>1, <2>4, <3>1, Kinds
  <2>6. Placed(x.val)
    BY <2>5, WorldsPlaced, Zenon
  <2>7. Encode(x, v) = WriteLogin(x.val, v)
    BY <1>1, SMT DEF Encode
  <2>8. p = LoginBytes(x.val, v)
    <3>1. RawPacket(id, p) = RawPacket(Only(is_login_play_packet(v)), LoginBytes(x.val, v))
      BY <2>3, <2>4, <2>6, <2>7, LoginCat, Zenon
    <3>2. QED
      BY <3>1, SMT DEF RawPacket
  <2>9. b \o m = LoginBytes(x.val, v)
    BY <2>3, <2>8, Zenon
  <2>10. wire.read = Got(RespawnFor(RawPacket(id, b), v), <<>>)
    BY <1>1, <2>1, <2>3, SMT DEF Decode
  <2>11. wire.read.val = RespawnFor(RawPacket(id, b), v)
    BY <2>10, GotParts, Zenon
  <2>12. v >= 766 \/ (v >= 764 /\ v < 766)
    BY <1>1, <2>4 DEF Supported
  <2>13. Entered(RespawnFor(RawPacket(id, b), v), x.val, v, m)
    <3>1. CASE v >= 766
      BY <2>4, <2>6, <2>9, <3>1, LoginNew, Zenon
    <3>2. CASE v >= 764 /\ v < 766
      BY <2>4, <2>6, <2>9, <3>2, LoginOld, Zenon
    <3>3. QED
      BY <2>12, <3>1, <3>2, Zenon
  <2>14. QED
    BY <2>3, <2>11, <2>13, Zenon
<1>2. CodecInv => RespawnMatchesLogin
  <2>1. SUFFICES ASSUME CodecInv, wire.at = "received", wire.sent.kind = "Login",
                        protocol_version >= Supported
                 PROVE  LET v     == protocol_version
                            login == wire.sent.val
                            right ==
                              IF v >= 766
                              THEN wire.read.val
                                     = RawPacket(RespawnId(v), WriteSpawnInfo(login, v)
                                       \o <<3>>)
                              ELSE ReadAs(wire.read.val, login, v)
                        IN right \/ (wire.cut
                                     /\ wire.read.val = encode_respawn(default_reset(3), v))
    BY Zenon DEF RespawnMatchesLogin, ReadAs, SameWorld
  <2>2. PICK m : (wire.cut <=> m # <<>>)
        /\ Entered(wire.read.val, wire.sent.val, protocol_version, m)
    BY <1>1, <2>1, Zenon
  <2>3. protocol_version \in Int
    BY <2>1, VersionsAssumption, Zenon DEF CodecInv
  <2>4. CASE protocol_version >= 766
    <3>1. ~(protocol_version < 766)
      BY <2>3, <2>4
    <3>2. QED
      BY <2>2, <2>4, <3>1, Zenon DEF Entered
  <2>5. CASE ~(protocol_version >= 766)
    BY <2>2, <2>5, Zenon DEF Entered
  <2>6. QED
    BY <2>4, <2>5, Zenon
<1>3. QED
  BY <1>2, CodecInvariant, PTL

-----------------------------------------------------------------------------
(* Trees are sent whole. *)
WholeTrees == wire # Idle /\ wire.sent.kind = "DeclareCommands" => ~wire.cut

LEMMA TreesWhole == CodecSpec => []WholeTrees
<1>1. CodecInit => WholeTrees
  BY Zenon DEF CodecInit, WholeTrees
<1>2. ASSUME CodecInv, WholeTrees, [CodecNext]_codecVars PROVE WholeTrees'
  <2>1. CASE UNCHANGED codecVars
    <3>1. wire' = wire
      BY <2>1, Zenon DEF codecVars
    <3>2. QED
      BY <1>2, <3>1 DEF WholeTrees
  <2>2. CASE wire = Idle /\ Next /\ UNCHANGED wire
    <3>1. wire' = Idle
      BY <2>2, Zenon
    <3>2. QED
      BY <3>1, Zenon DEF WholeTrees
  <2>3. ASSUME NEW x \in Sendable, NEW k \in Thresholds, Send(x, Complete(x), k)
        PROVE  WholeTrees'
    <3> DEFINE n == Complete(x)
    <3>1. n \in Nat
      <4>1. protocol_version \in Versions /\ Exists(x, protocol_version)
        BY <1>2, <2>3, Zenon DEF Send, CodecInv
      <4>2. PICK id \in SmallIds, p \in Str : Encode(x, protocol_version) = RawPacket(id, p)
        BY <4>1, Written, Zenon
      <4>3. Encode(x, protocol_version).payload = p
        BY <4>2, RawParts, Zenon
      <4>4. Len(p) \in Nat
        BY DEF Str
      <4>5. QED
        BY <4>3, <4>4, Zenon DEF Complete
    <3>2. wire'.cut <=> n < Len(Encode(x, protocol_version).payload)
      <4> DEFINE raw == Encode(x, protocol_version)
                 cut == n < Len(raw.payload)
                 rw  == RawPacket(raw.id, SubSeq(raw.payload, 1, n))
                 e   == encode_packet_with_compression(rw, k)
      <4>1. wire' = [at |-> "sent", sent |-> x, threshold |-> k, cut |-> cut, raw |-> rw, bytes |-> e]
        BY <2>3, Zenon DEF Send
      <4> HIDE DEF cut, rw, e
      <4>2. wire'.cut <=> cut
        BY <4>1, Zenon
      <4>3. QED
        BY <4>2, Zenon DEF cut
    <3>3. ~(n < n)
      BY <3>1
    <3>4. ~wire'.cut
      BY <3>2, <3>3, Zenon DEF Complete
    <3>5. QED
      BY <3>4, Zenon DEF WholeTrees
  <2>4. ASSUME NEW x \in Sendable, x.kind # "DeclareCommands", NEW n, Send(x, n, <<>>)
        PROVE  WholeTrees'
    <3>1. wire'.sent = x
      BY <2>4, SMT DEF Send
    <3>2. QED
      BY <2>4, <3>1, Zenon DEF WholeTrees
  <2>5. CASE Receive
    <3>1. wire # Idle
      BY <2>5, SMT DEF Receive, Idle
    <3>2. wire'.sent = wire.sent /\ wire'.cut = wire.cut
      BY <2>5, SMT DEF Receive
    <3>3. QED
      BY <1>2, <3>1, <3>2, Zenon DEF WholeTrees
  <2>6. CASE Done
    <3>1. wire' = Idle
      BY <2>6, Zenon DEF Done
    <3>2. QED
      BY <3>1, Zenon DEF WholeTrees
  <2>7. QED
    BY <1>2, <2>1, <2>2, <2>3, <2>4, <2>5, <2>6, Zenon DEF CodecNext
<1>3. QED
  BY <1>1, <1>2, CodecInvariant, PTL DEF CodecSpec


LEMMA NoTrees == \A x \in Packets : x.kind # "DeclareCommands"
BY OtherKinds, Zenon DEF Rewritten

LEMMA TreeEncoded ==
  ASSUME NEW t \in Trees, NEW v
  PROVE  WriteTree(t, v) = RawPacket(Only(is_declare_commands_packet(v)), TreeBytes(t))
BY Zenon DEF WriteTree, TreeBytes

(* inject_proxy_commands_into_declare_commands adds /server and the other commands to the
   tree of every backend and to no other part of it, in every version that has command
   trees, whatever the servers are called; a tree that does not begin with its root goes
   on as it is. *)
THEOREM CommandsAreAdded == CodecSpec => []InjectionSound
<1>1. ASSUME CodecInv, WholeTrees, wire.at = "received", wire.sent.kind = "DeclareCommands"
      PROVE  IF wire.sent.val.nodes[1].flags # 0 THEN wire.read.val = wire.raw
             ELSE Extends(ReadTree(wire.read.val), wire.sent.val, RootLiterals(CustomServers))
  <2> DEFINE v    == protocol_version
             x    == wire.sent
             t    == x.val
             lits == RootLiterals(CustomServers)
  <2>1. v \in Versions /\ Carried(wire, v) /\ wire.read = Decode(x.kind, wire.raw, v)
    BY <1>1, Arrived, Zenon
  <2>2. PICK id \in SmallIds, p \in Str, b \in Str, m \in Str : CarriedAs(wire, v, id, p, b, m)
    BY <2>1, CarriedParts, Zenon
  <2>3. /\ Encode(x, v) = RawPacket(id, p) /\ wire.raw = RawPacket(id, b) /\ b \o m = p
        /\ (wire.cut <=> m # <<>>)
    BY <2>2, Zenon DEF CarriedAs
  <2>4. v \in Int /\ x \in Sendable /\ Exists(x, v)
    BY <2>1, VersionsAssumption, Zenon DEF Carried
  <2>5. t \in Trees /\ v >= 393
    <3>1. x \in Packets => x.kind # "DeclareCommands"
      BY NoTrees, Zenon
    <3>2. t \in Trees
      BY <1>1, <2>4, <3>1, Kinds
    <3>3. QED
      BY <1>1, <2>4, <3>2, Zenon DEF Exists
  <2>6. ~wire.cut
    <3>1. wire # Idle
      BY <1>1, SMT DEF Idle
    <3>2. QED
      BY <1>1, <3>1, Zenon DEF WholeTrees
  <2>7. b = p
    BY <2>3, <2>6, Empty, Zenon
  <2>8. Encode(x, v) = WriteTree(t, v)
    BY <1>1, SMT DEF Encode
  <2>9. id = Only(is_declare_commands_packet(v)) /\ b = TreeBytes(t)
    <3>1. RawPacket(id, p) = RawPacket(Only(is_declare_commands_packet(v)), TreeBytes(t))
      BY <2>3, <2>5, <2>8, TreeEncoded, Zenon
    <3>2. QED
      BY <2>7, <3>1, SMT DEF RawPacket
  <2>10. id \in is_declare_commands_packet(v)
    <3>1. is_declare_commands_packet(v) # {}
      BY <2>4, <2>5 DEF is_declare_commands_packet
    <3>2. QED
      BY <2>9, <3>1, Zenon DEF Only
  <2> DEFINE out == inject_proxy_commands_into_declare_commands(wire.raw, v, CustomServers)
  <2>11. wire.read.val = out
    <3>1. wire.read = Got(out, <<>>)
      BY <1>1, <2>1, SMT DEF Decode
    <3>2. QED
      BY <3>1, GotParts, Zenon
  <2>12. wire.raw = RawPacket(id, TreeBytes(t))
    BY <2>3, <2>9, Zenon
  <2> HIDE DEF out
  <2>13. CASE t.nodes[1].flags # 0
    <3>1. out = wire.raw
      BY <2>5, <2>12, <2>13, TreeKept, Zenon DEF out
    <3>2. QED
      BY <2>11, <2>13, <3>1, Zenon
  <2>14. CASE t.nodes[1].flags = 0
    <3> DEFINE N  == Len(t.nodes)
               L  == Len(lits)
               xs == Injected(t.nodes, lits)
    <3>1. Placeable(t.nodes, N, lits, L)
      BY <2>5, CommandsPlaceable, Zenon
    <3>2. N \in Nat /\ L \in Nat /\ N >= 1
      BY <3>1, Zenon DEF Placeable
    <3>3. InjectedIs(xs, t.nodes, lits, N, L)
      BY <3>2, InjectedShape, Zenon
    <3>4. Literals(lits, MaxPacketSize + 3)
      BY LiteralsAre, Zenon
    <3>5. PICK Q : TreeLeft(Q, t.nodes)
      BY <2>5, TreesTyped, TreePeels, Zenon
    <3>6. out = RawPacket(id, AddedBytes(t, Q, lits))
      BY <2>4, <2>5, <2>10, <2>12, <2>14, <3>5, CommandsWritten, Zenon DEF out
    <3> HIDE DEF t, N, L, lits, xs
    <3>7. ReadTree(out) = Got([nodes |-> xs, root |-> 0], <<>>)
      BY <2>5, <3>1, <3>3, <3>5, <3>6, AddedRead, Zenon
    <3>8. t.nodes[1].flags = 0
      BY <2>14, Zenon DEF t
    <3>9. Extends(ReadTree(out), t, lits)
      BY <2>5, <3>1, <3>3, <3>4, <3>7, <3>8, TreeExtended, Zenon
    <3>10. QED
      BY <2>11, <3>8, <3>9, Zenon DEF t, lits
  <2>15. QED
    BY <2>13, <2>14, Zenon
<1>2. CodecInv /\ WholeTrees => InjectionSound
  BY <1>1, Zenon DEF InjectionSound
<1>3. QED
  BY <1>2, CodecInvariant, TreesWhole, PTL
=============================================================================
