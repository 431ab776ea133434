-------------------------- MODULE FramedReadProofs --------------------------
(***************************************************************************)
(* IntactUnlessDropped for any number of sides, any sizes of frames and    *)
(* any number of frames.  It is not inductive: what a read hands over is   *)
(* right only if the stream and the half-done read fit together.  So the   *)
(* invariant says that a stream is a suffix of whole frames in order       *)
(* (StreamInv), and where in a frame a read is that was never dropped      *)
(* (ReaderInv).                                                            *)
(***************************************************************************)
EXTENDS FramedRead, SequenceTheorems, TLAPS

Unit == [frame : Nat, at : Nat, size : Sizes]

(* v is the unit that a peer sends after u. *)
Follows(u, v) ==
  IF u.at < u.size THEN v.frame = u.frame /\ v.at = u.at + 1 /\ v.size = u.size
                   ELSE v.frame = u.frame + 1 /\ v.at = 0

Ordered(q) == \A i \in 1 .. Len(q) - 1 : Follows(q[i], q[i + 1])

(* Nothing after the end of the nth frame. *)
EndsWith(q, n) == q # <<>> => q[Len(q)].at = q[Len(q)].size /\ q[Len(q)].frame = n

TypeInv ==
  /\ stream \in [Sides -> Seq(Unit)] /\ sent \in [Sides -> Nat]
  /\ body \in [Sides -> Seq(Unit)] /\ remaining \in [Sides -> Int]
  /\ packets \in [Sides -> Seq(Seq(Unit))]
  /\ dropped \in [Sides -> BOOLEAN] /\ reading \in BOOLEAN

StreamInv == \A s \in Sides : Ordered(stream[s]) /\ EndsWith(stream[s], sent[s])

(* A read that has no length yet stands before a frame, the one after those that were
   handled. *)
Between(s) ==
  /\ body[s] = <<>>
  /\ stream[s] = <<>> => sent[s] = Len(packets[s])
  /\ stream[s] # <<>> => stream[s][1].at = 0 /\ stream[s][1].frame = Len(packets[s]) + 1

(* One that has a length stands inside that frame, and has what comes before. *)
Inside(s) ==
  /\ stream[s] # <<>> /\ remaining[s] > 0
  /\ stream[s][1].frame = Len(packets[s]) + 1
  /\ Len(body[s]) = stream[s][1].size - remaining[s]
  /\ stream[s][1].at = Len(body[s]) + 1
  /\ \A i \in 1 .. Len(body[s]) :
       /\ body[s][i].frame = Len(packets[s]) + 1 /\ body[s][i].at = i
       /\ body[s][i].size = stream[s][1].size

ReaderInv ==
  \A s \in Sides : ~dropped[s] =>
    Intact(s) /\ (IF remaining[s] = Length THEN Between(s) ELSE Inside(s))

Inv == TypeInv /\ StreamInv /\ ReaderInv /\ (~reading => \E s \in Sides : dropped[s])

-----------------------------------------------------------------------------
(* A frame is well formed: its units follow one another, from its length to its end. *)
LEMMA FrameShape ==
  ASSUME NEW n \in Nat, NEW size \in Sizes
  PROVE  /\ Frame(n, size) \in Seq(Unit) /\ Frame(n, size) # <<>>
         /\ Len(Frame(n, size)) = size + 1
         /\ Ordered(Frame(n, size)) /\ EndsWith(Frame(n, size), n)
         /\ Frame(n, size)[1].frame = n /\ Frame(n, size)[1].at = 0
<1>1. size \in Nat /\ size > 0 /\ size + 1 \in Nat
  BY SizesAssumption
<1>2. \A i \in 1 .. size + 1 : [frame |-> n, at |-> i - 1, size |-> size] \in Unit
  BY <1>1 DEF Unit
<1>3. Frame(n, size) \in [1 .. size + 1 -> Unit]
  BY <1>2 DEF Frame
<1>4. Frame(n, size) \in Seq(Unit) /\ Len(Frame(n, size)) = size + 1
  BY <1>1, <1>3
<1>5. \A i \in 1 .. size + 1 : Frame(n, size)[i] = [frame |-> n, at |-> i - 1, size |-> size]
  BY DEF Frame
<1>6. Ordered(Frame(n, size))
  <2> SUFFICES ASSUME NEW i \in 1 .. size
               PROVE  Follows(Frame(n, size)[i], Frame(n, size)[i + 1])
    BY <1>1, <1>4 DEF Ordered
  <2>1. /\ Frame(n, size)[i] = [frame |-> n, at |-> i - 1, size |-> size]
        /\ Frame(n, size)[i + 1] = [frame |-> n, at |-> i, size |-> size]
    BY <1>1, <1>5
  <2>2. QED
    BY <1>1, <2>1 DEF Follows
<1>7. EndsWith(Frame(n, size), n)
  <2>1. Frame(n, size)[size + 1] = [frame |-> n, at |-> (size + 1) - 1, size |-> size]
    BY <1>1, <1>5
  <2>2. QED
    BY <1>1, <1>4, <2>1 DEF EndsWith
<1>8. Frame(n, size)[1].frame = n /\ Frame(n, size)[1].at = 0
  <2>1. Frame(n, size)[1] = [frame |-> n, at |-> 1 - 1, size |-> size]
    BY <1>1, <1>5
  <2>2. QED
    BY <2>1
<1>9. Frame(n, size) # <<>>
  BY <1>1, <1>4, EmptySeq
<1>10. QED
  BY <1>4, <1>6, <1>7, <1>8, <1>9

(* What is left of a stream when its first unit is read. *)
LEMMA TailShape ==
  ASSUME NEW q \in Seq(Unit), q # <<>>, Ordered(q), NEW n \in Nat, EndsWith(q, n)
  PROVE  /\ Head(q) = q[1] /\ q[1] \in Unit /\ Tail(q) \in Seq(Unit)
         /\ Ordered(Tail(q)) /\ EndsWith(Tail(q), n)
         /\ Tail(q) # <<>> => Follows(q[1], Tail(q)[1])
         /\ Tail(q) = <<>> => q[1].at = q[1].size /\ q[1].frame = n
<1>1. Len(q) \in Nat \ {0} /\ Head(q) = q[1] /\ q[1] \in Unit
  BY EmptySeq, ElementOfSeq
<1>2. /\ Tail(q) \in Seq(Unit) /\ Len(Tail(q)) = Len(q) - 1
      /\ \A i \in 1 .. Len(q) - 1 : Tail(q)[i] = q[i + 1]
  BY HeadTailProperties
<1>3. Ordered(Tail(q))
  <2> SUFFICES ASSUME NEW i \in 1 .. Len(Tail(q)) - 1
               PROVE  Follows(Tail(q)[i], Tail(q)[i + 1])
    BY DEF Ordered
  <2>1. i \in 1 .. Len(q) - 1 /\ i + 1 \in 1 .. Len(q) - 1
    BY <1>1, <1>2
  <2>2. Follows(q[i + 1], q[(i + 1) + 1])
    BY <2>1 DEF Ordered
  <2>3. QED
    BY <1>2, <2>1, <2>2
<1>4. Tail(q) # <<>> => Len(q) > 1 /\ 1 \in 1 .. Len(q) - 1 /\ Len(q) - 1 \in 1 .. Len(q) - 1
  BY <1>1, <1>2, EmptySeq
<1>5. EndsWith(Tail(q), n)
  <2> SUFFICES ASSUME Tail(q) # <<>>
               PROVE  Tail(q)[Len(Tail(q))] = q[Len(q)]
    BY DEF EndsWith
  <2>1. Tail(q)[Len(q) - 1] = q[(Len(q) - 1) + 1] /\ (Len(q) - 1) + 1 = Len(q)
    BY <1>1, <1>2, <1>4
  <2>2. QED
    BY <1>2, <2>1
<1>6. Tail(q) # <<>> => Follows(q[1], Tail(q)[1])
  <2> SUFFICES ASSUME Tail(q) # <<>> PROVE Follows(q[1], Tail(q)[1])
    OBVIOUS
  <2>1. Follows(q[1], q[1 + 1]) /\ Tail(q)[1] = q[1 + 1]
    BY <1>2, <1>4 DEF Ordered
  <2>2. QED
    BY <2>1
<1>7. ASSUME Tail(q) = <<>> PROVE q[1].at = q[1].size /\ q[1].frame = n
  <2>1. Len(q) - 1 = 0
    BY <1>2, <1>7, EmptySeq
  <2>2. Len(q) = 1
    BY <1>1, <2>1
  <2>3. QED
    BY <2>2 DEF EndsWith
<1>8. QED
  BY <1>1, <1>2, <1>3, <1>5, <1>6, <1>7

(* A stream with one more frame. *)
LEMMA SendShape ==
  ASSUME NEW q \in Seq(Unit), Ordered(q), NEW n \in Nat, EndsWith(q, n), NEW size \in Sizes
  PROVE  LET new == q \o Frame(n + 1, size)
         IN /\ new \in Seq(Unit) /\ new # <<>>
            /\ Ordered(new) /\ EndsWith(new, n + 1)
            /\ q # <<>> => new[1] = q[1]
            /\ q = <<>> => new[1].at = 0 /\ new[1].frame = n + 1
<1> DEFINE f   == Frame(n + 1, size)
           new == q \o f
<1>1. /\ n + 1 \in Nat /\ f \in Seq(Unit) /\ f # <<>> /\ Len(f) \in Nat \ {0} /\ Len(q) \in Nat
      /\ Ordered(f) /\ EndsWith(f, n + 1) /\ f[1].frame = n + 1 /\ f[1].at = 0
  <2>1. n + 1 \in Nat
    OBVIOUS
  <2>2. QED
    BY <2>1, FrameShape, EmptySeq, LenProperties
<1> HIDE DEF f
<1>2. /\ new \in Seq(Unit) /\ Len(new) = Len(q) + Len(f)
      /\ \A i \in 1 .. Len(q) + Len(f) : new[i] = IF i <= Len(q) THEN q[i] ELSE f[i - Len(q)]
  BY <1>1, ConcatProperties
<1> HIDE DEF new
<1>3. new # <<>>
  BY <1>1, <1>2, EmptySeq
<1>4. Ordered(new)
  <2> SUFFICES ASSUME NEW i \in 1 .. Len(q) + Len(f) - 1
               PROVE  Follows(new[i], new[i + 1])
    BY <1>2 DEF Ordered
  <2>1. CASE i < Len(q)
    <3>1. i \in 1 .. Len(q) - 1 /\ new[i] = q[i] /\ new[i + 1] = q[i + 1]
      BY <1>1, <1>2, <2>1
    <3>2. QED
      BY <3>1 DEF Ordered
  <2>2. CASE i = Len(q)
    <3>1. /\ Len(q) > 0 /\ (i + 1) - Len(q) = 1 /\ ~(i + 1 <= Len(q))
          /\ i \in 1 .. Len(q) + Len(f) /\ i + 1 \in 1 .. Len(q) + Len(f)
      BY <1>1, <2>2
    <3>2. q # <<>>
      BY <3>1, EmptySeq
    <3>3. new[i] = q[Len(q)] /\ new[i + 1] = f[1]
      BY <1>2, <2>2, <3>1
    <3>4. Len(q) \in 1 .. Len(q)
      BY <1>1, <3>1
    <3>5. q[Len(q)].at = q[Len(q)].size /\ q[Len(q)].frame = n /\ q[Len(q)] \in Unit
      BY <3>2, <3>4, ElementOfSeq DEF EndsWith
    <3>6. ~(q[Len(q)].at < q[Len(q)].size)
      BY <3>5, SizesAssumption DEF Unit
    <3>7. QED
      BY <1>1, <3>3, <3>5, <3>6 DEF Follows
  <2>3. CASE i > Len(q)
    <3>1. /\ i - Len(q) \in 1 .. Len(f) - 1 /\ (i + 1) - Len(q) = (i - Len(q)) + 1
          /\ new[i] = f[i - Len(q)] /\ new[i + 1] = f[(i + 1) - Len(q)]
      BY <1>1, <1>2, <2>3
    <3>2. QED
      BY <1>1, <3>1 DEF Ordered
  <2>4. QED
    BY <1>1, <2>1, <2>2, <2>3
<1>5. EndsWith(new, n + 1)
  <2>1. new[Len(new)] = f[Len(f)]
    BY <1>1, <1>2
  <2>2. QED
    BY <1>1, <2>1 DEF EndsWith
<1>6. q # <<>> => new[1] = q[1]
  BY <1>1, <1>2, EmptySeq
<1>7. q = <<>> => new[1].at = 0 /\ new[1].frame = n + 1
  BY <1>1, <1>2, EmptySeq
<1>8. QED
  BY <1>2, <1>3, <1>4, <1>5, <1>6, <1>7 DEF new, f

-----------------------------------------------------------------------------
(* Before anything is sent. *)
LEMMA InitInv == Init => Inv
<1> SUFFICES ASSUME Init PROVE Inv
  OBVIOUS
<1>1. \A S : <<>> \in Seq(S)
  BY EmptySeq
<1>2. TypeInv
  BY <1>1 DEF Init, TypeInv, Length
<1>3. StreamInv
  <2>1. Ordered(<<>>) /\ EndsWith(<<>>, 0)
    BY EmptySeq DEF Ordered, EndsWith
  <2>2. QED
    BY <2>1 DEF Init, StreamInv
<1>4. ReaderInv
  BY EmptySeq DEF Init, ReaderInv, Intact, Between
<1>5. QED
  BY <1>2, <1>3, <1>4 DEF Init, Inv

(* The types of what belongs to one side. *)
LEMMA SideTypes ==
  ASSUME TypeInv, NEW s \in Sides
  PROVE  /\ stream[s] \in Seq(Unit) /\ sent[s] \in Nat /\ body[s] \in Seq(Unit)
         /\ remaining[s] \in Int /\ packets[s] \in Seq(Seq(Unit)) /\ dropped[s] \in BOOLEAN
         /\ Len(body[s]) \in Nat /\ Len(packets[s]) \in Nat
BY LenProperties DEF TypeInv

(* Where a side's read stands depends on what belongs to that side. *)
LEMMA SameSide ==
  ASSUME NEW s \in Sides, stream'[s] = stream[s], sent'[s] = sent[s], body'[s] = body[s],
         remaining'[s] = remaining[s], packets'[s] = packets[s],
         Intact(s) /\ (IF remaining[s] = Length THEN Between(s) ELSE Inside(s))
  PROVE  Intact(s)' /\ (IF remaining'[s] = Length THEN Between(s)' ELSE Inside(s)')
<1>1. Intact(s)'
  BY DEF Intact
<1>2. CASE remaining[s] = Length
  BY <1>1, <1>2 DEF Between
<1>3. CASE remaining[s] # Length
  BY <1>1, <1>3 DEF Inside
<1>4. QED
  BY <1>2, <1>3

(* A peer that sends a frame adds to its stream, behind what a read stands before. *)
LEMMA SendStep ==
  ASSUME Inv, NEW s \in Sides, NEW size \in Sizes, Send(s, size)
  PROVE  Inv'
<1> DEFINE new == stream[s] \o Frame(sent[s] + 1, size)
<1>1. /\ stream' = [stream EXCEPT ![s] = new] /\ sent' = [sent EXCEPT ![s] = @ + 1]
      /\ UNCHANGED <<body, remaining, packets, dropped, reading>>
  BY DEF Send
<1>2. TypeInv /\ StreamInv /\ ReaderInv /\ stream[s] \in Seq(Unit) /\ sent[s] \in Nat
  BY SideTypes DEF Inv
<1>3. /\ new \in Seq(Unit) /\ new # <<>> /\ Ordered(new) /\ EndsWith(new, sent[s] + 1)
      /\ stream[s] # <<>> => new[1] = stream[s][1]
      /\ stream[s] = <<>> => new[1].at = 0 /\ new[1].frame = sent[s] + 1
  BY <1>2, SendShape DEF StreamInv
<1> HIDE DEF new
<1>4. stream'[s] = new /\ sent'[s] = sent[s] + 1
  BY <1>1, <1>2 DEF TypeInv
<1>5. \A r \in Sides : r # s => stream'[r] = stream[r] /\ sent'[r] = sent[r]
  BY <1>1, <1>2 DEF TypeInv
<1>6. TypeInv'
  BY <1>1, <1>2, <1>3 DEF TypeInv
<1>7. StreamInv'
  BY <1>2, <1>3, <1>4, <1>5 DEF StreamInv
<1>8. ReaderInv'
  <2> SUFFICES ASSUME NEW r \in Sides, ~dropped[r]
               PROVE  Intact(r)' /\ (IF remaining[r] = Length THEN Between(r)' ELSE Inside(r)')
    BY <1>1 DEF ReaderInv
  <2>1. Intact(r) /\ (IF remaining[r] = Length THEN Between(r) ELSE Inside(r))
    BY <1>2 DEF ReaderInv
  <2>2. Intact(r)'
    BY <1>1, <2>1 DEF Intact
  <2>3. CASE r # s
    BY <1>1, <1>5, <2>1, <2>3, SameSide
  <2>4. CASE r = s /\ remaining[s] = Length
    BY <1>1, <1>3, <1>4, <2>1, <2>2, <2>4 DEF Between
  <2>5. CASE r = s /\ remaining[s] # Length
    BY <1>1, <1>3, <1>4, <2>1, <2>2, <2>5 DEF Inside
  <2>6. QED
    BY <2>3, <2>4, <2>5
<1>9. QED
  BY <1>1, <1>6, <1>7, <1>8 DEF Inv

(* A read that stands before a frame finds its length; one that was dropped before may
   take anything for a length. *)
LEMMA ReadLengthStep ==
  ASSUME Inv, NEW s \in Sides, ReadLength(s)
  PROVE  Inv'
<1>1. /\ stream[s] # <<>> /\ remaining[s] = Length
      /\ stream' = [stream EXCEPT ![s] = Tail(@)]
      /\ UNCHANGED <<sent, body, packets, dropped>>
  BY DEF ReadLength
<1>2. TypeInv /\ StreamInv /\ ReaderInv /\ stream[s] \in Seq(Unit) /\ sent[s] \in Nat
      /\ (~reading => \E r \in Sides : dropped[r])
  BY SideTypes DEF Inv
<1>3. /\ Head(stream[s]) = stream[s][1] /\ stream[s][1] \in Unit
      /\ Tail(stream[s]) \in Seq(Unit)
      /\ Ordered(Tail(stream[s])) /\ EndsWith(Tail(stream[s]), sent[s])
      /\ Tail(stream[s]) # <<>> => Follows(stream[s][1], Tail(stream[s])[1])
      /\ Tail(stream[s]) = <<>> =>
           stream[s][1].at = stream[s][1].size /\ stream[s][1].frame = sent[s]
  BY <1>1, <1>2, TailShape DEF StreamInv
<1>4. stream'[s] = Tail(stream[s]) /\ \A r \in Sides : r # s => stream'[r] = stream[r]
  BY <1>1, <1>2 DEF TypeInv
<1>5. PICK size \in LengthOf(stream[s][1]) :
        \/ size # 0 /\ remaining' = [remaining EXCEPT ![s] = size] /\ UNCHANGED reading
        \/ size = 0 /\ reading' = FALSE /\ UNCHANGED remaining
  BY <1>3 DEF ReadLength
<1>6. size \in Sizes \cup {0} /\ size \in Nat /\ stream[s][1].size \in Sizes
  <2>1. stream[s][1].size \in Sizes
    BY <1>3 DEF Unit
  <2>2. size \in Sizes \cup {0}
    BY <2>1 DEF LengthOf
  <2>3. QED
    BY <2>1, <2>2, SizesAssumption
<1>7. TypeInv'
  <2>1. stream' \in [Sides -> Seq(Unit)]
    BY <1>1, <1>2, <1>3 DEF TypeInv
  <2>2. remaining' \in [Sides -> Int]
    BY <1>2, <1>5, <1>6 DEF TypeInv
  <2>3. reading' \in BOOLEAN
    BY <1>2, <1>5 DEF TypeInv
  <2>4. QED
    BY <1>1, <1>2, <2>1, <2>2, <2>3 DEF TypeInv
<1>8. StreamInv'
  BY <1>1, <1>2, <1>3, <1>4 DEF StreamInv
<1>9. CASE dropped[s]
  <2>1. ReaderInv'
    <3> SUFFICES ASSUME NEW r \in Sides, ~dropped[r]
                 PROVE  Intact(r)' /\ (IF remaining'[r] = Length THEN Between(r)' ELSE Inside(r)')
      BY <1>1 DEF ReaderInv
    <3>1. r # s /\ stream'[r] = stream[r] /\ remaining'[r] = remaining[r]
      BY <1>2, <1>4, <1>5, <1>9 DEF TypeInv
    <3>2. QED
      BY <1>1, <1>2, <3>1, SameSide DEF ReaderInv
  <2>2. QED
    BY <1>1, <1>7, <1>8, <1>9, <2>1 DEF Inv
<1>10. CASE ~dropped[s]
  <2>1. Intact(s) /\ Between(s)
    BY <1>1, <1>2, <1>10 DEF ReaderInv
  <2>2. /\ stream[s][1].at = 0 /\ stream[s][1].frame = Len(packets[s]) + 1
        /\ body[s] = <<>> /\ size = stream[s][1].size
    BY <1>1, <1>5, <2>1 DEF Between, LengthOf
  <2>3. /\ size > 0 /\ size # Length /\ remaining' = [remaining EXCEPT ![s] = size]
        /\ reading' = reading
    <3>1. size > 0
      BY <1>6, <2>2, SizesAssumption
    <3>2. QED
      BY <1>5, <1>6, <3>1 DEF Length
  <2>4. remaining'[s] = size /\ \A r \in Sides : r # s => remaining'[r] = remaining[r]
    BY <1>2, <2>3 DEF TypeInv
  <2>5. /\ Tail(stream[s]) # <<>> /\ Tail(stream[s])[1].frame = Len(packets[s]) + 1
        /\ Tail(stream[s])[1].at = 1 /\ Tail(stream[s])[1].size = size
    BY <1>3, <2>2, <2>3 DEF Follows
  <2>6. Inside(s)'
    <3>1. Len(body[s]) = 0
      BY <2>2, EmptySeq
    <3>2. /\ stream'[s] = Tail(stream[s]) /\ remaining'[s] = size
          /\ packets' = packets /\ body' = body
      BY <1>1, <1>4, <2>4
    <3>3. Tail(stream[s])[1].size - size = 0
      BY <1>6, <2>5
    <3>4. QED
      BY <2>3, <2>5, <3>1, <3>2, <3>3 DEF Inside
  <2>7. ReaderInv'
    <3> SUFFICES ASSUME NEW r \in Sides, ~dropped[r]
                 PROVE  Intact(r)' /\ (IF remaining'[r] = Length THEN Between(r)' ELSE Inside(r)')
      BY <1>1 DEF ReaderInv
    <3>1. CASE r = s
      BY <1>1, <2>1, <2>3, <2>4, <2>6, <3>1 DEF Intact
    <3>2. CASE r # s
      BY <1>1, <1>2, <1>4, <2>4, <3>2, SameSide DEF ReaderInv
    <3>3. QED
      BY <3>1, <3>2
  <2>8. QED
    BY <1>1, <1>2, <1>7, <1>8, <2>3, <2>7 DEF Inv
<1>11. QED
  BY <1>9, <1>10

(* A unit of a body: the read has one unit more, and stands before the next one. *)
LEMMA ReadBodyStep ==
  ASSUME Inv, NEW s \in Sides, ReadBody(s)
  PROVE  Inv'
<1>1. /\ stream[s] # <<>> /\ remaining[s] > 1
      /\ stream' = [stream EXCEPT ![s] = Tail(@)]
      /\ body' = [body EXCEPT ![s] = Append(@, Head(stream[s]))]
      /\ remaining' = [remaining EXCEPT ![s] = @ - 1]
      /\ UNCHANGED <<sent, packets, dropped, reading>>
  BY DEF ReadBody
<1>2. /\ TypeInv /\ StreamInv /\ ReaderInv /\ stream[s] \in Seq(Unit) /\ sent[s] \in Nat
      /\ body[s] \in Seq(Unit) /\ remaining[s] \in Int /\ Len(body[s]) \in Nat
  BY SideTypes DEF Inv
<1>3. /\ Head(stream[s]) = stream[s][1] /\ stream[s][1] \in Unit
      /\ Tail(stream[s]) \in Seq(Unit)
      /\ Ordered(Tail(stream[s])) /\ EndsWith(Tail(stream[s]), sent[s])
      /\ Tail(stream[s]) # <<>> => Follows(stream[s][1], Tail(stream[s])[1])
      /\ Tail(stream[s]) = <<>> =>
           stream[s][1].at = stream[s][1].size /\ stream[s][1].frame = sent[s]
  BY <1>1, <1>2, TailShape DEF StreamInv
<1> DEFINE more == Append(body[s], stream[s][1])
<1>4. /\ more \in Seq(Unit) /\ Len(more) = Len(body[s]) + 1
      /\ \A i \in 1 .. Len(body[s]) : more[i] = body[s][i]
      /\ more[Len(body[s]) + 1] = stream[s][1]
  BY <1>2, <1>3, AppendProperties
<1>5. /\ stream'[s] = Tail(stream[s]) /\ body'[s] = more /\ remaining'[s] = remaining[s] - 1
      /\ \A r \in Sides : r # s => /\ stream'[r] = stream[r] /\ body'[r] = body[r]
                                   /\ remaining'[r] = remaining[r]
  BY <1>1, <1>2, <1>3 DEF TypeInv
<1>6. TypeInv'
  <2>1. stream' \in [Sides -> Seq(Unit)]
    BY <1>1, <1>2, <1>3 DEF TypeInv
  <2>2. body' \in [Sides -> Seq(Unit)]
    BY <1>1, <1>2, <1>3, <1>4 DEF TypeInv
  <2>3. remaining' \in [Sides -> Int]
    BY <1>1, <1>2 DEF TypeInv
  <2>4. QED
    BY <1>1, <1>2, <2>1, <2>2, <2>3 DEF TypeInv
<1> HIDE DEF more
<1>7. StreamInv'
  BY <1>1, <1>2, <1>3, <1>5 DEF StreamInv
<1>8. ~dropped[s] => Intact(s) /\ Inside(s)
  BY <1>1, <1>2 DEF ReaderInv, Length
<1>9. ASSUME ~dropped[s] PROVE Inside(s)'
  <2>1. /\ stream[s][1].frame = Len(packets[s]) + 1
        /\ Len(body[s]) = stream[s][1].size - remaining[s]
        /\ stream[s][1].at = Len(body[s]) + 1
        /\ \A i \in 1 .. Len(body[s]) :
             /\ body[s][i].frame = Len(packets[s]) + 1 /\ body[s][i].at = i
             /\ body[s][i].size = stream[s][1].size
    BY <1>8, <1>9 DEF Inside
  <2>2. stream[s][1].size \in Nat
    BY <1>3, SizesAssumption DEF Unit
  <2>3. stream[s][1].at < stream[s][1].size
    BY <1>1, <1>2, <2>1, <2>2
  <2>4. /\ Tail(stream[s]) # <<>> /\ Tail(stream[s])[1].frame = Len(packets[s]) + 1
        /\ Tail(stream[s])[1].at = Len(body[s]) + 2
        /\ Tail(stream[s])[1].size = stream[s][1].size
    <3>1. Tail(stream[s]) # <<>>
      BY <1>3, <2>2, <2>3
    <3>2. QED
      BY <1>2, <1>3, <2>1, <2>3, <3>1 DEF Follows
  <2>5. ASSUME NEW i \in 1 .. Len(more)
        PROVE  /\ more[i].frame = Len(packets[s]) + 1 /\ more[i].at = i
               /\ more[i].size = stream[s][1].size
    <3>1. CASE i \in 1 .. Len(body[s])
      BY <1>4, <2>1, <3>1
    <3>2. CASE i = Len(body[s]) + 1
      BY <1>4, <2>1, <3>2
    <3>3. QED
      BY <1>2, <1>4, <3>1, <3>2
  <2>6. /\ Len(more) = Tail(stream[s])[1].size - (remaining[s] - 1)
        /\ remaining[s] - 1 > 0 /\ Tail(stream[s])[1].at = Len(more) + 1
    <3>1. Len(body[s]) + 1 = stream[s][1].size - (remaining[s] - 1)
      BY <1>2, <2>1, <2>2
    <3>2. remaining[s] - 1 > 0 /\ Len(body[s]) + 2 = (Len(body[s]) + 1) + 1
      BY <1>1, <1>2
    <3>3. QED
      BY <1>4, <2>4, <3>1, <3>2
  <2>7. packets'[s] = packets[s]
    BY <1>1
  <2>8. QED
    BY <1>5, <2>4, <2>5, <2>6, <2>7 DEF Inside
<1>10. ReaderInv'
  <2> SUFFICES ASSUME NEW r \in Sides, ~dropped[r]
               PROVE  Intact(r)' /\ (IF remaining'[r] = Length THEN Between(r)' ELSE Inside(r)')
    BY <1>1 DEF ReaderInv
  <2>1. CASE r # s
    BY <1>1, <1>2, <1>5, <2>1, SameSide DEF ReaderInv
  <2>2. CASE r = s
    <3>1. remaining'[s] # Length
      BY <1>1, <1>2, <1>5 DEF Length
    <3>2. Intact(s)'
      BY <1>1, <1>8, <2>2 DEF Intact
    <3>3. QED
      BY <1>9, <2>2, <3>1, <3>2
  <2>3. QED
    BY <2>1, <2>2
<1>11. QED
  BY <1>1, <1>6, <1>7, <1>10 DEF Inv

(* The last unit of a body: the packet is the whole frame, the stream goes on with the
   next one, and the reads that had a length on the other sides are dropped. *)
LEMMA ReadLastStep ==
  ASSUME Inv, NEW s \in Sides, ReadLast(s)
  PROVE  Inv'
<1> DEFINE packet == Append(body[s], stream[s][1])
           rest   == Tail(stream[s])
<1>1. /\ TypeInv /\ StreamInv /\ ReaderInv /\ stream[s] \in Seq(Unit) /\ sent[s] \in Nat
      /\ body[s] \in Seq(Unit) /\ remaining[s] \in Int /\ Len(body[s]) \in Nat
      /\ packets[s] \in Seq(Seq(Unit)) /\ Len(packets[s]) \in Nat
  BY SideTypes DEF Inv
<1>2. stream[s] # <<>> /\ remaining[s] = 1
  BY DEF ReadLast
<1>3. /\ Head(stream[s]) = stream[s][1] /\ stream[s][1] \in Unit
      /\ rest \in Seq(Unit) /\ Ordered(rest) /\ EndsWith(rest, sent[s])
      /\ rest # <<>> => Follows(stream[s][1], rest[1])
      /\ rest = <<>> => stream[s][1].at = stream[s][1].size /\ stream[s][1].frame = sent[s]
  BY <1>1, <1>2, TailShape DEF StreamInv
<1>4. /\ packets' = [packets EXCEPT ![s] = Append(@, packet)]
      /\ stream' = [stream EXCEPT ![s] = rest]
      /\ body' = [r \in Sides |-> <<>>] /\ remaining' = [r \in Sides |-> Length]
      /\ dropped' = [r \in Sides |-> dropped[r] \/ (r # s /\ remaining[r] # Length)]
      /\ UNCHANGED <<sent, reading>>
  BY <1>3 DEF ReadLast, Select
<1>5. /\ packet \in Seq(Unit) /\ Len(packet) = Len(body[s]) + 1
      /\ \A i \in 1 .. Len(body[s]) : packet[i] = body[s][i]
      /\ packet[Len(body[s]) + 1] = stream[s][1]
  BY <1>1, <1>3, AppendProperties
<1> HIDE DEF packet, rest
<1> DEFINE all == Append(packets[s], packet)
<1>6. /\ all \in Seq(Seq(Unit)) /\ Len(all) = Len(packets[s]) + 1
      /\ \A n \in 1 .. Len(packets[s]) : all[n] = packets[s][n]
      /\ all[Len(packets[s]) + 1] = packet
  BY <1>1, <1>5, AppendProperties
<1>7. /\ packets'[s] = all /\ stream'[s] = rest /\ body'[s] = <<>> /\ remaining'[s] = Length
      /\ \A r \in Sides : r # s => packets'[r] = packets[r] /\ stream'[r] = stream[r]
      /\ \A r \in Sides : body'[r] = <<>> /\ remaining'[r] = Length
      /\ \A r \in Sides : dropped'[r] = (dropped[r] \/ (r # s /\ remaining[r] # Length))
  BY <1>1, <1>4 DEF TypeInv
<1>8. TypeInv'
  <2>1. stream' \in [Sides -> Seq(Unit)]
    BY <1>1, <1>3, <1>4 DEF TypeInv
  <2>2. body' \in [Sides -> Seq(Unit)] /\ remaining' \in [Sides -> Int]
    BY <1>4, EmptySeq DEF Length
  <2>3. packets' \in [Sides -> Seq(Seq(Unit))]
    BY <1>1, <1>4, <1>6 DEF TypeInv
  <2>4. dropped' \in [Sides -> BOOLEAN]
    BY <1>1, <1>4 DEF TypeInv
  <2>5. QED
    BY <1>1, <1>4, <2>1, <2>2, <2>3, <2>4 DEF TypeInv
<1> HIDE DEF all
<1>9. StreamInv'
  BY <1>1, <1>3, <1>4, <1>7 DEF StreamInv
<1>10. ASSUME ~dropped[s] PROVE Intact(s)' /\ Between(s)'
  <2> DEFINE n == Len(packets[s]) + 1
  <2>1. Intact(s) /\ Inside(s)
    BY <1>1, <1>2, <1>10 DEF ReaderInv, Length
  <2>2. /\ stream[s][1].frame = n /\ Len(body[s]) = stream[s][1].size - remaining[s]
        /\ stream[s][1].at = Len(body[s]) + 1
        /\ \A i \in 1 .. Len(body[s]) :
             body[s][i].frame = n /\ body[s][i].at = i /\ body[s][i].size = stream[s][1].size
    BY <2>1 DEF Inside
  <2>3. stream[s][1].size \in Nat /\ n \in Nat
    <3>1. stream[s][1].size \in Nat
      BY <1>3, SizesAssumption DEF Unit
    <3>2. n \in Nat
      BY <1>1
    <3>3. QED
      BY <3>1, <3>2
  <2>4. stream[s][1].size = Len(body[s]) + 1 /\ stream[s][1].at = stream[s][1].size
    BY <1>1, <1>2, <2>2, <2>3
  <2> HIDE DEF n
  <2>5. ASSUME NEW i \in 1 .. Len(packet)
        PROVE  /\ packet[i].frame = n /\ packet[i].at = i
               /\ packet[i].size = stream[s][1].size
    <3>1. CASE i \in 1 .. Len(body[s])
      BY <1>5, <2>2, <3>1
    <3>2. CASE i = Len(body[s]) + 1
      BY <1>5, <2>2, <3>2
    <3>3. QED
      BY <1>1, <1>5, <3>1, <3>2
  <2>6. packet # <<>> /\ Len(packet) = packet[1].size
    <3>1. 1 \in 1 .. Len(packet)
      BY <1>1, <1>5
    <3>2. packet # <<>>
      BY <3>1, EmptySeq
    <3>3. packet[1].size = stream[s][1].size
      BY <2>5, <3>1
    <3>4. QED
      BY <1>5, <2>4, <3>2, <3>3
  <2>7. Intact(s)'
    <3> SUFFICES ASSUME NEW k \in 1 .. Len(all)
                 PROVE  /\ all[k] # <<>> /\ Len(all[k]) = all[k][1].size
                        /\ \A i \in 1 .. Len(all[k]) : all[k][i].frame = k /\ all[k][i].at = i
      BY <1>7 DEF Intact
    <3>1. CASE k \in 1 .. Len(packets[s])
      <4>1. all[k] = packets[s][k]
        BY <1>6, <3>1
      <4>2. QED
        BY <2>1, <3>1, <4>1 DEF Intact
    <3>2. CASE k = n
      BY <1>6, <2>5, <2>6, <3>2 DEF n
    <3>3. QED
      BY <1>1, <1>6, <3>1, <3>2 DEF n
  <2>8. Len(all) = n
    BY <1>6 DEF n
  <2>9. rest = <<>> => sent[s] = n
    BY <1>3, <2>2
  <2>10. rest # <<>> => rest[1].at = 0 /\ rest[1].frame = n + 1
    <3>1. ~(stream[s][1].at < stream[s][1].size)
      BY <2>3, <2>4
    <3>2. QED
      BY <1>3, <2>2, <3>1 DEF Follows
  <2>11. Between(s)'
    BY <1>4, <1>7, <2>8, <2>9, <2>10 DEF Between
  <2>12. QED
    BY <2>7, <2>11
<1>11. ReaderInv'
  <2> SUFFICES ASSUME NEW r \in Sides, ~dropped'[r]
               PROVE  Intact(r)' /\ Between(r)'
    BY <1>7 DEF ReaderInv
  <2>1. CASE r = s
    BY <1>7, <1>10, <2>1
  <2>2. CASE r # s
    <3>1. ~dropped[r] /\ remaining[r] = Length
      BY <1>7, <2>2
    <3>2. Intact(r) /\ Between(r)
      BY <1>1, <3>1 DEF ReaderInv
    <3>3. /\ packets'[r] = packets[r] /\ stream'[r] = stream[r] /\ body'[r] = <<>>
          /\ sent'[r] = sent[r]
      BY <1>4, <1>7, <2>2
    <3>4. Intact(r)'
      BY <3>2, <3>3 DEF Intact
    <3>5. Between(r)'
      BY <3>2, <3>3 DEF Between
    <3>6. QED
      BY <3>4, <3>5
  <2>3. QED
    BY <2>1, <2>2
<1>12. ~reading' => \E r \in Sides : dropped'[r]
  BY <1>4, <1>7 DEF Inv
<1>13. QED
  BY <1>8, <1>9, <1>11, <1>12 DEF Inv

LEMMA NextInv == Inv /\ [Next]_vars => Inv'
<1> SUFFICES ASSUME Inv, [Next]_vars PROVE Inv'
  OBVIOUS
<1>1. ASSUME NEW s \in Sides, ReadLength(s) \/ ReadBody(s) \/ ReadLast(s) PROVE Inv'
  BY <1>1, ReadLengthStep, ReadBodyStep, ReadLastStep
<1>2. ASSUME NEW s \in Sides, NEW size \in Sizes, Send(s, size) PROVE Inv'
  BY <1>2, SendStep
<1>3. CASE UNCHANGED vars
  BY <1>3 DEF vars, Inv, TypeInv, StreamInv, ReaderInv, Intact, Between, Inside
<1>4. QED
  BY <1>1, <1>2, <1>3 DEF Next

(* However the reads of the two sides interleave, and wherever the select drops them: a
   side whose read was never dropped half-way gets its peer's frames, whole and in
   order, and only such a drop can make the loop refuse a length. *)
THEOREM WholeUnlessDropped == Spec => []IntactUnlessDropped
<1>1. Inv => IntactUnlessDropped
  BY DEF Inv, ReaderInv, IntactUnlessDropped
<1>2. QED
  BY InitInv, NextInv, <1>1, PTL DEF Spec
=============================================================================
