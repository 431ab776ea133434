---------------------------- MODULE FramedRead ----------------------------
(***************************************************************************)
(* The select of PlayStateMachine::run (src/src/routing/state_machine.rs)  *)
(* over two calls of read_packet_with_compression (src/src/network/        *)
(* codec.rs), one on the client's stream and one on the backend's.         *)
(*                                                                         *)
(* Each turn of the loop makes two new reads.  When one of them has its    *)
(* packet, tokio::select! drops the other, and what that one had taken     *)
(* from its stream is gone with it: the length, or a part of the body,     *)
(* which read_exact holds in a buffer of its own.                          *)
(*                                                                         *)
(* A frame is its length followed by its body, in units that arrive one by *)
(* one; peers send well-formed frames.                                     *)
(***************************************************************************)
EXTENDS Integers, Sequences

CONSTANTS
  Sides,        \* the client and the backend
  Sizes,        \* lengths of bodies, in units
  MaxFrames     \* bound: frames sent by each side

ASSUME SizesAssumption == Sizes \subseteq Nat \ {0}
ASSUME MaxFramesAssumption == MaxFrames \in Nat

VARIABLES
  stream,       \* what each side sent and no read has taken
  sent,         \* how many frames each side sent
  body,         \* what the pending read has of the body
  remaining,    \* how much it still wants, or Length when it has not read the length
  packets,      \* the bodies handed to handle_client_packet or handle_backend_packet
  dropped,      \* a read on this side was dropped after it had taken something
  reading       \* the loop goes on; FALSE once a length was refused

vars == <<stream, sent, body, remaining, packets, dropped, reading>>

Length == 0 - 1

(* The nth frame of a side: its length at 0, then its body. *)
Frame(n, size) == [i \in 1 .. size + 1 |-> [frame |-> n, at |-> i - 1, size |-> size]]

Init ==
  /\ stream = [s \in Sides |-> <<>>] /\ sent = [s \in Sides |-> 0]
  /\ body = [s \in Sides |-> <<>>] /\ remaining = [s \in Sides |-> Length]
  /\ packets = [s \in Sides |-> <<>>] /\ dropped = [s \in Sides |-> FALSE]
  /\ reading = TRUE

(* A peer sends a frame; it arrives unit by unit, as the reads take it. *)
Send(s, size) ==
  /\ reading /\ sent[s] < MaxFrames
  /\ sent' = [sent EXCEPT ![s] = @ + 1]
  /\ stream' = [stream EXCEPT ![s] = @ \o Frame(sent[s] + 1, size)]
  /\ UNCHANGED <<body, remaining, packets, dropped, reading>>

(* What a unit means to a read that takes it for a length: a byte of a body can be
   any length, or one that is refused (zero, negative or above the maximum). *)
LengthOf(unit) == IF unit.at = 0 THEN {unit.size} ELSE Sizes \cup {0}

(* read_varint: the length.  A length that is refused is an error of the stream,
   which ends the loop on the client's side and the connection on the backend's. *)
ReadLength(s) ==
  /\ reading /\ stream[s] # <<>> /\ remaining[s] = Length
  /\ stream' = [stream EXCEPT ![s] = Tail(@)]
  /\ \E size \in LengthOf(Head(stream[s])) :
       \/ size # 0 /\ remaining' = [remaining EXCEPT ![s] = size] /\ UNCHANGED reading
       \/ size = 0 /\ reading' = FALSE /\ UNCHANGED remaining
  /\ UNCHANGED <<sent, body, packets, dropped>>

(* read_exact: a unit of the body, not the last. *)
ReadBody(s) ==
  /\ reading /\ stream[s] # <<>> /\ remaining[s] > 1
  /\ stream' = [stream EXCEPT ![s] = Tail(@)]
  /\ body' = [body EXCEPT ![s] = Append(@, Head(stream[s]))]
  /\ remaining' = [remaining EXCEPT ![s] = @ - 1]
  /\ UNCHANGED <<sent, packets, dropped, reading>>

(* The read on side s has its packet: the packet is handled, the other reads are
   dropped, and the next turn of the loop makes new ones. *)
Select(s, packet, rest) ==
  /\ packets' = [packets EXCEPT ![s] = Append(@, packet)]
  /\ stream' = [stream EXCEPT ![s] = rest]
  /\ body' = [r \in Sides |-> <<>>] /\ remaining' = [r \in Sides |-> Length]
  /\ dropped' = [r \in Sides |-> dropped[r] \/ (r # s /\ remaining[r] # Length)]
  /\ UNCHANGED <<sent, reading>>

(* Mutant of ReadLast: the packet is taken to be complete a unit too early. *)
ReadLastEarly(s) ==
  /\ reading /\ stream[s] # <<>> /\ remaining[s] = 1
  /\ Select(s, body[s], stream[s])

(* read_exact: the last unit of the body. *)
ReadLast(s) ==
  /\ reading /\ stream[s] # <<>> /\ remaining[s] = 1
  /\ Select(s, Append(body[s], Head(stream[s])), Tail(stream[s]))

Next ==
  \/ \E s \in Sides : ReadLength(s) \/ ReadBody(s) \/ ReadLast(s)
  \/ \E s \in Sides, size \in Sizes : Send(s, size)

Spec == Init /\ [][Next]_vars

-----------------------------------------------------------------------------
(* The packets of a side are the frames that side sent, whole and in order. *)
Intact(s) ==
  \A n \in 1 .. Len(packets[s]) :
    /\ packets[s][n] # <<>> /\ Len(packets[s][n]) = packets[s][n][1].size
    /\ \A i \in 1 .. Len(packets[s][n]) :
         packets[s][n][i].frame = n /\ packets[s][n][i].at = i

(* As long as no read on a side was dropped half-way, that side's packets are its
   frames; and with well-formed peers the loop ends only after such a loss. *)
IntactUnlessDropped ==
  /\ \A s \in Sides : ~dropped[s] => Intact(s)
  /\ ~reading => \E s \in Sides : dropped[s]

(* "Unintercepted packets forward untouched": every packet that is handled is one
   that a peer sent. *)
PacketsIntact == \A s \in Sides : Intact(s)
=============================================================================
