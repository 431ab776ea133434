------------------------------ MODULE JoinProofs ------------------------------
(***************************************************************************)
(* The invariants of Join for all versions and thresholds and for queues   *)
(* of any length.  None of them is inductive.  What makes them so is an    *)
(* account of where the three parties stand: which packets can be on their *)
(* way at each stage of the proxy, in which order, in which framing, and   *)
(* what their sender has become by then.                                   *)
(***************************************************************************)
EXTENDS Join, SequenceTheorems, TLAPS

Latest(q) == q[Len(q)]

(* Before the player has a profile; before there is a backend. *)
Unknown     == {"handshake", "status", "ping", "login_start", "encryption", "auth"}
Backendless == Unknown \cup {"script", "connect"}

(* What the stage says of the proxy's own variables. *)
ProxyInv ==
  stage # "over" =>
    /\ encrypted = (config.online_mode /\ stage \notin Unknown)
    /\ stage \notin Unknown => profile = IF config.online_mode THEN "verified" ELSE "claimed"
    /\ stage \in {"encryption", "auth"} => config.online_mode
    /\ stage \in Backendless => backend = NoBackend
    /\ stage \notin Backendless => backend # NoBackend
    /\ stage \in Backendless \cup {"forwarding", "backend_login"} =>
         compression_threshold = Uncompressed
    /\ stage = "backend_success" => compression_threshold \in Thresholds
    /\ stage \in {"ack", "bridging"} => version >= 764
    /\ stage # "play" => ~client_finished_config
    /\ stage \notin {"bridging", "play"} => ~backend_finished_config

-----------------------------------------------------------------------------
(* The client: what it sends after what, what the proxy finds at the head of its queue,
   where the client is once it has sent something, and where it is with nothing on the
   way. *)
ClientNext(k, l) ==
  \/ k = "status_handshake" /\ l = "status_request"
  \/ k = "login_handshake" /\ l = "login_start"
  \/ k \in {"login_ack", "config_other"} /\ l \in {"config_other", "finish"}

ClientDue(k) ==
  \/ stage = "handshake" /\ k \in {"status_handshake", "login_handshake"}
  \/ stage = "status" /\ k = "status_request"
  \/ stage = "ping" /\ k = "ping"
  \/ stage = "login_start" /\ k = "login_start"
  \/ stage = "encryption" /\ k = "encryption_response"
  \/ stage = "ack" /\ k = "login_ack"
  \/ stage = "bridging" /\ k \in {"config_other", "finish"}

ClientSent(k) ==
  /\ k = "status_handshake" => client.state = "Status" /\ client.next = "status_request"
  /\ k = "login_handshake" => client.state = "Login" /\ client.next = "login_start"
  /\ k \in {"status_request", "ping"} => client.state = "Status" /\ client.next = "none"
  /\ k \in {"login_start", "encryption_response"} =>
       client.state = "Login" /\ client.next = "none"
  /\ k \in {"login_ack", "config_other"} =>
       \/ client.state = "Configuration" /\ client.next = "none"
       \/ client.state = "Play" /\ client.next = "finish"
  /\ k = "finish" => client.state = "Play" /\ client.next = "none"

ClientQuiet ==
  /\ stage = "handshake" => client.state = "Handshake" /\ client.next = "handshake"
  /\ stage = "status" => client.state = "Status" /\ client.next = "status_request"
  /\ stage = "ping" => client.state = "Status" /\ client.next = "ping"
  /\ stage = "login_start" => client.state = "Login" /\ client.next = "login_start"
  /\ stage = "encryption" => client.state = "Login" /\ client.next = "encryption_response"
  /\ stage \in {"auth", "script", "connect", "forwarding", "backend_login",
                "backend_success"} => client.state = "Login" /\ client.next = "none"
  /\ stage = "ack" => client.state = "Configuration" /\ client.next = "login_ack"
  /\ stage = "bridging" =>
       \/ client.state = "Configuration" /\ client.next = "none"
       \/ client.state = "Play" /\ client.next = "finish"
  /\ stage = "play" => client.state = "Play" /\ client.next = "none"

(* The client encrypts from its encryption response on, the proxy from "script" on. *)
ClientFraming ==
  IF stage = "auth" \/ (stage = "encryption" /\ toProxy # <<>>)
    THEN [Stream EXCEPT !.encrypted = TRUE] ELSE Stream

ClientQueue ==
  /\ \A i \in 1 .. Len(toProxy) : toProxy[i].framing = Stream
  /\ \A i \in 1 .. Len(toProxy) - 1 : ClientNext(toProxy[i].kind, toProxy[i + 1].kind)
  /\ toProxy # <<>> => ClientDue(toProxy[1].kind) /\ ClientSent(Latest(toProxy).kind)
  /\ toProxy = <<>> => ClientQuiet

ClientInv ==
  stage # "over" =>
    /\ client.missed = {} /\ client.framing = ClientFraming
    /\ ClientQueue
    /\ stage \in {"ack", "bridging"} =>
         client.state = IF backend_finished_config THEN "Play" ELSE "Configuration"

-----------------------------------------------------------------------------
(* The backend, in the same way.  A packet is framed with the threshold that the one
   before it left in force. *)
BackendNext(m, n) ==
  /\ n.threshold = m.announced
  /\ \/ m.kind = "set_compression"
        /\ n.kind \in {"login_success", "login_disconnect", "encryption_request"}
     \/ m.kind \in {"registry", "config_other"}
        /\ n.kind \in {"registry", "config_other", "config_disconnect", "finish"}

Announces(m) ==
  IF m.kind = "set_compression" THEN m.announced \in Thresholds ELSE m.announced = m.threshold

BackendDue(k) ==
  \/ stage \in {"forwarding", "backend_login"} /\ k \in {"plugin_request", "set_compression"}
  \/ stage \in {"forwarding", "backend_login", "backend_success"}
       /\ k \in {"login_success", "login_disconnect", "encryption_request"}
  \/ stage = "bridging" /\ k \in {"registry", "config_other", "config_disconnect", "finish"}

BackendSent(k) ==
  /\ k = "plugin_request" => backend.state = "plugin_wait"
  /\ k = "set_compression" => backend.state = "login"
  /\ k = "login_success" => backend.state = IF version >= 764 THEN "ack_wait" ELSE "Play"
  /\ k \in {"login_disconnect", "encryption_request", "config_disconnect"} =>
       backend.state = "closed"
  /\ k \in {"registry", "config_other"} => backend.state = "Configuration"
  /\ k = "finish" => backend.state = "finish_wait"

BackendQuiet ==
  /\ stage \in {"forwarding", "backend_login"} => backend.state \in {"plugin", "login"}
  /\ stage = "backend_success" => backend.state = "login"
  /\ stage = "ack" => backend.state = "ack_wait"
  /\ stage = "bridging" =>
       backend.state = IF backend_finished_config THEN "finish_wait" ELSE "Configuration"
  /\ stage = "play" => backend.state = "Play"

BackendQueue ==
  /\ \A i \in 1 .. Len(fromBackend) : Announces(fromBackend[i])
  /\ \A i \in 1 .. Len(fromBackend) - 1 : BackendNext(fromBackend[i], fromBackend[i + 1])
  /\ fromBackend # <<>> =>
       /\ fromBackend[1].threshold = compression_threshold
       /\ BackendDue(fromBackend[1].kind)
       /\ Latest(fromBackend).announced = backend.threshold
       /\ BackendSent(Latest(fromBackend).kind)
  /\ fromBackend = <<>> => backend.threshold = compression_threshold /\ BackendQuiet

BackendInv ==
  stage # "over" =>
    IF stage \in Backendless THEN fromBackend = <<>>
    ELSE /\ backend.missed = {} /\ BackendQueue
         /\ stage = "bridging" =>
              /\ backend.threshold = compression_threshold
              /\ backend.state \in {"Configuration", "finish_wait", "closed"}
              /\ backend_finished_config => fromBackend = <<>>

Inv == TypeOK /\ OnlyVerified /\ WritesUnderstood /\ ProxyInv /\ ClientInv /\ BackendInv

-----------------------------------------------------------------------------
(* Queues: what is left when the head is taken, and what an addition changes. *)
LEMMA TakeShape ==
  ASSUME NEW S, NEW q \in Seq(S), q # <<>>
  PROVE  /\ Head(q) = q[1] /\ q[1] \in S /\ Latest(q) \in S /\ Tail(q) \in Seq(S)
         /\ \A i \in 1 .. Len(Tail(q)) : i + 1 \in 1 .. Len(q) /\ Tail(q)[i] = q[i + 1]
         /\ \A i \in 1 .. Len(Tail(q)) - 1 :
              i + 1 \in 1 .. Len(q) - 1 /\ Tail(q)[i] = q[i + 1] /\ Tail(q)[i + 1] = q[(i + 1) + 1]
         /\ 1 \in 1 .. Len(q)
         /\ Tail(q) # <<>> => /\ Latest(Tail(q)) = Latest(q)
                              /\ 1 \in 1 .. Len(q) - 1 /\ Tail(q)[1] = q[1 + 1]
         /\ Tail(q) = <<>> => Latest(q) = q[1]
<1>1. Len(q) \in Nat \ {0} /\ Head(q) = q[1]
  BY EmptySeq
<1>2. q[1] \in S /\ Latest(q) \in S /\ 1 \in 1 .. Len(q)
  <2>1. 1 \in 1 .. Len(q) /\ Len(q) \in 1 .. Len(q)
    BY <1>1
  <2>2. QED
    BY <2>1, ElementOfSeq DEF Latest
<1>3. /\ Tail(q) \in Seq(S) /\ Len(Tail(q)) = Len(q) - 1
      /\ \A i \in 1 .. Len(q) - 1 : Tail(q)[i] = q[i + 1]
  BY HeadTailProperties
<1>4. \A i \in 1 .. Len(Tail(q)) : i + 1 \in 1 .. Len(q) /\ Tail(q)[i] = q[i + 1]
  BY <1>1, <1>3
<1>5. ASSUME NEW i \in 1 .. Len(Tail(q)) - 1
      PROVE  i + 1 \in 1 .. Len(q) - 1 /\ Tail(q)[i] = q[i + 1] /\ Tail(q)[i + 1] = q[(i + 1) + 1]
  <2>1. i \in 1 .. Len(q) - 1 /\ i + 1 \in 1 .. Len(q) - 1
    BY <1>1, <1>3
  <2>2. QED
    BY <1>3, <2>1
<1>6. ASSUME Tail(q) # <<>>
      PROVE  Latest(Tail(q)) = Latest(q) /\ 1 \in 1 .. Len(q) - 1 /\ Tail(q)[1] = q[1 + 1]
  <2>1. Len(q) - 1 \in 1 .. Len(q) - 1 /\ 1 \in 1 .. Len(q) - 1 /\ (Len(q) - 1) + 1 = Len(q)
    BY <1>1, <1>3, <1>6, EmptySeq
  <2>2. Tail(q)[Len(q) - 1] = q[(Len(q) - 1) + 1] /\ Tail(q)[1] = q[1 + 1]
    BY <1>3, <2>1
  <2>3. QED
    BY <1>3, <2>1, <2>2 DEF Latest
<1>7. ASSUME Tail(q) = <<>> PROVE Latest(q) = q[1]
  <2>1. Len(q) - 1 = 0
    BY <1>3, <1>7, EmptySeq
  <2>2. Len(q) = 1
    BY <1>1, <2>1
  <2>3. QED
    BY <2>2 DEF Latest
<1>8. QED
  BY <1>1, <1>2, <1>3, <1>4, <1>5, <1>6, <1>7

LEMMA AppendShape ==
  ASSUME NEW S, NEW q \in Seq(S), NEW m \in S
  PROVE  LET new == Append(q, m)
         IN /\ new \in Seq(S) /\ new # <<>> /\ Latest(new) = m
            /\ \A i \in 1 .. Len(new) : (i \in 1 .. Len(q) /\ new[i] = q[i]) \/ new[i] = m
            /\ \A i \in 1 .. Len(new) - 1 :
                 \/ i \in 1 .. Len(q) - 1 /\ new[i] = q[i] /\ new[i + 1] = q[i + 1]
                 \/ q # <<>> /\ new[i] = Latest(q) /\ new[i + 1] = m
            /\ q # <<>> => new[1] = q[1]
            /\ q = <<>> => new[1] = m
<1> DEFINE new == Append(q, m)
<1>1. /\ Len(q) \in Nat /\ new \in Seq(S) /\ Len(new) = Len(q) + 1
      /\ \A i \in 1 .. Len(q) : new[i] = q[i]
      /\ new[Len(q) + 1] = m
  BY AppendProperties, LenProperties
<1> HIDE DEF new
<1>2. new # <<>>
  BY <1>1, EmptySeq
<1>3. Latest(new) = m
  BY <1>1 DEF Latest
<1>4. \A i \in 1 .. Len(new) : (i \in 1 .. Len(q) /\ new[i] = q[i]) \/ new[i] = m
  <2> SUFFICES ASSUME NEW i \in 1 .. Len(new)
               PROVE  (i \in 1 .. Len(q) /\ new[i] = q[i]) \/ new[i] = m
    OBVIOUS
  <2>1. i \in 1 .. Len(q) \/ i = Len(q) + 1
    BY <1>1
  <2>2. QED
    BY <1>1, <2>1
<1>5. ASSUME NEW i \in 1 .. Len(new) - 1
      PROVE  \/ i \in 1 .. Len(q) - 1 /\ new[i] = q[i] /\ new[i + 1] = q[i + 1]
             \/ q # <<>> /\ new[i] = Latest(q) /\ new[i + 1] = m
  <2>1. i \in 1 .. Len(q) /\ ((i + 1 \in 1 .. Len(q) /\ i \in 1 .. Len(q) - 1) \/ i = Len(q))
    BY <1>1
  <2>2. q # <<>>
    BY <2>1, EmptySeq
  <2>3. QED
    BY <1>1, <2>1, <2>2 DEF Latest
<1>6. q # <<>> => new[1] = q[1]
  BY <1>1, EmptySeq
<1>7. q = <<>> => new[1] = m
  BY <1>1, EmptySeq
<1>8. QED
  BY <1>1, <1>2, <1>3, <1>4, <1>5, <1>6, <1>7 DEF new

-----------------------------------------------------------------------------
(* What the proxy tells a client keeps it a client. *)
LEMMA ToldType ==
  ASSUME NEW c \in Clients, NEW kind \in ProxyKinds, NEW framing,
         NEW announced \in Thresholds \cup {Uncompressed}
  PROVE  Told(c, kind, framing, announced) \in Clients
<1>1. [c EXCEPT !.missed = @ \cup {kind}] \in Clients
  BY DEF Clients
<1>2. [c EXCEPT !.framing.threshold = announced] \in Clients
  BY DEF Clients, Framing
<1>3. /\ [c EXCEPT !.next = "ping"] \in Clients
      /\ [c EXCEPT !.next = "encryption_response"] \in Clients
      /\ [c EXCEPT !.state = "Configuration", !.next = "login_ack"] \in Clients
      /\ [c EXCEPT !.state = "Play"] \in Clients
      /\ [c EXCEPT !.state = "Play", !.next = "finish"] \in Clients
  BY DEF Clients, ClientKinds
<1>4. After(c, kind, announced) \in Clients
  BY <1>2, <1>3 DEF After
<1>5. QED
  BY <1>1, <1>4 DEF Told

(* What it does not understand, it misses. *)
LEMMA Missed ==
  ASSUME NEW c \in Clients, NEW kind, c.state # StateOf(kind), NEW announced
  PROVE  Told(c, kind, c.framing, announced).missed = c.missed \cup {kind}
BY DEF Told, Clients

(* What the proxy passes on to a backend that is due moves that backend on. *)
LEMMA ServedWell ==
  ASSUME NEW b \in Backends, NEW kind, b.threshold = compression_threshold
  PROVE  /\ b.state = "plugin_wait" /\ kind = "plugin_response" =>
              Served(b, kind) = [b EXCEPT !.state = "login"]
         /\ b.state = "ack_wait" /\ kind = "login_ack" =>
              Served(b, kind) = [b EXCEPT !.state = "Configuration"]
         /\ b.state = "finish_wait" /\ kind = "finish" =>
              Served(b, kind) = [b EXCEPT !.state = "Play"]
         /\ b.state \in {"Configuration", "finish_wait", "closed"} /\ kind = "config_other" =>
              Served(b, kind) = b
<1>1. [b EXCEPT !.state = b.state] = b
  BY DEF Backends
<1>2. b.state # "lost"
  BY DEF Backends
<1>3. QED
  BY <1>1, <1>2 DEF Served

-----------------------------------------------------------------------------
(* The proxy takes the client's next packet: the rest is in order behind it, and if
   there is none the client is where that packet left it. *)
LEMMA Takes ==
  ASSUME TypeOK, ClientQueue, toProxy # <<>>, toProxy' = Tail(toProxy),
         UNCHANGED <<encrypted, compression_threshold>>
  PROVE  /\ Head(toProxy) = toProxy[1] /\ toProxy[1] \in ClientPackets
         /\ ClientDue(toProxy[1].kind) /\ toProxy' \in Seq(ClientPackets)
         /\ \A i \in 1 .. Len(toProxy') : toProxy'[i].framing = Stream'
         /\ \A i \in 1 .. Len(toProxy') - 1 : ClientNext(toProxy'[i].kind, toProxy'[i + 1].kind)
         /\ toProxy' # <<>> => /\ ClientNext(toProxy[1].kind, toProxy'[1].kind)
                               /\ ClientSent(Latest(toProxy').kind)
         /\ toProxy' = <<>> => ClientSent(toProxy[1].kind)
<1> DEFINE q == toProxy
           r == toProxy'
<1>1. q \in Seq(ClientPackets)
  BY DEF TypeOK
<1>2. /\ Head(q) = q[1] /\ q[1] \in ClientPackets /\ r \in Seq(ClientPackets)
      /\ \A i \in 1 .. Len(r) : i + 1 \in 1 .. Len(q) /\ r[i] = q[i + 1]
      /\ \A i \in 1 .. Len(r) - 1 :
           i + 1 \in 1 .. Len(q) - 1 /\ r[i] = q[i + 1] /\ r[i + 1] = q[(i + 1) + 1]
      /\ r # <<>> => Latest(r) = Latest(q) /\ 1 \in 1 .. Len(q) - 1 /\ r[1] = q[1 + 1]
      /\ r = <<>> => Latest(q) = q[1]
  BY <1>1, TakeShape
<1>3. Stream' = Stream
  BY DEF Stream
<1>4. \A i \in 1 .. Len(r) : r[i].framing = Stream'
  BY <1>2, <1>3 DEF ClientQueue
<1>5. \A i \in 1 .. Len(r) - 1 : ClientNext(r[i].kind, r[i + 1].kind)
  <2> SUFFICES ASSUME NEW i \in 1 .. Len(r) - 1 PROVE ClientNext(r[i].kind, r[i + 1].kind)
    OBVIOUS
  <2>1. ClientNext(q[i + 1].kind, q[(i + 1) + 1].kind)
    BY <1>2 DEF ClientQueue
  <2>2. QED
    BY <1>2, <2>1
<1>6. ASSUME r # <<>> PROVE ClientNext(q[1].kind, r[1].kind) /\ ClientSent(Latest(r).kind)
  <2>1. ClientNext(q[1].kind, q[1 + 1].kind) /\ ClientSent(Latest(q).kind)
    BY <1>2, <1>6 DEF ClientQueue
  <2>2. QED
    BY <1>2, <1>6, <2>1
<1>7. ClientDue(q[1].kind) /\ (r = <<>> => ClientSent(q[1].kind))
  BY <1>2 DEF ClientQueue
<1>8. QED
  BY <1>2, <1>4, <1>5, <1>6, <1>7

(* The proxy hears the backend's next packet. *)
LEMMA Hears ==
  ASSUME TypeOK, BackendQueue, fromBackend # <<>>, fromBackend' = Tail(fromBackend)
  PROVE  /\ Head(fromBackend) = fromBackend[1] /\ fromBackend[1] \in BackendPackets
         /\ BackendDue(fromBackend[1].kind) /\ Announces(fromBackend[1])
         /\ fromBackend[1].threshold = compression_threshold
         /\ fromBackend' \in Seq(BackendPackets)
         /\ \A i \in 1 .. Len(fromBackend') : Announces(fromBackend'[i])
         /\ \A i \in 1 .. Len(fromBackend') - 1 : BackendNext(fromBackend'[i], fromBackend'[i + 1])
         /\ fromBackend' # <<>> => /\ BackendNext(fromBackend[1], fromBackend'[1])
                                   /\ Latest(fromBackend').announced = backend.threshold
                                   /\ BackendSent(Latest(fromBackend').kind)
         /\ fromBackend' = <<>> => /\ fromBackend[1].announced = backend.threshold
                                   /\ BackendSent(fromBackend[1].kind)
<1> DEFINE q == fromBackend
           r == fromBackend'
<1>1. q \in Seq(BackendPackets)
  BY DEF TypeOK
<1>2. /\ Head(q) = q[1] /\ q[1] \in BackendPackets /\ r \in Seq(BackendPackets)
      /\ 1 \in 1 .. Len(q)
      /\ \A i \in 1 .. Len(r) : i + 1 \in 1 .. Len(q) /\ r[i] = q[i + 1]
      /\ \A i \in 1 .. Len(r) - 1 :
           i + 1 \in 1 .. Len(q) - 1 /\ r[i] = q[i + 1] /\ r[i + 1] = q[(i + 1) + 1]
      /\ r # <<>> => Latest(r) = Latest(q) /\ 1 \in 1 .. Len(q) - 1 /\ r[1] = q[1 + 1]
      /\ r = <<>> => Latest(q) = q[1]
  BY <1>1, TakeShape
<1>3. \A i \in 1 .. Len(r) : Announces(r[i])
  BY <1>2 DEF BackendQueue
<1>4. \A i \in 1 .. Len(r) - 1 : BackendNext(r[i], r[i + 1])
  <2> SUFFICES ASSUME NEW i \in 1 .. Len(r) - 1 PROVE BackendNext(r[i], r[i + 1])
    OBVIOUS
  <2>1. BackendNext(q[i + 1], q[(i + 1) + 1])
    BY <1>2 DEF BackendQueue
  <2>2. QED
    BY <1>2, <2>1
<1>5. ASSUME r # <<>>
      PROVE  /\ BackendNext(q[1], r[1]) /\ Latest(r).announced = backend.threshold
             /\ BackendSent(Latest(r).kind)
  <2>1. /\ BackendNext(q[1], q[1 + 1]) /\ Latest(q).announced = backend.threshold
        /\ BackendSent(Latest(q).kind)
    BY <1>2, <1>5 DEF BackendQueue
  <2>2. QED
    BY <1>2, <1>5, <2>1
<1>6. /\ BackendDue(q[1].kind) /\ Announces(q[1]) /\ q[1].threshold = compression_threshold
      /\ r = <<>> => q[1].announced = backend.threshold /\ BackendSent(q[1].kind)
  BY <1>2 DEF BackendQueue
<1>7. QED
  BY <1>2, <1>3, <1>4, <1>5, <1>6

(* Nothing of a client is on its way while the proxy awaits no client. *)
LEMMA Silent ==
  ASSUME ClientInv, stage \in {"auth", "script", "connect", "forwarding", "backend_login",
                               "backend_success", "play"}
  PROVE  toProxy = <<>> /\ ClientQuiet /\ client.missed = {} /\ client.framing = ClientFraming
BY DEF ClientInv, ClientQueue, ClientDue

(* Some packets are the last that is on its way. *)
LEMMA TakesLast ==
  ASSUME TypeOK, ClientQueue, toProxy # <<>>, toProxy' = Tail(toProxy),
         Head(toProxy).kind \in {"status_request", "ping", "login_start",
                                 "encryption_response", "finish"}
  PROVE  toProxy' = <<>> /\ ClientDue(Head(toProxy).kind) /\ ClientSent(Head(toProxy).kind)
<1> DEFINE q == toProxy
           r == toProxy'
<1>1. q \in Seq(ClientPackets)
  BY DEF TypeOK
<1>2. /\ Head(q) = q[1]
      /\ r # <<>> => 1 \in 1 .. Len(q) - 1 /\ r[1] = q[1 + 1]
      /\ r = <<>> => Latest(q) = q[1]
  BY <1>1, TakeShape
<1>3. r = <<>>
  <2> SUFFICES ASSUME r # <<>> PROVE FALSE
    OBVIOUS
  <2>1. ClientNext(q[1].kind, q[1 + 1].kind)
    BY <1>2 DEF ClientQueue
  <2>2. QED
    BY <1>2, <2>1 DEF ClientNext
<1>4. QED
  BY <1>2, <1>3 DEF ClientQueue

LEMMA HearsLast ==
  ASSUME TypeOK, BackendQueue, fromBackend # <<>>, fromBackend' = Tail(fromBackend),
         Head(fromBackend).kind \in {"plugin_request", "login_success", "finish"}
  PROVE  /\ fromBackend' = <<>> /\ backend.threshold = compression_threshold
         /\ BackendDue(Head(fromBackend).kind) /\ BackendSent(Head(fromBackend).kind)
<1>1. /\ Head(fromBackend) = fromBackend[1]
      /\ fromBackend[1].threshold = compression_threshold
      /\ BackendDue(fromBackend[1].kind) /\ Announces(fromBackend[1])
      /\ fromBackend' # <<>> => BackendNext(fromBackend[1], fromBackend'[1])
      /\ fromBackend' = <<>> => /\ fromBackend[1].announced = backend.threshold
                                /\ BackendSent(fromBackend[1].kind)
  BY Hears
<1>2. fromBackend' = <<>>
  BY <1>1 DEF BackendNext
<1>3. fromBackend[1].announced = fromBackend[1].threshold
  BY <1>1 DEF Announces
<1>4. QED
  BY <1>1, <1>2, <1>3

(* With nothing on its way it is enough where a party is. *)
LEMMA QuietClient ==
  ASSUME toProxy' = <<>>, ClientQuiet', client'.missed = {}, client'.framing = ClientFraming',
         stage' \in {"ack", "bridging"} =>
           client'.state = IF backend_finished_config' THEN "Play" ELSE "Configuration"
  PROVE  ClientInv'
<1>1. Len(toProxy') = 0
  BY EmptySeq
<1>2. ClientQueue'
  BY <1>1 DEF ClientQueue
<1>3. QED
  BY <1>2 DEF ClientInv

LEMMA QuietBackend ==
  ASSUME fromBackend' = <<>>, stage' \notin Backendless, BackendQuiet', backend'.missed = {},
         backend'.threshold = compression_threshold'
  PROVE  BackendInv'
<1>1. Len(fromBackend') = 0
  BY EmptySeq
<1>2. BackendQueue'
  BY <1>1 DEF BackendQueue
<1>3. QED
  BY <1>1, <1>2 DEF BackendInv, BackendQuiet

(* Where a party stands depends on its own variables and on the stage. *)
LEMMA SameClient ==
  ASSUME ClientInv, UNCHANGED <<stage, encrypted, compression_threshold,
                                backend_finished_config, client, toProxy>>
  PROVE  ClientInv'
BY DEF ClientInv, ClientQueue, ClientDue, ClientSent, ClientQuiet, ClientFraming, Stream

LEMMA SameBackend ==
  ASSUME BackendInv, UNCHANGED <<stage, version, compression_threshold,
                                 backend_finished_config, backend, fromBackend>>
  PROVE  BackendInv'
BY DEF BackendInv, BackendQueue, BackendDue, BackendSent, BackendQuiet

(* A join that is over owes only what is written down already. *)
LEMMA Over ==
  ASSUME stage' = "over", TypeOK', OnlyVerified', WritesUnderstood'
  PROVE  Inv'
BY DEF Inv, ProxyInv, ClientInv, BackendInv

LEMMA InitInv == Init => Inv
<1> SUFFICES ASSUME Init PROVE Inv
  OBVIOUS
<1>1. <<>> \in Seq(ClientPackets) /\ <<>> \in Seq(BackendPackets) /\ Len(<<>>) = 0
  BY EmptySeq
<1>2. TypeOK
  BY <1>1 DEF Init, TypeOK, Clients, Framing, Plain, Stages, AwaitsClient
<1>3. OnlyVerified /\ WritesUnderstood /\ ProxyInv
  BY DEF Init, OnlyVerified, WritesUnderstood, ProxyInv, Unknown, Backendless
<1>4. ClientInv
  <2>1. toProxy = <<>> /\ Len(toProxy) = 0 /\ stage = "handshake"
    BY <1>1 DEF Init
  <2>2. ClientQuiet
    BY DEF Init, ClientQuiet
  <2>3. ClientQueue
    BY <2>1, <2>2 DEF ClientQueue
  <2>4. client.missed = {} /\ client.framing = ClientFraming
    BY <2>1 DEF Init, ClientFraming, Stream, Plain
  <2>5. QED
    BY <2>1, <2>3, <2>4 DEF ClientInv
<1>5. BackendInv
  BY DEF Init, BackendInv, Backendless, Unknown
<1>6. QED
  BY <1>2, <1>3, <1>4, <1>5 DEF Inv

-----------------------------------------------------------------------------
(* The ways out of a join: the client has missed nothing, or the one notice it may. *)
LEMMA Ends ==
  ASSUME Inv, stage' = "over",
         UNCHANGED <<fixed, profile, encrypted, compression_threshold, client_finished_config,
                     backend_finished_config, shutdown, backend>>,
         registry_cached' \in BOOLEAN, client' \in Clients,
         toProxy' \in Seq(ClientPackets), fromBackend' \in Seq(BackendPackets),
         client'.missed = {} \/ (/\ client'.missed = {"config_disconnect"}
                                 /\ shutdown /\ backend_finished_config)
  PROVE  Inv'
<1>1. TypeOK'
  BY DEF Inv, TypeOK, fixed, Stages, Ended
<1>2. OnlyVerified'
  BY DEF Inv, OnlyVerified, fixed
<1>3. WritesUnderstood'
  BY DEF Inv, WritesUnderstood
<1>4. QED
  BY <1>1, <1>2, <1>3, Over

LEMMA HangUpStep == ASSUME Inv, HangUp PROVE Inv'
<1>1. client.missed = {}
  BY DEF Inv, ClientInv, HangUp, AwaitsClient
<1>2. QED
  BY <1>1, Ends DEF Inv, TypeOK, HangUp, fixed, flags

(* A client in the Login state hears why it is turned away. *)
LEMMA TurnedAway ==
  ASSUME Inv, stage' = "over",
         stage \in {"auth", "script", "connect", "forwarding", "backend_login", "backend_success"},
         client' = Told(client, "login_disconnect", ClientFraming, Uncompressed),
         UNCHANGED <<fixed, profile, encrypted, compression_threshold, flags, shutdown,
                     backend, toProxy, fromBackend>>
  PROVE  Inv'
<1>1. TypeOK /\ ClientInv /\ client \in Clients /\ "login_disconnect" \in ProxyKinds
  BY DEF Inv, TypeOK, ProxyKinds, BackendKinds
<1>2. client.missed = {} /\ client.framing = ClientFraming /\ client.state = "Login"
  BY <1>1, Silent DEF ClientQuiet
<1>3. client' = Told(client, "login_disconnect", client.framing, Uncompressed)
  BY <1>2
<1>4. client' = client
  BY <1>2, <1>3 DEF Told, After, StateOf
<1>5. QED
  BY <1>1, <1>2, <1>4, Ends DEF TypeOK, flags

LEMMA RefuseStep ==
  ASSUME Inv, Refuse, UNCHANGED fromBackend,
         stage \in {"script", "connect", "forwarding", "backend_login", "backend_success"}
  PROVE  Inv'
<1>1. ClientFraming = Stream
  BY DEF ClientFraming
<1>2. QED
  BY <1>1, TurnedAway DEF Refuse, Tell

LEMMA AuthenticationFailsStep == ASSUME Inv, AuthenticationFails PROVE Inv'
<1>1. ClientFraming = [Stream EXCEPT !.encrypted = TRUE]
  BY DEF ClientFraming, AuthenticationFails
<1>2. QED
  BY <1>1, TurnedAway DEF AuthenticationFails

LEMMA ShutdownArmStep == ASSUME Inv, ShutdownArm PROVE Inv'
<1>1. /\ TypeOK /\ client \in Clients /\ "config_disconnect" \in ProxyKinds
      /\ client.missed = {} /\ client.framing = Stream
      /\ stage \in {"ack", "bridging"} /\ shutdown /\ version >= 764
      /\ client.state = IF backend_finished_config THEN "Play" ELSE "Configuration"
  BY DEF Inv, TypeOK, ProxyKinds, BackendKinds, ClientInv, ClientFraming, ShutdownArm, ProxyInv
<1>2. client' = Told(client, "config_disconnect", client.framing, Uncompressed)
  BY <1>1 DEF ShutdownArm, Tell
<1>3. client' \in Clients
  BY <1>1, <1>2, ToldType
<1>4. StateOf("config_disconnect") = "Configuration"
  BY DEF StateOf
<1>5. CASE client.state = "Configuration"
  <2>1. client' = client
    BY <1>2, <1>5 DEF Told, After, StateOf
  <2>2. QED
    BY <1>1, <2>1, Ends DEF ShutdownArm, TypeOK, flags
<1>6. CASE client.state = "Play"
  <2>1. client'.missed = {"config_disconnect"}
    BY <1>1, <1>2, <1>4, <1>6, Missed
  <2>2. QED
    BY <1>1, <1>3, <1>6, <2>1, Ends DEF ShutdownArm, TypeOK, flags
<1>7. QED
  BY <1>1, <1>5, <1>6

LEMMA TargetUnknownStep == ASSUME Inv, TargetUnknown PROVE Inv'
<1> DEFINE farewell == IF version >= 764 THEN "config_disconnect" ELSE "play_disconnect"
           greeted  == Told(client, "login_success", Stream, Uncompressed)
<1>1. /\ TypeOK /\ ClientInv /\ client \in Clients /\ stage = "script"
      /\ {"login_success", "config_disconnect", "play_disconnect"} \subseteq ProxyKinds
  BY DEF Inv, TypeOK, TargetUnknown, ProxyKinds, BackendKinds
<1>2. client.missed = {} /\ client.framing = Stream /\ client.state = "Login"
  BY <1>1, Silent DEF ClientQuiet, ClientFraming
<1>3. client' = Told(greeted, farewell, Stream, Uncompressed)
  BY DEF TargetUnknown
<1>4. /\ greeted \in Clients /\ greeted.missed = {} /\ greeted.framing = Stream
      /\ greeted.state = IF version >= 764 THEN "Configuration" ELSE "Play"
  <2>1. greeted \in Clients
    BY <1>1, ToldType
  <2>2. QED
    BY <1>1, <1>2, <2>1 DEF Told, After, StateOf, Clients
<1> HIDE DEF greeted
<1>5. client' = greeted
  BY <1>3, <1>4 DEF Told, After, StateOf
<1>6. QED
  BY <1>1, <1>4, <1>5, Ends DEF TargetUnknown, TypeOK, flags

-----------------------------------------------------------------------------
(* Status and login. *)
LEMMA ReadHandshakeStep == ASSUME Inv, ReadHandshake PROVE Inv'
<1>1. /\ TypeOK /\ ProxyInv /\ ClientInv /\ BackendInv /\ ClientQueue /\ stage = "handshake"
      /\ client.missed = {} /\ client.framing = Stream
  BY DEF Inv, ClientInv, ClientFraming, ReadHandshake
<1>2. /\ toProxy # <<>> /\ toProxy' = Tail(toProxy)
      /\ \/ Head(toProxy).kind = "status_handshake" /\ stage' = "status"
         \/ Head(toProxy).kind = "login_handshake" /\ stage' = "login_start"
      /\ UNCHANGED <<fixed, profile, encrypted, compression_threshold, flags, shutdown,
                     client, backend, fromBackend>>
  BY DEF ReadHandshake, Take
<1>3. /\ Head(toProxy) = toProxy[1] /\ toProxy' \in Seq(ClientPackets)
      /\ \A i \in 1 .. Len(toProxy') : toProxy'[i].framing = Stream'
      /\ \A i \in 1 .. Len(toProxy') - 1 : ClientNext(toProxy'[i].kind, toProxy'[i + 1].kind)
      /\ toProxy' # <<>> => /\ ClientNext(toProxy[1].kind, toProxy'[1].kind)
                            /\ ClientSent(Latest(toProxy').kind)
      /\ toProxy' = <<>> => ClientSent(toProxy[1].kind)
  BY <1>1, <1>2, Takes
<1>4. TypeOK'
  BY <1>1, <1>2, <1>3 DEF TypeOK, fixed, flags, Stages, AwaitsClient
<1>5. OnlyVerified' /\ WritesUnderstood'
  BY <1>2 DEF Inv, OnlyVerified, WritesUnderstood, fixed, flags
<1>6. ProxyInv'
  BY <1>1, <1>2 DEF ProxyInv, Unknown, Backendless, fixed, flags
<1>7. ClientInv'
  <2>1. toProxy' # <<>> => (ClientDue(toProxy[1].kind) /\ ClientSent(Latest(toProxy).kind))'
    BY <1>2, <1>3 DEF ClientNext, ClientDue, ClientSent
  <2>2. toProxy' = <<>> => ClientQuiet'
    BY <1>2, <1>3 DEF ClientSent, ClientQuiet
  <2>3. ClientQueue'
    BY <1>3, <2>1, <2>2 DEF ClientQueue
  <2>4. ClientFraming' = Stream /\ stage' \notin {"ack", "bridging"}
    BY <1>2 DEF ClientFraming, Stream
  <2>5. QED
    BY <1>1, <1>2, <2>3, <2>4 DEF ClientInv
<1>8. BackendInv'
  BY <1>1, <1>2 DEF BackendInv, Backendless, Unknown
<1>9. QED
  BY <1>4, <1>5, <1>6, <1>7, <1>8 DEF Inv

LEMMA HandleStatusStep == ASSUME Inv, HandleStatus PROVE Inv'
<1>1. /\ TypeOK /\ ProxyInv /\ ClientQueue /\ BackendInv /\ stage \in {"status", "ping"}
      /\ client \in Clients /\ client.missed = {} /\ client.framing = Stream
      /\ {"status_response", "pong"} \subseteq ProxyKinds
  BY DEF Inv, TypeOK, ClientInv, ClientFraming, HandleStatus, ProxyKinds
<1>2. /\ toProxy # <<>> /\ toProxy' = Tail(toProxy)
      /\ Head(toProxy).kind \in {"status_request", "ping"}
      /\ UNCHANGED <<fixed, profile, encrypted, compression_threshold, flags, shutdown,
                     backend, fromBackend>>
  BY DEF HandleStatus, Take
<1>3. toProxy' = <<>> /\ client.state = "Status" /\ <<>> \in Seq(ClientPackets)
  <2>1. toProxy' = <<>> /\ ClientSent(Head(toProxy).kind)
    BY <1>1, <1>2, TakesLast
  <2>2. QED
    BY <1>2, <2>1, EmptySeq DEF ClientSent
<1>4. CASE stage = "status"
  <2>1. stage' = "ping" /\ client' = Told(client, "status_response", Stream, Uncompressed)
    BY <1>4 DEF HandleStatus, Tell
  <2>2. client' \in Clients
    BY <1>1, <2>1, ToldType
  <2>3. client'.state = "Status" /\ client'.next = "ping" /\ client'.missed = {}
        /\ client'.framing = Stream
    BY <1>1, <1>3, <2>1 DEF Told, After, StateOf, Clients
  <2>4. TypeOK'
    BY <1>1, <1>2, <1>3, <2>1, <2>2 DEF TypeOK, fixed, flags, Stages, AwaitsClient
  <2>5. OnlyVerified' /\ WritesUnderstood'
    BY <1>2, <2>3 DEF Inv, OnlyVerified, WritesUnderstood, fixed, flags
  <2>6. ProxyInv'
    BY <1>1, <1>2, <1>4, <2>1 DEF ProxyInv, Unknown, Backendless, fixed, flags
  <2>7. ClientInv'
    BY <1>2, <1>3, <2>1, <2>3, QuietClient DEF ClientQuiet, ClientFraming, Stream
  <2>8. BackendInv'
    BY <1>1, <1>2, <2>1 DEF BackendInv, Backendless, Unknown
  <2>9. QED
    BY <2>4, <2>5, <2>6, <2>7, <2>8 DEF Inv
<1>5. CASE stage = "ping"
  <2>1. stage' = "over" /\ client' = Told(client, "pong", Stream, Uncompressed)
    BY <1>5 DEF HandleStatus, Tell
  <2>2. client' = client
    BY <1>1, <1>3, <2>1 DEF Told, After, StateOf
  <2>3. QED
    BY <1>1, <1>2, <1>3, <2>1, <2>2, Ends DEF TypeOK, flags
<1>6. QED
  BY <1>1, <1>4, <1>5

LEMMA ReadLoginStartStep == ASSUME Inv, ReadLoginStart PROVE Inv'
<1>1. /\ TypeOK /\ ProxyInv /\ ClientQueue /\ BackendInv /\ stage = "login_start"
      /\ client \in Clients /\ client.missed = {} /\ client.framing = Stream
      /\ "encryption_request" \in ProxyKinds
  BY DEF Inv, TypeOK, ClientInv, ClientFraming, ReadLoginStart, ProxyKinds, BackendKinds
<1>2. /\ toProxy # <<>> /\ toProxy' = Tail(toProxy) /\ Head(toProxy).kind = "login_start"
      /\ UNCHANGED <<fixed, encrypted, compression_threshold, flags, shutdown, backend,
                     fromBackend>>
  BY DEF ReadLoginStart, Take
<1>3. /\ toProxy' = <<>> /\ <<>> \in Seq(ClientPackets)
      /\ client.state = "Login" /\ client.next = "none"
  <2>1. toProxy' = <<>> /\ ClientSent("login_start")
    BY <1>1, <1>2, TakesLast
  <2>2. QED
    BY <2>1, EmptySeq DEF ClientSent
<1>4. CASE config.online_mode
  <2>1. /\ stage' = "encryption" /\ profile' = profile
        /\ client' = Told(client, "encryption_request", Stream, Uncompressed)
    BY <1>4 DEF ReadLoginStart, Tell
  <2>2. client' \in Clients
    BY <1>1, <2>1, ToldType
  <2>3. /\ client'.state = "Login" /\ client'.next = "encryption_response"
        /\ client'.missed = {} /\ client'.framing = Stream
    BY <1>1, <1>3, <2>1 DEF Told, After, StateOf, Clients
  <2>4. TypeOK'
    BY <1>1, <1>2, <1>3, <2>1, <2>2 DEF TypeOK, fixed, flags, Stages, AwaitsClient
  <2>5. OnlyVerified' /\ WritesUnderstood'
    BY <1>2, <2>1, <2>3 DEF Inv, OnlyVerified, WritesUnderstood, fixed, flags
  <2>6. ProxyInv'
    BY <1>1, <1>2, <1>4, <2>1 DEF ProxyInv, Unknown, Backendless, fixed, flags
  <2>7. ClientInv'
    BY <1>2, <1>3, <2>1, <2>3, QuietClient DEF ClientQuiet, ClientFraming, Stream
  <2>8. BackendInv'
    BY <1>1, <1>2, <2>1 DEF BackendInv, Backendless, Unknown
  <2>9. QED
    BY <2>4, <2>5, <2>6, <2>7, <2>8 DEF Inv
<1>5. CASE ~config.online_mode
  <2>1. stage' = "script" /\ profile' = "claimed" /\ client' = client
    BY <1>5 DEF ReadLoginStart
  <2>2. TypeOK'
    BY <1>1, <1>2, <1>3, <2>1 DEF TypeOK, fixed, flags, Stages
  <2>3. OnlyVerified' /\ WritesUnderstood'
    BY <1>1, <1>2, <2>1 DEF Inv, OnlyVerified, WritesUnderstood, ProxyInv, Backendless,
                            Unknown, fixed, flags
  <2>4. ProxyInv'
    BY <1>1, <1>2, <1>5, <2>1 DEF ProxyInv, Unknown, Backendless, fixed, flags
  <2>5. ClientInv'
    BY <1>1, <1>2, <1>3, <2>1, QuietClient DEF ClientQuiet, ClientFraming, Stream
  <2>6. BackendInv'
    BY <1>1, <1>2, <2>1 DEF BackendInv, Backendless, Unknown
  <2>7. QED
    BY <2>2, <2>3, <2>4, <2>5, <2>6 DEF Inv
<1>6. QED
  BY <1>4, <1>5

LEMMA ReadEncryptionResponseStep == ASSUME Inv, ReadEncryptionResponse PROVE Inv'
<1>1. /\ TypeOK /\ ProxyInv /\ ClientQueue /\ BackendInv /\ stage = "encryption"
      /\ client.missed = {} /\ client.framing = ClientFraming
  BY DEF Inv, ClientInv, ReadEncryptionResponse
<1>2. /\ toProxy # <<>> /\ toProxy' = Tail(toProxy) /\ Head(toProxy).kind = "encryption_response"
      /\ stage' = "auth"
      /\ UNCHANGED <<fixed, profile, encrypted, compression_threshold, flags, shutdown,
                     client, backend, fromBackend>>
  BY DEF ReadEncryptionResponse, Take
<1>3. /\ toProxy' = <<>> /\ <<>> \in Seq(ClientPackets)
      /\ client.state = "Login" /\ client.next = "none"
  <2>1. toProxy' = <<>> /\ ClientSent("encryption_response")
    BY <1>1, <1>2, TakesLast
  <2>2. QED
    BY <2>1, EmptySeq DEF ClientSent
<1>4. client.framing = [Stream EXCEPT !.encrypted = TRUE]
  BY <1>1, <1>2 DEF ClientFraming
<1>5. TypeOK'
  BY <1>1, <1>2, <1>3 DEF TypeOK, fixed, flags, Stages
<1>6. OnlyVerified' /\ WritesUnderstood'
  BY <1>2 DEF Inv, OnlyVerified, WritesUnderstood, fixed, flags
<1>7. ProxyInv'
  BY <1>1, <1>2 DEF ProxyInv, Unknown, Backendless, fixed, flags
<1>8. ClientInv'
  BY <1>1, <1>2, <1>3, <1>4, QuietClient DEF ClientQuiet, ClientFraming, Stream
<1>9. BackendInv'
  BY <1>1, <1>2 DEF BackendInv, Backendless, Unknown
<1>10. QED
  BY <1>5, <1>6, <1>7, <1>8, <1>9 DEF Inv

(* The proxy turns to the secret; the client has done so. *)
LEMMA AuthenticateStep ==
  ASSUME Inv, NEW whose \in {"verified", "other"}, Authenticate(whose)
  PROVE  Inv'
<1>1. /\ TypeOK /\ ProxyInv /\ ClientInv /\ BackendInv /\ stage = "auth"
      /\ UNCHANGED <<fixed, compression_threshold, flags, shutdown, client, backend, toProxy,
                     fromBackend>>
  BY DEF Inv, Authenticate
<1>2. /\ toProxy = <<>> /\ client.missed = {}
      /\ client.framing = [Stream EXCEPT !.encrypted = TRUE]
      /\ client.state = "Login" /\ client.next = "none"
  BY <1>1, Silent DEF ClientQuiet, ClientFraming
<1>3. CASE whose = "verified"
  <2>1. stage' = "script" /\ profile' = "verified" /\ encrypted' = TRUE
    BY <1>3 DEF Authenticate
  <2>2. TypeOK'
    BY <1>1, <2>1 DEF TypeOK, fixed, flags, Stages
  <2>3. OnlyVerified' /\ WritesUnderstood'
    BY <1>1, <2>1 DEF Inv, OnlyVerified, WritesUnderstood, ProxyInv, Backendless, Unknown,
                      fixed, flags
  <2>4. ProxyInv'
    BY <1>1, <2>1 DEF ProxyInv, Unknown, Backendless, fixed, flags
  <2>5. client.framing = ClientFraming'
    BY <1>1, <1>2, <2>1 DEF ClientFraming, Stream
  <2>6. ClientInv'
    BY <1>1, <1>2, <2>1, <2>5, QuietClient DEF ClientQuiet
  <2>7. BackendInv'
    BY <1>1, <2>1 DEF BackendInv, Backendless, Unknown
  <2>8. QED
    BY <2>2, <2>3, <2>4, <2>6, <2>7 DEF Inv
<1>4. CASE whose # "verified"
  <2>1. stage' = "over" /\ UNCHANGED <<profile, encrypted>>
    BY <1>4 DEF Authenticate
  <2>2. QED
    BY <1>1, <1>2, <2>1, Ends DEF TypeOK, flags
<1>5. QED
  BY <1>3, <1>4

LEMMA ScriptAllowsStep == ASSUME Inv, ScriptAllows PROVE Inv'
<1>1. /\ TypeOK /\ ProxyInv /\ ClientInv /\ BackendInv /\ stage = "script" /\ stage' = "connect"
      /\ UNCHANGED <<fixed, profile, encrypted, compression_threshold, flags, shutdown,
                     client, backend, toProxy, fromBackend>>
  BY DEF Inv, ScriptAllows
<1>2. /\ toProxy = <<>> /\ client.missed = {} /\ client.framing = Stream
      /\ client.state = "Login" /\ client.next = "none"
  BY <1>1, Silent DEF ClientQuiet, ClientFraming
<1>3. TypeOK'
  BY <1>1 DEF TypeOK, fixed, flags, Stages
<1>4. OnlyVerified' /\ WritesUnderstood'
  BY <1>1 DEF Inv, OnlyVerified, WritesUnderstood, fixed, flags
<1>5. ProxyInv'
  BY <1>1 DEF ProxyInv, Unknown, Backendless, fixed, flags
<1>6. ClientInv'
  BY <1>1, <1>2, QuietClient DEF ClientQuiet, ClientFraming, Stream
<1>7. BackendInv'
  BY <1>1 DEF BackendInv, Backendless, Unknown
<1>8. QED
  BY <1>3, <1>4, <1>5, <1>6, <1>7 DEF Inv

-----------------------------------------------------------------------------
(* The backend's login. *)
LEMMA ConnectStep == ASSUME Inv, Connect PROVE Inv'
<1>1. /\ TypeOK /\ ProxyInv /\ ClientInv /\ BackendInv /\ stage = "connect"
      /\ stage' = IF config.velocity_modern THEN "forwarding" ELSE "backend_login"
      /\ UNCHANGED <<fixed, profile, encrypted, compression_threshold, flags, shutdown,
                     client, toProxy, fromBackend>>
  BY DEF Inv, Connect
<1>2. /\ toProxy = <<>> /\ client.missed = {} /\ client.framing = Stream
      /\ client.state = "Login" /\ client.next = "none"
  BY <1>1, Silent DEF ClientQuiet, ClientFraming
<1>3. PICK state \in {"plugin", "login"} :
        backend' = [state |-> state, threshold |-> Uncompressed, missed |-> {}]
  BY DEF Connect
<1>4. backend' \in Backends /\ backend' # NoBackend
  BY <1>3, NoBackendAssumption DEF Backends
<1>5. fromBackend' = <<>> /\ compression_threshold' = Uncompressed
  BY <1>1 DEF BackendInv, ProxyInv, Backendless
<1>6. TypeOK'
  BY <1>1, <1>4 DEF TypeOK, fixed, flags, Stages, AwaitsBackend
<1>7. OnlyVerified'
  BY <1>1 DEF OnlyVerified, ProxyInv, Unknown, fixed
<1>8. WritesUnderstood'
  BY <1>1, <1>2, <1>3 DEF WritesUnderstood
<1>9. ProxyInv'
  BY <1>1, <1>4, <1>5 DEF ProxyInv, Unknown, Backendless, fixed, flags
<1>10. ClientInv'
  BY <1>1, <1>2, QuietClient DEF ClientQuiet, ClientFraming, Stream
<1>11. BackendInv'
  BY <1>1, <1>3, <1>5, QuietBackend DEF BackendQuiet, Backendless, Unknown
<1>12. QED
  BY <1>6, <1>7, <1>8, <1>9, <1>10, <1>11 DEF Inv

LEMMA AnswerForwardingStep == ASSUME Inv, AnswerForwarding PROVE Inv'
<1>1. /\ TypeOK /\ ProxyInv /\ ClientInv /\ BackendInv /\ stage = "forwarding"
      /\ fromBackend # <<>> /\ Head(fromBackend).kind = "plugin_request"
      /\ fromBackend' = Tail(fromBackend) /\ backend' = Served(backend, "plugin_response")
      /\ stage' = "backend_login"
      /\ UNCHANGED <<fixed, profile, encrypted, compression_threshold, flags, shutdown,
                     client, toProxy>>
  BY DEF Inv, AnswerForwarding, Hear
<1>2. /\ toProxy = <<>> /\ client.missed = {} /\ client.framing = Stream
      /\ client.state = "Login" /\ client.next = "none"
  BY <1>1, Silent DEF ClientQuiet, ClientFraming
<1>3. BackendQueue /\ backend.missed = {} /\ backend # NoBackend /\ backend \in Backends
  BY <1>1 DEF BackendInv, ProxyInv, TypeOK, Backendless, Unknown
<1>4. /\ fromBackend' = <<>> /\ <<>> \in Seq(BackendPackets)
      /\ backend.threshold = compression_threshold /\ backend.state = "plugin_wait"
  <2>1. /\ fromBackend' = <<>> /\ backend.threshold = compression_threshold
        /\ BackendSent("plugin_request")
    BY <1>1, <1>3, HearsLast
  <2>2. QED
    BY <2>1, EmptySeq DEF BackendSent
<1>5. backend' = [backend EXCEPT !.state = "login"]
  BY <1>1, <1>3, <1>4, ServedWell
<1>6. /\ backend' \in Backends /\ backend' # NoBackend /\ backend'.state = "login"
      /\ backend'.threshold = compression_threshold /\ backend'.missed = {}
  BY <1>3, <1>4, <1>5, NoBackendAssumption DEF Backends
<1>7. TypeOK'
  BY <1>1, <1>4, <1>6 DEF TypeOK, fixed, flags, Stages, AwaitsBackend
<1>8. OnlyVerified'
  BY <1>1 DEF OnlyVerified, ProxyInv, Unknown, fixed
<1>9. WritesUnderstood'
  BY <1>1, <1>2, <1>6 DEF WritesUnderstood
<1>10. ProxyInv'
  BY <1>1, <1>6 DEF ProxyInv, Unknown, Backendless, fixed, flags
<1>11. ClientInv'
  BY <1>1, <1>2, QuietClient DEF ClientQuiet, ClientFraming, Stream
<1>12. BackendInv'
  BY <1>1, <1>4, <1>6, QuietBackend DEF BackendQuiet, Backendless, Unknown
<1>13. QED
  BY <1>7, <1>8, <1>9, <1>10, <1>11, <1>12 DEF Inv

(* The new threshold is in force for what the backend sends next, and for the client. *)
LEMMA BackendCompressesStep == ASSUME Inv, BackendCompresses PROVE Inv'
<1> DEFINE t == fromBackend[1].announced
<1>1. /\ TypeOK /\ ProxyInv /\ ClientInv /\ BackendInv /\ stage = "backend_login"
      /\ fromBackend # <<>> /\ Head(fromBackend).kind = "set_compression"
      /\ fromBackend' = Tail(fromBackend) /\ stage' = "backend_success"
      /\ UNCHANGED <<fixed, profile, encrypted, flags, shutdown, backend, toProxy>>
  BY DEF Inv, BackendCompresses, Hear
<1>2. /\ toProxy = <<>> /\ client.missed = {} /\ client.framing = Stream
      /\ client.state = "Login" /\ client.next = "none" /\ client \in Clients
  BY <1>1, Silent DEF ClientQuiet, ClientFraming, TypeOK
<1>3. BackendQueue /\ backend.missed = {} /\ backend # NoBackend
  BY <1>1 DEF BackendInv, ProxyInv, Backendless, Unknown
<1>4. /\ Head(fromBackend) = fromBackend[1] /\ Announces(fromBackend[1])
      /\ fromBackend' \in Seq(BackendPackets)
      /\ \A i \in 1 .. Len(fromBackend') : Announces(fromBackend'[i])
      /\ \A i \in 1 .. Len(fromBackend') - 1 : BackendNext(fromBackend'[i], fromBackend'[i + 1])
      /\ fromBackend' # <<>> => /\ BackendNext(fromBackend[1], fromBackend'[1])
                                /\ Latest(fromBackend').announced = backend.threshold
                                /\ BackendSent(Latest(fromBackend').kind)
      /\ fromBackend' = <<>> => /\ fromBackend[1].announced = backend.threshold
                                /\ BackendSent(fromBackend[1].kind)
  BY <1>1, <1>3, Hears
<1>5. /\ compression_threshold' = t /\ t \in Thresholds
      /\ client' = Told(client, "set_compression", Stream, t)
  BY <1>1, <1>4 DEF BackendCompresses, Announces
<1> HIDE DEF t
<1>6. client' \in Clients
  <2>1. "set_compression" \in ProxyKinds
    BY DEF ProxyKinds, BackendKinds
  <2>2. QED
    BY <1>2, <1>5, <2>1, ToldType
<1>7. client' = [client EXCEPT !.framing.threshold = t]
  BY <1>2, <1>5 DEF Told, After, StateOf
<1>8. /\ client'.state = "Login" /\ client'.next = "none" /\ client'.missed = {}
      /\ client'.framing = [encrypted |-> encrypted, threshold |-> t]
  BY <1>2, <1>7 DEF Clients, Stream
<1>9. TypeOK'
  BY <1>1, <1>4, <1>5, <1>6 DEF TypeOK, fixed, flags, Stages, AwaitsBackend
<1>10. OnlyVerified'
  BY <1>1 DEF OnlyVerified, ProxyInv, Unknown, fixed
<1>11. WritesUnderstood'
  BY <1>1, <1>3, <1>8 DEF WritesUnderstood
<1>12. ProxyInv'
  BY <1>1, <1>5 DEF ProxyInv, Unknown, Backendless, fixed, flags
<1>13. ClientInv'
  <2>1. client'.framing = ClientFraming'
    BY <1>1, <1>5, <1>8 DEF ClientFraming, Stream
  <2>2. QED
    BY <1>1, <1>2, <1>8, <2>1, QuietClient DEF ClientQuiet
<1>14. BackendInv'
  <2>1. fromBackend' # <<>> =>
          /\ fromBackend'[1].threshold = compression_threshold'
          /\ BackendDue(fromBackend[1].kind)'
          /\ Latest(fromBackend').announced = backend'.threshold
          /\ BackendSent(Latest(fromBackend).kind)'
    BY <1>1, <1>4, <1>5 DEF BackendNext, BackendDue, BackendSent, t, fixed
  <2>2. fromBackend' = <<>> => backend'.threshold = compression_threshold' /\ BackendQuiet'
    BY <1>1, <1>4, <1>5 DEF BackendQuiet, BackendSent, t
  <2>3. BackendQueue'
    BY <1>4, <2>1, <2>2 DEF BackendQueue
  <2>4. QED
    BY <1>1, <1>3, <2>3 DEF BackendInv, Backendless, Unknown
<1>15. QED
  BY <1>9, <1>10, <1>11, <1>12, <1>13, <1>14 DEF Inv

LEMMA CompressionRefusedStep == ASSUME Inv, CompressionRefused PROVE Inv'
<1>1. /\ TypeOK /\ client.missed = {} /\ fromBackend # <<>> /\ fromBackend' = Tail(fromBackend)
  BY DEF Inv, ClientInv, CompressionRefused, Hear
<1>2. fromBackend' \in Seq(BackendPackets)
  BY <1>1, TakeShape DEF TypeOK
<1>3. QED
  BY <1>1, <1>2, Ends DEF CompressionRefused, TypeOK, flags

LEMMA BackendAcceptsStep == ASSUME Inv, BackendAccepts PROVE Inv'
<1>1. /\ TypeOK /\ ProxyInv /\ ClientInv /\ BackendInv
      /\ stage \in {"backend_login", "backend_success"}
      /\ fromBackend # <<>> /\ Head(fromBackend).kind = "login_success"
      /\ fromBackend' = Tail(fromBackend)
      /\ client' = Told(client, "login_success", Stream, Uncompressed)
      /\ stage' = IF version >= 764 THEN "ack" ELSE "play"
      /\ UNCHANGED <<fixed, profile, encrypted, compression_threshold, flags, shutdown,
                     backend, toProxy>>
  BY DEF Inv, BackendAccepts, Hear, Tell
<1>2. /\ toProxy = <<>> /\ client.missed = {} /\ client.framing = Stream
      /\ client.state = "Login" /\ client.next = "none" /\ client \in Clients
  BY <1>1, Silent DEF ClientQuiet, ClientFraming, TypeOK
<1>3. BackendQueue /\ backend.missed = {} /\ backend # NoBackend
  BY <1>1 DEF BackendInv, ProxyInv, Backendless, Unknown
<1>4. /\ fromBackend' = <<>> /\ <<>> \in Seq(BackendPackets)
      /\ backend.threshold = compression_threshold
      /\ backend.state = IF version >= 764 THEN "ack_wait" ELSE "Play"
  <2>1. /\ fromBackend' = <<>> /\ backend.threshold = compression_threshold
        /\ BackendSent("login_success")
    BY <1>1, <1>3, HearsLast
  <2>2. QED
    BY <2>1, EmptySeq DEF BackendSent
<1>5. client' \in Clients
  <2>1. "login_success" \in ProxyKinds
    BY DEF ProxyKinds, BackendKinds
  <2>2. QED
    BY <1>1, <1>2, <2>1, ToldType
<1>6. /\ client'.missed = {} /\ client'.framing = Stream
      /\ IF version >= 764 THEN client'.state = "Configuration" /\ client'.next = "login_ack"
                           ELSE client'.state = "Play" /\ client'.next = "none"
  BY <1>1, <1>2 DEF Told, After, StateOf, Clients
<1>7. TypeOK'
  BY <1>1, <1>4, <1>5 DEF TypeOK, fixed, flags, Stages, AwaitsClient, Ended
<1>8. OnlyVerified'
  BY <1>1 DEF OnlyVerified, ProxyInv, Unknown, fixed
<1>9. WritesUnderstood'
  BY <1>1, <1>3, <1>6 DEF WritesUnderstood
<1>10. ProxyInv'
  BY <1>1, <1>3 DEF ProxyInv, Unknown, Backendless, fixed, flags
<1>11. ClientInv'
  <2>1. client'.framing = ClientFraming' /\ ~backend_finished_config'
    BY <1>1, <1>6 DEF ClientFraming, Stream, ProxyInv, flags
  <2>2. ClientQuiet'
    BY <1>1, <1>6 DEF ClientQuiet
  <2>3. QED
    BY <1>1, <1>2, <1>6, <2>1, <2>2, QuietClient
<1>12. BackendInv'
  BY <1>1, <1>3, <1>4, QuietBackend DEF BackendQuiet, Backendless, Unknown
<1>13. QED
  BY <1>7, <1>8, <1>9, <1>10, <1>11, <1>12 DEF Inv

-----------------------------------------------------------------------------
(* Configuration.  A packet of the client that does not end it, and one of the backend. *)
LEMMA BridgeTakes ==
  ASSUME Inv, stage \in {"ack", "bridging"}, stage' = "bridging", toProxy # <<>>,
         toProxy' = Tail(toProxy), Head(toProxy).kind \in {"login_ack", "config_other"},
         UNCHANGED <<encrypted, compression_threshold, backend_finished_config, client>>
  PROVE  ClientInv' /\ toProxy' \in Seq(ClientPackets)
<1>1. /\ TypeOK /\ ClientQueue /\ client.missed = {} /\ client.framing = Stream
      /\ client.state = IF backend_finished_config THEN "Play" ELSE "Configuration"
  BY DEF Inv, ClientInv, ClientFraming
<1>2. /\ Head(toProxy) = toProxy[1] /\ toProxy' \in Seq(ClientPackets)
      /\ \A i \in 1 .. Len(toProxy') : toProxy'[i].framing = Stream'
      /\ \A i \in 1 .. Len(toProxy') - 1 : ClientNext(toProxy'[i].kind, toProxy'[i + 1].kind)
      /\ toProxy' # <<>> => /\ ClientNext(toProxy[1].kind, toProxy'[1].kind)
                            /\ ClientSent(Latest(toProxy').kind)
      /\ toProxy' = <<>> => ClientSent(toProxy[1].kind)
  BY <1>1, Takes
<1>3. toProxy' # <<>> => (ClientDue(toProxy[1].kind) /\ ClientSent(Latest(toProxy).kind))'
  BY <1>2 DEF ClientNext, ClientDue, ClientSent
<1>4. toProxy' = <<>> => ClientQuiet'
  BY <1>2 DEF ClientSent, ClientQuiet
<1>5. ClientQueue'
  BY <1>2, <1>3, <1>4 DEF ClientQueue
<1>6. ClientFraming' = Stream
  BY DEF ClientFraming, Stream
<1>7. QED
  BY <1>1, <1>2, <1>5, <1>6 DEF ClientInv

LEMMA BridgeHears ==
  ASSUME Inv, stage = "bridging", stage' = "bridging", fromBackend # <<>>,
         fromBackend' = Tail(fromBackend), Head(fromBackend).kind \in {"registry", "config_other"},
         UNCHANGED <<version, compression_threshold, backend_finished_config, backend>>
  PROVE  BackendInv' /\ fromBackend' \in Seq(BackendPackets)
<1>1. /\ TypeOK /\ BackendQueue /\ backend.missed = {} /\ ~backend_finished_config
      /\ backend.threshold = compression_threshold
      /\ backend.state \in {"Configuration", "finish_wait", "closed"}
  BY DEF Inv, BackendInv, Backendless, Unknown
<1>2. /\ Head(fromBackend) = fromBackend[1] /\ Announces(fromBackend[1])
      /\ fromBackend[1].threshold = compression_threshold
      /\ fromBackend' \in Seq(BackendPackets)
      /\ \A i \in 1 .. Len(fromBackend') : Announces(fromBackend'[i])
      /\ \A i \in 1 .. Len(fromBackend') - 1 : BackendNext(fromBackend'[i], fromBackend'[i + 1])
      /\ fromBackend' # <<>> => /\ BackendNext(fromBackend[1], fromBackend'[1])
                                /\ Latest(fromBackend').announced = backend.threshold
                                /\ BackendSent(Latest(fromBackend').kind)
      /\ fromBackend' = <<>> => /\ fromBackend[1].announced = backend.threshold
                                /\ BackendSent(fromBackend[1].kind)
  BY <1>1, Hears
<1>3. fromBackend[1].announced = compression_threshold
  BY <1>2 DEF Announces
<1>4. fromBackend' # <<>> =>
        /\ fromBackend'[1].threshold = compression_threshold'
        /\ BackendDue(fromBackend[1].kind)'
        /\ Latest(fromBackend').announced = backend'.threshold
        /\ BackendSent(Latest(fromBackend).kind)'
  BY <1>2, <1>3 DEF BackendNext, BackendDue, BackendSent
<1>5. fromBackend' = <<>> => backend'.threshold = compression_threshold' /\ BackendQuiet'
  BY <1>1, <1>2 DEF BackendQuiet, BackendSent
<1>6. BackendQueue'
  BY <1>2, <1>4, <1>5 DEF BackendQueue
<1>7. QED
  BY <1>1, <1>2, <1>6 DEF BackendInv, Backendless, Unknown

LEMMA ReadAckStep == ASSUME Inv, ReadAck PROVE Inv'
<1>1. /\ TypeOK /\ ProxyInv /\ BackendInv /\ stage = "ack" /\ stage' = "bridging"
      /\ toProxy # <<>> /\ Head(toProxy).kind = "login_ack" /\ toProxy' = Tail(toProxy)
      /\ backend' = Served(backend, "login_ack")
      /\ UNCHANGED <<fixed, profile, encrypted, compression_threshold, flags, shutdown,
                     client, fromBackend>>
  BY DEF Inv, ReadAck, Take
<1>2. ClientInv' /\ toProxy' \in Seq(ClientPackets)
  BY <1>1, BridgeTakes DEF flags
<1>3. /\ backend.missed = {} /\ backend # NoBackend /\ backend \in Backends
      /\ fromBackend = <<>> /\ backend.threshold = compression_threshold
      /\ backend.state = "ack_wait" /\ ~backend_finished_config
  BY <1>1 DEF BackendInv, BackendQueue, BackendDue, BackendQuiet, ProxyInv, TypeOK,
              Backendless, Unknown
<1>4. backend' = [backend EXCEPT !.state = "Configuration"]
  BY <1>1, <1>3, ServedWell
<1>5. /\ backend' \in Backends /\ backend' # NoBackend /\ backend'.state = "Configuration"
      /\ backend'.threshold = compression_threshold /\ backend'.missed = {}
  BY <1>3, <1>4, NoBackendAssumption DEF Backends
<1>6. TypeOK'
  BY <1>1, <1>2, <1>5 DEF TypeOK, fixed, flags, Stages, AwaitsClient
<1>7. OnlyVerified'
  BY <1>1 DEF OnlyVerified, ProxyInv, Unknown, fixed
<1>8. WritesUnderstood'
  BY <1>1, <1>5 DEF Inv, ClientInv, WritesUnderstood
<1>9. ProxyInv'
  BY <1>1, <1>5 DEF ProxyInv, Unknown, Backendless, fixed, flags
<1>10. BackendInv'
  BY <1>1, <1>3, <1>5, QuietBackend DEF BackendQuiet, Backendless, Unknown, flags
<1>11. QED
  BY <1>2, <1>6, <1>7, <1>8, <1>9, <1>10 DEF Inv

LEMMA DropProtectedStep == ASSUME Inv, DropProtected PROVE Inv'
<1>1. /\ TypeOK /\ ProxyInv /\ ClientInv /\ BackendInv /\ stage = "bridging"
      /\ UNCHANGED <<fixed, stage, profile, encrypted, compression_threshold, flags, shutdown,
                     client, backend>>
  BY DEF Inv, DropProtected
<1>2. /\ ClientInv' /\ toProxy' \in Seq(ClientPackets)
      /\ BackendInv' /\ fromBackend' \in Seq(BackendPackets)
  <2>1. CASE Hear("config_other") /\ UNCHANGED toProxy
    <3>1. BackendInv' /\ fromBackend' \in Seq(BackendPackets)
      BY <1>1, <2>1, BridgeHears DEF Hear, fixed, flags
    <3>2. ClientInv'
      BY <1>1, <2>1, SameClient DEF flags
    <3>3. QED
      BY <1>1, <2>1, <3>1, <3>2 DEF TypeOK
  <2>2. CASE Take("config_other") /\ UNCHANGED fromBackend
    <3>1. ClientInv' /\ toProxy' \in Seq(ClientPackets)
      BY <1>1, <2>2, BridgeTakes DEF Take, fixed, flags
    <3>2. BackendInv'
      BY <1>1, <2>2, SameBackend DEF fixed, flags
    <3>3. QED
      BY <1>1, <2>2, <3>1, <3>2 DEF TypeOK
  <2>3. QED
    BY <2>1, <2>2 DEF DropProtected
<1>3. TypeOK'
  BY <1>1, <1>2 DEF TypeOK, fixed, flags
<1>4. OnlyVerified' /\ WritesUnderstood'
  BY <1>1 DEF Inv, OnlyVerified, WritesUnderstood, fixed, flags
<1>5. ProxyInv'
  BY <1>1 DEF ProxyInv, fixed, flags
<1>6. QED
  BY <1>2, <1>3, <1>4, <1>5 DEF Inv

LEMMA BridgeBackendStep ==
  ASSUME Inv, NEW kind \in BackendKinds, BridgeBackend(kind)
  PROVE  Inv'
<1>1. /\ TypeOK /\ ProxyInv /\ ClientInv /\ BackendInv /\ stage = "bridging"
      /\ fromBackend # <<>> /\ Head(fromBackend).kind = kind /\ fromBackend' = Tail(fromBackend)
      /\ client' = Told(client, kind, Stream, Uncompressed)
      /\ UNCHANGED <<fixed, profile, encrypted, compression_threshold, client_finished_config,
                     shutdown, backend, toProxy>>
  BY DEF Inv, BridgeBackend, Hear, Tell
<1>2. /\ BackendQueue /\ backend.missed = {} /\ backend # NoBackend
      /\ backend_finished_config = FALSE /\ client_finished_config = FALSE
  BY <1>1 DEF BackendInv, ProxyInv, TypeOK, Backendless, Unknown
<1>3. /\ client \in Clients /\ client.missed = {} /\ client.framing = Stream
      /\ client.state = "Configuration"
  BY <1>1, <1>2 DEF ClientInv, ClientFraming, TypeOK
<1>4. registry_cached' \in BOOLEAN
  BY <1>1 DEF BridgeBackend, TypeOK
<1>5. CASE kind \in {"registry", "config_other"}
  <2>1. /\ client' = client /\ stage' = "bridging"
        /\ backend_finished_config' = backend_finished_config
    BY <1>1, <1>2, <1>3, <1>5 DEF BridgeBackend, Bridged, Told, After, StateOf
  <2>2. BackendInv' /\ fromBackend' \in Seq(BackendPackets)
    BY <1>1, <1>5, <2>1, BridgeHears DEF fixed
  <2>3. ClientInv'
    BY <1>1, <2>1, SameClient
  <2>4. TypeOK'
    BY <1>1, <1>4, <2>1, <2>2 DEF TypeOK, fixed
  <2>5. OnlyVerified' /\ WritesUnderstood'
    BY <1>1, <2>1 DEF Inv, OnlyVerified, WritesUnderstood, fixed
  <2>6. ProxyInv'
    BY <1>1, <2>1 DEF ProxyInv, fixed
  <2>7. QED
    BY <2>2, <2>3, <2>4, <2>5, <2>6 DEF Inv
<1>6. CASE kind = "config_disconnect"
  <2>1. /\ client' = client /\ stage' = "over"
        /\ backend_finished_config' = backend_finished_config
    BY <1>1, <1>2, <1>3, <1>6 DEF BridgeBackend, Told, After, StateOf
  <2>2. fromBackend' \in Seq(BackendPackets)
    BY <1>1, TakeShape DEF TypeOK
  <2>3. QED
    BY <1>1, <1>3, <1>4, <2>1, <2>2, Ends DEF TypeOK
<1>7. CASE kind = "finish"
  <2>1. stage' = "bridging" /\ backend_finished_config' = TRUE
    BY <1>2, <1>7 DEF BridgeBackend, Bridged
  <2>2. client' = [client EXCEPT !.state = "Play", !.next = "finish"]
    BY <1>1, <1>3, <1>7 DEF Told, After, StateOf
  <2>3. /\ client' \in Clients /\ client'.missed = {} /\ client'.framing = Stream
        /\ client'.state = "Play" /\ client'.next = "finish"
    BY <1>3, <2>2 DEF Clients, ClientKinds
  <2>4. /\ fromBackend' = <<>> /\ <<>> \in Seq(BackendPackets)
        /\ backend.threshold = compression_threshold /\ backend.state = "finish_wait"
    <3>1. /\ fromBackend' = <<>> /\ backend.threshold = compression_threshold
          /\ BackendSent("finish")
      BY <1>1, <1>2, <1>7, HearsLast
    <3>2. QED
      BY <3>1, EmptySeq DEF BackendSent
  <2>5. TypeOK'
    BY <1>1, <1>4, <2>1, <2>3, <2>4 DEF TypeOK, fixed
  <2>6. OnlyVerified'
    BY <1>1 DEF Inv, OnlyVerified, fixed
  <2>7. WritesUnderstood'
    BY <1>1, <1>2, <2>3 DEF WritesUnderstood
  <2>8. ProxyInv'
    BY <1>1, <2>1 DEF ProxyInv, fixed
  <2>9. ClientInv'
    <3>1. ClientFraming' = Stream /\ Stream' = Stream
      BY <1>1, <2>1 DEF ClientFraming, Stream
    <3>2. toProxy = <<>> => ClientQuiet'
      BY <2>1, <2>3 DEF ClientQuiet
    <3>3. ASSUME toProxy # <<>>
          PROVE  (ClientDue(toProxy[1].kind) /\ ClientSent(Latest(toProxy).kind))'
      <4>1. /\ ClientDue(toProxy[1].kind) /\ ClientSent(Latest(toProxy).kind)
            /\ Latest(toProxy).kind \in ClientKinds
        <5>1. toProxy \in Seq(ClientPackets) /\ ClientQueue
          BY <1>1 DEF TypeOK, ClientInv
        <5>2. Latest(toProxy) \in ClientPackets
          BY <3>3, <5>1, TakeShape
        <5>3. QED
          BY <3>3, <5>1, <5>2 DEF ClientQueue, ClientPackets
      <4>2. Latest(toProxy).kind \in {"login_ack", "config_other"}
        BY <1>3, <4>1 DEF ClientSent, ClientKinds
      <4>3. toProxy' = toProxy
        BY <1>1
      <4>4. QED
        BY <1>1, <2>1, <2>3, <4>1, <4>2, <4>3 DEF ClientDue, ClientSent
    <3>4. ClientQueue'
      BY <1>1, <3>1, <3>2, <3>3 DEF ClientInv, ClientQueue
    <3>5. QED
      BY <2>1, <2>3, <3>1, <3>4 DEF ClientInv
  <2>10. BackendInv'
    BY <1>1, <1>2, <2>1, <2>4, QuietBackend DEF BackendQuiet, Backendless, Unknown
  <2>11. QED
    BY <2>5, <2>6, <2>7, <2>8, <2>9, <2>10 DEF Inv
<1>8. kind \in {"registry", "config_other", "config_disconnect", "finish"}
  <2>1. BackendDue(kind)
    BY <1>1, <1>2, Hears
  <2>2. QED
    BY <1>1, <2>1 DEF BackendDue
<1>9. QED
  BY <1>5, <1>6, <1>7, <1>8

LEMMA BridgeClientStep ==
  ASSUME Inv, NEW kind \in ClientKinds, BridgeClient(kind)
  PROVE  Inv'
<1>1. /\ TypeOK /\ ProxyInv /\ ClientInv /\ BackendInv /\ stage = "bridging"
      /\ toProxy # <<>> /\ Head(toProxy).kind = kind /\ toProxy' = Tail(toProxy)
      /\ backend' = Served(backend, kind)
      /\ UNCHANGED <<fixed, profile, encrypted, compression_threshold, backend_finished_config,
                     registry_cached, shutdown, client, fromBackend>>
  BY DEF Inv, BridgeClient, Take
<1>2. /\ BackendQueue /\ backend.missed = {} /\ backend # NoBackend /\ backend \in Backends
      /\ backend.threshold = compression_threshold /\ client_finished_config = FALSE
      /\ backend.state \in {"Configuration", "finish_wait", "closed"}
      /\ backend_finished_config => fromBackend = <<>> /\ backend.state = "finish_wait"
  BY <1>1 DEF BackendInv, BackendQueue, BackendQuiet, ProxyInv, TypeOK, Backendless, Unknown
<1>3. /\ ClientQueue /\ client.missed = {} /\ client.framing = Stream
      /\ client.state = IF backend_finished_config THEN "Play" ELSE "Configuration"
  BY <1>1 DEF ClientInv, ClientFraming
<1>4. CASE kind = "config_other"
  <2>1. /\ backend' = backend /\ stage' = "bridging"
        /\ client_finished_config' = client_finished_config
    <3>1. backend' = backend
      BY <1>1, <1>2, <1>4, ServedWell
    <3>2. QED
      BY <1>1, <1>2, <1>4, <3>1 DEF BridgeClient, Bridged
  <2>2. ClientInv' /\ toProxy' \in Seq(ClientPackets)
    BY <1>1, <1>4, <2>1, BridgeTakes
  <2>3. BackendInv'
    BY <1>1, <2>1, SameBackend DEF fixed
  <2>4. TypeOK'
    BY <1>1, <2>1, <2>2 DEF TypeOK, fixed
  <2>5. OnlyVerified' /\ WritesUnderstood'
    BY <1>1, <2>1 DEF Inv, OnlyVerified, WritesUnderstood, fixed
  <2>6. ProxyInv'
    BY <1>1, <2>1 DEF ProxyInv, fixed
  <2>7. QED
    BY <2>2, <2>3, <2>4, <2>5, <2>6 DEF Inv
<1>5. CASE kind = "finish"
  <2>1. /\ toProxy' = <<>> /\ <<>> \in Seq(ClientPackets)
        /\ client.state = "Play" /\ client.next = "none"
    <3>1. toProxy' = <<>> /\ ClientSent("finish")
      BY <1>1, <1>3, <1>5, TakesLast
    <3>2. QED
      BY <3>1, EmptySeq DEF ClientSent
  <2>2. backend_finished_config
    BY <1>3, <2>1
  <2>3. stage' = "play" /\ client_finished_config' = TRUE
    BY <1>1, <1>5, <2>2 DEF BridgeClient, Bridged
  <2>4. backend' = [backend EXCEPT !.state = "Play"]
    BY <1>1, <1>2, <1>5, <2>2, ServedWell
  <2>5. /\ backend' \in Backends /\ backend' # NoBackend /\ backend'.state = "Play"
        /\ backend'.threshold = compression_threshold /\ backend'.missed = {}
    BY <1>2, <2>4, NoBackendAssumption DEF Backends
  <2>6. TypeOK'
    BY <1>1, <2>1, <2>3, <2>5 DEF TypeOK, fixed, Stages, Ended
  <2>7. OnlyVerified'
    BY <1>1 DEF OnlyVerified, ProxyInv, Unknown, fixed
  <2>8. WritesUnderstood'
    BY <1>1, <1>3, <2>5 DEF WritesUnderstood
  <2>9. ProxyInv'
    BY <1>1, <2>3, <2>5 DEF ProxyInv, Unknown, Backendless, fixed
  <2>10. ClientInv'
    BY <1>1, <1>3, <2>1, <2>3, QuietClient DEF ClientQuiet, ClientFraming, Stream
  <2>11. BackendInv'
    BY <1>1, <1>2, <2>2, <2>3, <2>5, QuietBackend DEF BackendQuiet, Backendless, Unknown
  <2>12. QED
    BY <2>6, <2>7, <2>8, <2>9, <2>10, <2>11 DEF Inv
<1>6. kind \in {"config_other", "finish"}
  <2>1. ClientDue(kind)
    BY <1>1, <1>3, Takes
  <2>2. QED
    BY <1>1, <2>1 DEF ClientDue
<1>7. QED
  BY <1>4, <1>5, <1>6

-----------------------------------------------------------------------------
(* The peers.  A client sends what fits behind what it sent before, or what is due. *)
LEMMA ClientSendsStep ==
  ASSUME Inv, NEW kind \in ClientKinds, NEW state, NEW next, NEW enc \in BOOLEAN,
         ClientSends(kind, state, next, enc), client' \in Clients,
         client.framing = Stream, client'.framing = ClientFraming',
         toProxy # <<>> => ClientNext(Latest(toProxy).kind, kind),
         toProxy = <<>> => ClientDue(kind),
         ClientSent(kind)',
         stage \in {"ack", "bridging"} => state = client.state
  PROVE  Inv'
<1> DEFINE m == [kind |-> kind, framing |-> client.framing]
<1>1. /\ TypeOK /\ ProxyInv /\ ClientInv /\ BackendInv /\ stage \notin Ended
      /\ toProxy' = Append(toProxy, m)
      /\ client' = [client EXCEPT !.state = state, !.next = next, !.framing.encrypted = enc]
      /\ UNCHANGED <<fixed, stage, profile, encrypted, compression_threshold, flags, shutdown,
                     backend, fromBackend>>
  BY DEF Inv, ClientSends
<1>2. /\ client \in Clients /\ toProxy \in Seq(ClientPackets) /\ m \in ClientPackets
      /\ ClientQueue /\ client.missed = {} /\ stage # "over"
      /\ stage \in {"ack", "bridging"} =>
           client.state = IF backend_finished_config THEN "Play" ELSE "Configuration"
  BY <1>1 DEF TypeOK, ClientInv, Clients, ClientPackets, Ended
<1>3. client'.missed = {} /\ client'.state = state
  BY <1>1, <1>2 DEF Clients
<1>4. /\ toProxy' \in Seq(ClientPackets) /\ toProxy' # <<>> /\ Latest(toProxy') = m
      /\ \A i \in 1 .. Len(toProxy') :
           (i \in 1 .. Len(toProxy) /\ toProxy'[i] = toProxy[i]) \/ toProxy'[i] = m
      /\ \A i \in 1 .. Len(toProxy') - 1 :
           \/ /\ i \in 1 .. Len(toProxy) - 1 /\ toProxy'[i] = toProxy[i]
              /\ toProxy'[i + 1] = toProxy[i + 1]
           \/ toProxy # <<>> /\ toProxy'[i] = Latest(toProxy) /\ toProxy'[i + 1] = m
      /\ toProxy # <<>> => toProxy'[1] = toProxy[1]
      /\ toProxy = <<>> => toProxy'[1] = m
  BY <1>1, <1>2, AppendShape
<1>5. m.kind = kind /\ m.framing = Stream /\ Stream' = Stream
  BY <1>1 DEF Stream
<1> HIDE DEF m
<1>6. TypeOK'
  BY <1>1, <1>4 DEF TypeOK, fixed, flags
<1>7. OnlyVerified' /\ WritesUnderstood'
  BY <1>1, <1>3 DEF Inv, OnlyVerified, WritesUnderstood, fixed, flags
<1>8. ProxyInv'
  BY <1>1 DEF ProxyInv, fixed, flags
<1>9. ClientInv'
  <2>1. \A i \in 1 .. Len(toProxy') : toProxy'[i].framing = Stream'
    BY <1>2, <1>4, <1>5 DEF ClientQueue
  <2>2. \A i \in 1 .. Len(toProxy') - 1 : ClientNext(toProxy'[i].kind, toProxy'[i + 1].kind)
    BY <1>2, <1>4, <1>5 DEF ClientQueue
  <2>3. (ClientDue(toProxy[1].kind) /\ ClientSent(Latest(toProxy).kind))'
    <3>1. ClientDue(toProxy'[1].kind)
      BY <1>2, <1>4, <1>5 DEF ClientQueue
    <3>2. ClientDue(toProxy[1].kind)'
      BY <1>1, <3>1 DEF ClientDue
    <3>3. QED
      BY <1>4, <1>5, <3>2
  <2>4. ClientQueue'
    BY <1>4, <2>1, <2>2, <2>3 DEF ClientQueue
  <2>5. QED
    BY <1>1, <1>2, <1>3, <2>4 DEF ClientInv, flags
<1>10. BackendInv'
  BY <1>1, SameBackend DEF fixed, flags
<1>11. QED
  BY <1>6, <1>7, <1>8, <1>9, <1>10 DEF Inv

(* A client speaks in the framing in which the proxy reads: once it has sent its
   encryption response it says nothing until the proxy has turned to the secret. *)
LEMMA SpeaksPlain ==
  ASSUME Inv, stage \notin Ended, client.next # "none" \/ client.state = "Configuration"
  PROVE  client.framing = Stream /\ stage # "auth" /\ (stage = "encryption" => toProxy = <<>>)
<1>1. /\ TypeOK /\ ClientInv /\ ClientQueue /\ client.framing = ClientFraming
      /\ toProxy \in Seq(ClientPackets)
  BY DEF Inv, ClientInv, TypeOK, Ended
<1>2. stage # "auth"
  BY <1>1, Silent DEF ClientQuiet
<1>3. ASSUME stage = "encryption", toProxy # <<>> PROVE FALSE
  <2>1. /\ toProxy[1].kind = "encryption_response"
        /\ ClientSent(Latest(toProxy).kind)
    BY <1>1, <1>3 DEF ClientQueue, ClientDue
  <2>2. /\ Tail(toProxy) # <<>> => 1 \in 1 .. Len(toProxy) - 1
        /\ Tail(toProxy) = <<>> => Latest(toProxy) = toProxy[1]
    BY <1>1, <1>3, TakeShape
  <2>3. Tail(toProxy) = <<>>
    BY <1>1, <2>1, <2>2 DEF ClientQueue, ClientNext
  <2>4. QED
    BY <2>1, <2>2, <2>3 DEF ClientSent
<1>4. QED
  BY <1>1, <1>2, <1>3 DEF ClientFraming

LEMMA ClientSpeaksStep == ASSUME Inv, ClientSpeaks PROVE Inv'
<1> DEFINE enc == client.framing.encrypted
<1>1. /\ TypeOK /\ ClientInv /\ client \in Clients /\ enc \in BOOLEAN
      /\ stage \notin Ended /\ stage \in Stages /\ UNCHANGED <<stage, encrypted, compression_threshold>>
  BY DEF Inv, TypeOK, Clients, Framing, ClientSpeaks, ClientSends
<1>2. \/ toProxy = <<>> /\ ClientQuiet
      \/ /\ toProxy # <<>> /\ ClientSent(Latest(toProxy).kind)
         /\ Latest(toProxy).kind \in ClientKinds
  <2>1. ClientQueue /\ toProxy \in Seq(ClientPackets)
    BY <1>1 DEF ClientInv, TypeOK, Ended
  <2>2. toProxy # <<>> => Latest(toProxy) \in ClientPackets
    BY <2>1, TakeShape
  <2>3. QED
    BY <2>1, <2>2 DEF ClientQueue, ClientPackets
<1>3. ASSUME NEW state, NEW next,
             client' = [client EXCEPT !.state = state, !.next = next, !.framing.encrypted = enc],
             state \in {"Handshake", "Status", "Login", "Configuration", "Play"},
             next \in ClientKinds \cup {"handshake", "none"}
      PROVE  /\ client' \in Clients /\ client'.framing = client.framing
             /\ client'.state = state /\ client'.next = next
  <2>1. [client.framing EXCEPT !.encrypted = enc] = client.framing
    BY <1>1 DEF Clients, Framing
  <2>2. QED
    BY <1>1, <1>3, <2>1 DEF Clients
<1>4. ASSUME client.framing = Stream, stage # "auth", stage # "encryption"
      PROVE  client.framing = ClientFraming'
  BY <1>1, <1>4 DEF ClientFraming, Stream
<1> HIDE DEF enc
<1>5. CASE client.next = "handshake"
  <2>1. toProxy = <<>> /\ stage = "handshake" /\ client.framing = Stream
    <3>1. toProxy = <<>> /\ ClientQuiet
      BY <1>2, <1>5 DEF ClientSent, ClientKinds
    <3>2. stage = "handshake"
      BY <1>1, <1>5, <3>1 DEF ClientQuiet, Stages, AwaitsClient, AwaitsBackend, Ended
    <3>3. QED
      BY <1>1, <1>5, <3>1, <3>2, SpeaksPlain
  <2>2. CASE ClientSends("status_handshake", "Status", "status_request", enc)
    <3>1. /\ client' \in Clients /\ client'.framing = client.framing
          /\ client'.state = "Status" /\ client'.next = "status_request"
      BY <1>3, <2>2 DEF ClientSends, ClientKinds
    <3>2. client'.framing = ClientFraming' /\ ClientSent("status_handshake")'
      BY <1>4, <2>1, <3>1 DEF ClientSent
    <3>3. ClientDue("status_handshake") /\ "status_handshake" \in ClientKinds
      BY <2>1 DEF ClientDue, ClientKinds
    <3>4. QED
      BY <1>1, <2>1, <2>2, <3>1, <3>2, <3>3, ClientSendsStep
  <2>3. CASE ClientSends("login_handshake", "Login", "login_start", enc)
    <3>1. /\ client' \in Clients /\ client'.framing = client.framing
          /\ client'.state = "Login" /\ client'.next = "login_start"
      BY <1>3, <2>3 DEF ClientSends, ClientKinds
    <3>2. client'.framing = ClientFraming' /\ ClientSent("login_handshake")'
      BY <1>4, <2>1, <3>1 DEF ClientSent
    <3>3. ClientDue("login_handshake") /\ "login_handshake" \in ClientKinds
      BY <2>1 DEF ClientDue, ClientKinds
    <3>4. QED
      BY <1>1, <2>1, <2>3, <3>1, <3>2, <3>3, ClientSendsStep
  <2>4. QED
    BY <1>5, <2>2, <2>3 DEF ClientSpeaks, enc
<1>6. ASSUME NEW kind \in {"status_request", "ping", "login_start", "login_ack", "finish"},
             client.next = kind
      PROVE  Inv'
  <2>1. ClientSends(kind, client.state, "none", enc)
    BY <1>6 DEF ClientSpeaks, enc
  <2>2. /\ client' \in Clients /\ client'.framing = client.framing
        /\ client'.state = client.state /\ client'.next = "none"
    BY <1>1, <1>3, <2>1 DEF ClientSends, Clients
  <2>3. /\ toProxy # <<>> => ClientNext(Latest(toProxy).kind, kind)
        /\ toProxy = <<>> => ClientDue(kind)
        /\ kind \in {"status_request", "ping"} => client.state = "Status"
        /\ kind = "login_start" => client.state = "Login"
        /\ kind = "login_ack" => client.state = "Configuration"
        /\ kind = "finish" => client.state = "Play"
    <3>1. CASE toProxy = <<>> /\ ClientQuiet
      BY <1>1, <1>6, <3>1 DEF ClientQuiet, ClientDue, Stages, AwaitsClient, AwaitsBackend, Ended
    <3>2. CASE /\ toProxy # <<>> /\ ClientSent(Latest(toProxy).kind)
               /\ Latest(toProxy).kind \in ClientKinds
      BY <1>6, <3>2 DEF ClientSent, ClientNext, ClientKinds
    <3>3. QED
      BY <1>2, <3>1, <3>2
  <2>4. stage # "encryption"
    <3>1. stage = "encryption" => toProxy = <<>>
      BY <1>1, <1>6, SpeaksPlain
    <3>2. QED
      BY <1>2, <1>6, <3>1 DEF ClientQuiet
  <2>5. client.framing = Stream /\ client'.framing = ClientFraming'
    BY <1>1, <1>4, <1>6, <2>2, <2>4, SpeaksPlain
  <2>6. ClientSent(kind)'
    BY <1>6, <2>2, <2>3 DEF ClientSent
  <2>7. kind \in ClientKinds
    BY <1>6 DEF ClientKinds
  <2>8. QED
    BY <1>1, <2>1, <2>2, <2>3, <2>5, <2>6, <2>7, ClientSendsStep
<1>7. CASE client.next = "encryption_response"
  <2>1. ClientSends("encryption_response", client.state, "none", TRUE)
    BY <1>7 DEF ClientSpeaks
  <2>2. toProxy = <<>> /\ stage = "encryption" /\ client.state = "Login"
    <3>1. toProxy = <<>> /\ ClientQuiet
      BY <1>2, <1>7 DEF ClientSent, ClientKinds
    <3>2. QED
      BY <1>1, <1>7, <3>1 DEF ClientQuiet, Stages, AwaitsClient, AwaitsBackend, Ended
  <2>3. client.framing = Stream
    BY <1>1, <1>7, SpeaksPlain
  <2>4. /\ client' \in Clients /\ client'.framing = [Stream EXCEPT !.encrypted = TRUE]
        /\ client'.state = "Login" /\ client'.next = "none"
    BY <1>1, <2>1, <2>2, <2>3 DEF ClientSends, Clients, Framing
  <2>5. toProxy' # <<>>
    <3>1. toProxy \in Seq(ClientPackets)
      BY <1>1 DEF TypeOK
    <3>2. QED
      BY <2>1, <3>1 DEF ClientSends
  <2>6. client'.framing = ClientFraming'
    BY <1>1, <2>2, <2>4, <2>5 DEF ClientFraming, Stream
  <2>7. ClientSent("encryption_response")'
    BY <2>4 DEF ClientSent
  <2>8. ClientDue("encryption_response") /\ "encryption_response" \in ClientKinds
    BY <2>2 DEF ClientDue, ClientKinds
  <2>9. QED
    BY <2>1, <2>2, <2>3, <2>4, <2>6, <2>7, <2>8, ClientSendsStep
<1>8. CASE client.next = "none" /\ client.state = "Configuration"
  <2>1. ClientSends("config_other", client.state, "none", enc)
    BY <1>8 DEF ClientSpeaks, enc
  <2>2. /\ client' \in Clients /\ client'.framing = client.framing
        /\ client'.state = "Configuration" /\ client'.next = "none"
    BY <1>3, <1>8, <2>1 DEF ClientSends
  <2>3. /\ toProxy # <<>> => ClientNext(Latest(toProxy).kind, "config_other")
        /\ toProxy = <<>> => ClientDue("config_other")
    <3>1. CASE toProxy = <<>> /\ ClientQuiet
      BY <1>1, <1>8, <3>1 DEF ClientQuiet, ClientDue, Stages, AwaitsClient, AwaitsBackend, Ended
    <3>2. CASE /\ toProxy # <<>> /\ ClientSent(Latest(toProxy).kind)
               /\ Latest(toProxy).kind \in ClientKinds
      BY <1>8, <3>2 DEF ClientSent, ClientNext, ClientKinds
    <3>3. QED
      BY <1>2, <3>1, <3>2
  <2>4. stage # "encryption"
    <3>1. stage = "encryption" => toProxy = <<>>
      BY <1>1, <1>8, SpeaksPlain
    <3>2. QED
      BY <1>2, <1>8, <3>1 DEF ClientQuiet
  <2>5. client.framing = Stream /\ client'.framing = ClientFraming'
    BY <1>1, <1>4, <1>8, <2>2, <2>4, SpeaksPlain
  <2>6. ClientSent("config_other")' /\ "config_other" \in ClientKinds
    BY <2>2 DEF ClientSent, ClientKinds
  <2>7. QED
    BY <1>1, <2>1, <2>2, <2>3, <2>5, <2>6, ClientSendsStep
<1>9. QED
  BY <1>5, <1>6, <1>7, <1>8 DEF ClientSpeaks

(* A backend, in the same way: what it sends is framed as what it sent last left it. *)
LEMMA BackendSendsStep ==
  ASSUME Inv, stage \notin Ended, backend # NoBackend, NEW kind \in BackendKinds, NEW state,
         NEW threshold \in Thresholds \cup {Uncompressed},
         BackendSends(kind, state, threshold), backend' \in Backends,
         fromBackend # <<>> =>
           \/ /\ Latest(fromBackend).kind = "set_compression"
              /\ kind \in {"login_success", "login_disconnect", "encryption_request"}
           \/ /\ Latest(fromBackend).kind \in {"registry", "config_other"}
              /\ kind \in {"registry", "config_other", "config_disconnect", "finish"},
         fromBackend = <<>> => BackendDue(kind),
         IF kind = "set_compression" THEN threshold \in Thresholds
                                     ELSE threshold = backend.threshold,
         BackendSent(kind)',
         stage = "bridging" => /\ kind # "set_compression" /\ ~backend_finished_config
                               /\ state \in {"Configuration", "finish_wait", "closed"}
  PROVE  Inv'
<1> DEFINE q == fromBackend
           r == fromBackend'
           m == [kind |-> kind, threshold |-> backend.threshold, announced |-> threshold]
<1>1. /\ TypeOK /\ ProxyInv /\ ClientInv /\ BackendInv /\ r = Append(q, m)
      /\ backend' = [backend EXCEPT !.state = state, !.threshold = threshold]
      /\ UNCHANGED <<fixed, stage, profile, encrypted, compression_threshold, flags, shutdown,
                     client, toProxy>>
  BY DEF Inv, BackendSends
<1>2. /\ backend \in Backends /\ q \in Seq(BackendPackets) /\ m \in BackendPackets
      /\ stage \notin Backendless /\ BackendQueue /\ backend.missed = {}
      /\ stage = "bridging" => backend.threshold = compression_threshold
  BY <1>1 DEF TypeOK, ProxyInv, BackendInv, Backends, BackendPackets, Ended
<1>3. backend'.missed = {} /\ backend'.state = state /\ backend'.threshold = threshold
  BY <1>1, <1>2 DEF Backends
<1>4. /\ r \in Seq(BackendPackets) /\ r # <<>> /\ Latest(r) = m
      /\ \A i \in 1 .. Len(r) : (i \in 1 .. Len(q) /\ r[i] = q[i]) \/ r[i] = m
      /\ \A i \in 1 .. Len(r) - 1 :
           \/ i \in 1 .. Len(q) - 1 /\ r[i] = q[i] /\ r[i + 1] = q[i + 1]
           \/ q # <<>> /\ r[i] = Latest(q) /\ r[i + 1] = m
      /\ q # <<>> => r[1] = q[1]
      /\ q = <<>> => r[1] = m
  BY <1>1, <1>2, AppendShape
<1>5. m.kind = kind /\ m.threshold = backend.threshold /\ m.announced = threshold
  OBVIOUS
<1>6. Announces(m) /\ (q # <<>> => BackendNext(Latest(q), m))
  BY <1>2, <1>5 DEF Announces, BackendNext, BackendQueue
<1> HIDE DEF m
<1>7. TypeOK'
  BY <1>1, <1>4 DEF TypeOK, fixed, flags
<1>8. OnlyVerified' /\ WritesUnderstood'
  BY <1>1, <1>3 DEF Inv, OnlyVerified, WritesUnderstood, fixed, flags
<1>9. ProxyInv'
  <2>1. backend' # NoBackend
    BY NoBackendAssumption
  <2>2. QED
    BY <1>1, <1>2, <2>1 DEF ProxyInv, fixed, flags
<1>10. BackendInv'
  <2>1. \A i \in 1 .. Len(r) : Announces(r[i])
    BY <1>2, <1>4, <1>6 DEF BackendQueue
  <2>2. \A i \in 1 .. Len(r) - 1 : BackendNext(r[i], r[i + 1])
    BY <1>2, <1>4, <1>6 DEF BackendQueue
  <2>3. r[1].threshold = compression_threshold /\ BackendDue(r[1].kind)
    BY <1>2, <1>4, <1>5 DEF BackendQueue
  <2>4. BackendDue(fromBackend[1].kind)'
    BY <1>1, <2>3 DEF BackendDue
  <2>5. BackendQueue'
    BY <1>1, <1>3, <1>4, <1>5, <2>1, <2>2, <2>3, <2>4 DEF BackendQueue
  <2>6. QED
    BY <1>1, <1>2, <1>3, <2>5 DEF BackendInv, flags
<1>11. ClientInv'
  BY <1>1, SameClient DEF flags
<1>12. QED
  BY <1>7, <1>8, <1>9, <1>10, <1>11 DEF Inv

LEMMA BackendSpeaksStep == ASSUME Inv, BackendSpeaks PROVE Inv'
<1>1. /\ TypeOK /\ ProxyInv /\ BackendInv /\ backend # NoBackend /\ backend \in Backends
      /\ stage \notin Ended /\ stage \in Stages /\ stage \notin Backendless
      /\ backend.threshold \in Thresholds \cup {Uncompressed}
  BY DEF Inv, TypeOK, ProxyInv, BackendSpeaks, Backends, Ended
<1>2. /\ stage \in {"forwarding", "backend_login", "backend_success", "ack", "bridging"}
      /\ stage = "backend_success" => compression_threshold \in Thresholds
      /\ stage = "bridging" =>
           /\ backend.state \in {"Configuration", "finish_wait", "closed"}
           /\ backend_finished_config => fromBackend = <<>> /\ backend.state = "finish_wait"
  BY <1>1 DEF Stages, AwaitsClient, AwaitsBackend, Ended, Backendless, Unknown, ProxyInv,
              BackendInv, BackendQueue, BackendQuiet
<1>3. \/ /\ fromBackend = <<>> /\ BackendQuiet /\ backend.threshold = compression_threshold
      \/ /\ fromBackend # <<>> /\ BackendSent(Latest(fromBackend).kind)
         /\ Latest(fromBackend).kind \in BackendKinds /\ BackendDue(fromBackend[1].kind)
         /\ Latest(fromBackend).kind = "set_compression" => backend.threshold \in Thresholds
  <2>1. BackendQueue /\ fromBackend \in Seq(BackendPackets)
    BY <1>1 DEF BackendInv, TypeOK, Ended
  <2>2. ASSUME fromBackend # <<>>
        PROVE  Latest(fromBackend) \in BackendPackets /\ Announces(Latest(fromBackend))
    <3>1. Len(fromBackend) \in 1 .. Len(fromBackend)
      BY <2>1, <2>2, EmptySeq, LenProperties
    <3>2. QED
      BY <2>1, <2>2, <3>1, ElementOfSeq DEF BackendQueue, Latest
  <2>3. QED
    BY <2>1, <2>2 DEF BackendQueue, BackendPackets, Announces
<1>4. ASSUME NEW state \in {"plugin_wait", "login", "ack_wait", "Configuration", "finish_wait",
                            "Play", "closed"},
             NEW threshold \in Thresholds \cup {Uncompressed},
             backend' = [backend EXCEPT !.state = state, !.threshold = threshold]
      PROVE  backend' \in Backends /\ backend'.state = state
  BY <1>1, <1>4 DEF Backends
<1>5. CASE backend.state = "plugin"
  <2>1. BackendSends("plugin_request", "plugin_wait", backend.threshold)
    BY <1>5 DEF BackendSpeaks
  <2>2. fromBackend = <<>> /\ BackendDue("plugin_request") /\ stage # "bridging"
    BY <1>2, <1>3, <1>5 DEF BackendSent, BackendQuiet, BackendDue, BackendKinds
  <2>3. backend' \in Backends /\ BackendSent("plugin_request")'
    BY <1>1, <1>4, <2>1 DEF BackendSends, BackendSent
  <2>4. QED
    BY <1>1, <2>1, <2>2, <2>3, BackendSendsStep DEF BackendKinds
<1>6. ASSUME NEW t \in Thresholds, backend.state = "login", backend.threshold = Uncompressed,
             BackendSends("set_compression", "login", t)
      PROVE  Inv'
  <2>1. fromBackend = <<>> /\ BackendDue("set_compression") /\ stage # "bridging"
    BY <1>2, <1>3, <1>6, ThresholdsAssumption
    DEF BackendSent, BackendQuiet, BackendDue, BackendKinds
  <2>2. backend' \in Backends /\ BackendSent("set_compression")'
    BY <1>1, <1>4, <1>6 DEF BackendSends, BackendSent
  <2>3. QED
    BY <1>1, <1>6, <2>1, <2>2, BackendSendsStep DEF BackendKinds
<1>7. ASSUME NEW kind \in {"login_success", "login_disconnect", "encryption_request"}, NEW state,
             backend.state = "login", BackendSends(kind, state, backend.threshold),
             state = IF kind # "login_success" THEN "closed"
                     ELSE IF version >= 764 THEN "ack_wait" ELSE "Play"
      PROVE  Inv'
  <2>1. /\ fromBackend # <<>> => Latest(fromBackend).kind = "set_compression"
        /\ fromBackend = <<>> => BackendDue(kind)
        /\ stage # "bridging"
    BY <1>2, <1>3, <1>7 DEF BackendSent, BackendQuiet, BackendDue, BackendKinds
  <2>2. backend' \in Backends /\ backend'.state = state /\ version' = version
    <3>1. state \in {"closed", "ack_wait", "Play"}
      BY <1>7
    <3>2. /\ backend' = [backend EXCEPT !.state = state, !.threshold = backend.threshold]
          /\ version' = version
      BY <1>7 DEF BackendSends, fixed
    <3>3. QED
      BY <1>1, <1>4, <3>1, <3>2
  <2>3. BackendSent(kind)'
    BY <1>7, <2>2 DEF BackendSent
  <2>4. kind \in BackendKinds /\ kind # "set_compression"
    BY DEF BackendKinds
  <2>5. QED
    BY <1>1, <1>7, <2>1, <2>2, <2>3, <2>4, BackendSendsStep
<1>8. ASSUME NEW kind \in {"registry", "config_other", "config_disconnect", "finish"}, NEW state,
             backend.state = "Configuration", BackendSends(kind, state, backend.threshold),
             state = IF kind = "config_disconnect" THEN "closed"
                     ELSE IF kind = "finish" THEN "finish_wait" ELSE "Configuration"
      PROVE  Inv'
  <2>1. /\ fromBackend # <<>> => Latest(fromBackend).kind \in {"registry", "config_other"}
        /\ fromBackend = <<>> => BackendDue(kind)
        /\ stage = "bridging" => ~backend_finished_config
    BY <1>2, <1>3, <1>8 DEF BackendSent, BackendQuiet, BackendDue, BackendKinds
  <2>2. backend' \in Backends /\ backend'.state = state
    BY <1>1, <1>4, <1>8 DEF BackendSends
  <2>3. BackendSent(kind)'
    BY <1>8, <2>2 DEF BackendSent
  <2>4. /\ kind \in BackendKinds /\ kind # "set_compression"
        /\ state \in {"Configuration", "finish_wait", "closed"}
    BY <1>8 DEF BackendKinds
  <2>5. QED
    BY <1>1, <1>8, <2>1, <2>2, <2>3, <2>4, BackendSendsStep
<1>9. CASE backend.state = "login"
  <2>1. ASSUME BackendSends("login_success", IF version >= 764 THEN "ack_wait" ELSE "Play",
                            backend.threshold)
        PROVE  Inv'
    BY <1>7, <1>9, <2>1
  <2>2. ASSUME NEW kind \in {"login_disconnect", "encryption_request"},
               BackendSends(kind, "closed", backend.threshold)
        PROVE  Inv'
    BY <1>7, <1>9, <2>2
  <2>3. QED
    BY <1>6, <1>9, <2>1, <2>2 DEF BackendSpeaks
<1>10. CASE backend.state = "Configuration"
  <2>1. ASSUME NEW kind \in {"registry", "config_other"},
               BackendSends(kind, "Configuration", backend.threshold)
        PROVE  Inv'
    BY <1>8, <1>10, <2>1
  <2>2. ASSUME BackendSends("config_disconnect", "closed", backend.threshold) PROVE Inv'
    BY <1>8, <1>10, <2>2
  <2>3. ASSUME BackendSends("finish", "finish_wait", backend.threshold) PROVE Inv'
    BY <1>8, <1>10, <2>3
  <2>4. QED
    BY <1>10, <2>1, <2>2, <2>3 DEF BackendSpeaks
<1>11. QED
  BY <1>5, <1>9, <1>10 DEF BackendSpeaks

LEMMA ShutdownSignalStep == ASSUME Inv, ShutdownSignal PROVE Inv'
<1>1. /\ TypeOK /\ ProxyInv /\ ClientInv /\ BackendInv /\ shutdown' = TRUE /\ stage # "over"
      /\ UNCHANGED <<fixed, stage, profile, encrypted, compression_threshold, flags, client,
                     backend, toProxy, fromBackend>>
  BY DEF Inv, ShutdownSignal, Ended
<1>2. TypeOK' /\ ProxyInv'
  BY <1>1 DEF TypeOK, ProxyInv, fixed, flags
<1>3. OnlyVerified' /\ WritesUnderstood'
  BY <1>1 DEF Inv, OnlyVerified, WritesUnderstood, fixed, flags
<1>4. ClientInv' /\ BackendInv'
  BY <1>1, SameClient, SameBackend DEF fixed, flags
<1>5. QED
  BY <1>2, <1>3, <1>4 DEF Inv

LEMMA Stutters == ASSUME Inv, UNCHANGED vars PROVE Inv'
<1>1. UNCHANGED <<fixed, stage, profile, encrypted, compression_threshold, flags, shutdown,
                  client, backend, toProxy, fromBackend>>
  BY DEF vars
<1>2. TypeOK' /\ ProxyInv'
  BY <1>1 DEF Inv, TypeOK, ProxyInv, fixed, flags
<1>3. OnlyVerified' /\ WritesUnderstood'
  BY <1>1 DEF Inv, OnlyVerified, WritesUnderstood, fixed, flags
<1>4. ClientInv' /\ BackendInv'
  BY <1>1, SameClient, SameBackend DEF Inv, fixed, flags
<1>5. QED
  BY <1>2, <1>3, <1>4 DEF Inv

LEMMA NextInv == Inv /\ [Next]_vars => Inv'
<1> SUFFICES ASSUME Inv, [Next]_vars PROVE Inv'
  OBVIOUS
<1>1. ASSUME Login PROVE Inv'
  <2>1. ASSUME NEW whose \in {"verified", "other"}, Authenticate(whose) PROVE Inv'
    BY <2>1, AuthenticateStep
  <2>2. ASSUME Timeout PROVE Inv'
    BY <2>2, HangUpStep DEF Timeout
  <2>3. QED
    BY <1>1, <2>1, <2>2, ReadHandshakeStep, HandleStatusStep, ReadLoginStartStep,
       ReadEncryptionResponseStep, AuthenticationFailsStep, HangUpStep DEF Login
<1>2. ASSUME BackendLogin PROVE Inv'
  <2>1. ASSUME ScriptRejects \/ ConnectFails \/ BackendLoginFails PROVE Inv'
    BY <2>1, RefuseStep DEF ScriptRejects, ConnectFails, BackendLoginFails
  <2>2. QED
    BY <1>2, <2>1, ScriptAllowsStep, TargetUnknownStep, ConnectStep, AnswerForwardingStep,
       BackendCompressesStep, CompressionRefusedStep, BackendAcceptsStep DEF BackendLogin
<1>3. ASSUME Configuration PROVE Inv'
  <2>1. ASSUME NEW kind \in BackendKinds, BridgeBackend(kind) PROVE Inv'
    BY <2>1, BridgeBackendStep
  <2>2. ASSUME NEW kind \in ClientKinds, BridgeClient(kind) PROVE Inv'
    BY <2>2, BridgeClientStep
  <2>3. QED
    BY <1>3, <2>1, <2>2, ReadAckStep, ShutdownArmStep, DropProtectedStep DEF Configuration
<1>4. QED
  BY <1>1, <1>2, <1>3, ClientSpeaksStep, BackendSpeaksStep, ShutdownSignalStep, Stutters
  DEF Next, Done

-----------------------------------------------------------------------------
LEMMA Invariant == Spec => []Inv
BY InitInv, NextInv, PTL DEF Spec

(* Every variable of a join keeps its type. *)
THEOREM TypeCorrect == Spec => []TypeOK
<1>1. Inv => TypeOK
  BY DEF Inv
<1>2. QED
  BY Invariant, <1>1, PTL

(* Whatever the proxy writes on any path of a join, its reader is in the framing and in
   the protocol state for it; the shutdown notice that overtakes the client's answer to
   FinishConfiguration is the one exception. *)
THEOREM PeersUnderstand == Spec => []WritesUnderstood
<1>1. Inv => WritesUnderstood
  BY DEF Inv
<1>2. QED
  BY Invariant, <1>1, PTL

(* Whatever the proxy reads, it reads with the encryption and the compression with which
   it was written. *)
THEOREM ProxyUnderstands == Spec => []ReadsUnderstood
<1>1. Inv => ReadsUnderstood
  <2> SUFFICES ASSUME Inv PROVE ReadsUnderstood
    OBVIOUS
  <2>1. ASSUME stage \in AwaitsClient, toProxy # <<>> PROVE Head(toProxy).framing = Stream
    <3>1. ClientQueue /\ toProxy \in Seq(ClientPackets)
      BY <2>1 DEF Inv, TypeOK, ClientInv, AwaitsClient
    <3>2. Head(toProxy) = toProxy[1] /\ 1 \in 1 .. Len(toProxy)
      BY <2>1, <3>1, TakeShape
    <3>3. QED
      BY <3>1, <3>2 DEF ClientQueue
  <2>2. ASSUME stage \in AwaitsBackend, fromBackend # <<>>
        PROVE  Head(fromBackend).threshold = compression_threshold
    <3>1. BackendQueue /\ fromBackend \in Seq(BackendPackets)
      BY <2>2 DEF Inv, TypeOK, BackendInv, AwaitsBackend, Backendless, Unknown
    <3>2. Head(fromBackend) = fromBackend[1]
      BY <2>2, <3>1, TakeShape
    <3>3. QED
      BY <2>2, <3>1, <3>2 DEF BackendQueue
  <2>3. QED
    BY <2>1, <2>2 DEF ReadsUnderstood
<1>2. QED
  BY Invariant, <1>1, PTL

(* PlayStateMachine takes over a client and a backend that are both in Play, framed with
   the threshold it is given, and nothing of an earlier state is on its way. *)
THEOREM HandedOver == Spec => []HandOff
<1>1. Inv => HandOff
  <2> SUFFICES ASSUME Inv, stage = "play"
               PROVE  /\ client.state = "Play" /\ backend # NoBackend /\ backend.state = "Play"
                      /\ client.framing = Stream /\ backend.threshold = compression_threshold
                      /\ toProxy = <<>> /\ fromBackend = <<>>
    BY DEF HandOff
  <2>1. client.state = "Play" /\ client.framing = Stream /\ toProxy = <<>>
    BY Silent DEF Inv, ClientQuiet, ClientFraming
  <2>2. backend # NoBackend /\ BackendQueue
    BY DEF Inv, ProxyInv, BackendInv, Backendless, Unknown
  <2>3. fromBackend = <<>> /\ backend.state = "Play" /\ backend.threshold = compression_threshold
    BY <2>2 DEF BackendQueue, BackendDue, BackendQuiet
  <2>4. QED
    BY <2>1, <2>2, <2>3
<1>2. QED
  BY Invariant, <1>1, PTL

(* A backend hears only of players the session server has vouched for, over an encrypted
   stream, if the proxy is in online mode. *)
THEOREM BackendsHearOfVerified == Spec => []OnlyVerified
<1>1. Inv => OnlyVerified
  BY DEF Inv
<1>2. QED
  BY Invariant, <1>1, PTL
=============================================================================
