-------------------------------- MODULE Join --------------------------------
(***************************************************************************)
(* process_connection (src/src/network/listener.rs): one client's way from *)
(* the handshake to the Play state, with handle_status, handle_login_auth  *)
(* and connect_and_forward, up to the point where PlayStateMachine takes   *)
(* over.                                                                   *)
(*                                                                         *)
(* Three parties have to agree, packet by packet, on the protocol state,   *)
(* on encryption and on compression.  The proxy's view is in its own       *)
(* variables; client and backend hold what those two really expect.  What  *)
(* the proxy writes arrives at once; what the others send waits in a queue *)
(* until the proxy reads it.  Clients and backends keep to the protocol,   *)
(* fall silent, or send something the proxy cannot accept (HangUp and the  *)
(* actions named ...Fails).                                                *)
(***************************************************************************)
EXTENDS Integers, Sequences

CONSTANTS
  Versions,       \* protocol versions clients announce
  Thresholds,     \* thresholds a backend may announce
  Uncompressed,   \* compression_threshold = None
  NoBackend,
  MaxQueue        \* bound: packets of a peer that wait to be read

ASSUME VersionsAssumption == Versions \subseteq Nat
ASSUME ThresholdsAssumption == Uncompressed \notin Thresholds
ASSUME MaxQueueAssumption == MaxQueue \in Nat

VARIABLES
  config,         \* what of the configuration decides: see Configs
  version,        \* handshake.protocol_version
  stage,          \* where process_connection is
  profile,        \* whose profile it holds
  encrypted,      \* active_stream is ActiveStream::Encrypted
  compression_threshold,
  client_finished_config,
  backend_finished_config,
  registry_cached,
  shutdown,       \* the shutdown watch channel
  client,
  backend,
  toProxy,
  fromBackend

flags == <<client_finished_config, backend_finished_config, registry_cached>>
fixed == <<config, version>>
vars  == <<fixed, stage, profile, encrypted, compression_threshold, flags, shutdown,
           client, backend, toProxy, fromBackend>>

(* online_mode; whether the backend asks for velocity_modern forwarding; whether
   default_server is a key of servers. *)
Configs == [online_mode : BOOLEAN, velocity_modern : BOOLEAN, default_known : BOOLEAN]

Framing == [encrypted : BOOLEAN, threshold : Thresholds \cup {Uncompressed}]
Plain   == [encrypted |-> FALSE, threshold |-> Uncompressed]

AwaitsClient  == {"handshake", "status", "ping", "login_start", "encryption", "ack", "bridging"}
AwaitsBackend == {"forwarding", "backend_login", "backend_success", "bridging"}
Timed         == {"handshake", "status", "ping", "login_start", "encryption", "ack"}
Ended         == {"play", "over"}
Stages        == AwaitsClient \cup AwaitsBackend \cup {"auth", "script", "connect"} \cup Ended

ClientKinds  == {"status_handshake", "login_handshake", "status_request", "ping",
                 "login_start", "encryption_response", "login_ack", "config_other", "finish"}
BackendKinds == {"plugin_request", "set_compression", "login_success", "login_disconnect",
                 "encryption_request", "registry", "config_other", "config_disconnect",
                 "finish"}
ProxyKinds   == {"status_response", "pong", "play_disconnect"} \cup BackendKinds

Clients  == [state : {"Handshake", "Status", "Login", "Configuration", "Play"},
             framing : Framing, next : ClientKinds \cup {"handshake", "none"},
             missed : SUBSET ProxyKinds]
Backends == [state : {"plugin", "plugin_wait", "login", "ack_wait", "Configuration",
                      "finish_wait", "Play", "closed"},
             threshold : Thresholds \cup {Uncompressed}, missed : SUBSET ClientKinds]

ClientPackets  == [kind : ClientKinds, framing : Framing]
BackendPackets == [kind : BackendKinds, threshold : Thresholds \cup {Uncompressed},
                   announced : Thresholds \cup {Uncompressed}]

ASSUME NoBackendAssumption == NoBackend \notin Backends

TypeOK ==
  /\ config \in Configs /\ version \in Versions
  /\ stage \in Stages
  /\ profile \in {"none", "claimed", "verified", "other"}
  /\ encrypted \in BOOLEAN
  /\ compression_threshold \in Thresholds \cup {Uncompressed}
  /\ client_finished_config \in BOOLEAN /\ backend_finished_config \in BOOLEAN
  /\ registry_cached \in BOOLEAN /\ shutdown \in BOOLEAN
  /\ client \in Clients /\ backend \in Backends \cup {NoBackend}
  /\ toProxy \in Seq(ClientPackets) /\ fromBackend \in Seq(BackendPackets)

Init ==
  /\ config \in Configs /\ version \in Versions
  /\ stage = "handshake" /\ profile = "none"
  /\ encrypted = FALSE /\ compression_threshold = Uncompressed
  /\ client_finished_config = FALSE /\ backend_finished_config = FALSE
  /\ registry_cached = FALSE /\ shutdown = FALSE
  /\ client = [state |-> "Handshake", framing |-> Plain, next |-> "handshake", missed |-> {}]
  /\ backend = NoBackend
  /\ toProxy = <<>> /\ fromBackend = <<>>

-----------------------------------------------------------------------------
(* The peers. *)

(* The protocol state in which a client understands a packet. *)
StateOf(kind) ==
  CASE kind \in {"status_response", "pong"}                      -> "Status"
    [] kind \in {"encryption_request", "set_compression", "login_success",
                 "login_disconnect", "plugin_request"}           -> "Login"
    [] kind \in {"registry", "config_other", "config_disconnect", "finish"}
                                                                 -> "Configuration"
    [] kind = "play_disconnect"                                  -> "Play"

(* A client after a packet it understands.  It changes state as it reads, and then
   answers. *)
After(c, kind, announced) ==
  CASE kind = "status_response"    -> [c EXCEPT !.next = "ping"]
    [] kind = "encryption_request" -> [c EXCEPT !.next = "encryption_response"]
    [] kind = "set_compression"    -> [c EXCEPT !.framing.threshold = announced]
    [] kind = "login_success"      -> IF version >= 764
                                        THEN [c EXCEPT !.state = "Configuration",
                                                       !.next = "login_ack"]
                                        ELSE [c EXCEPT !.state = "Play"]
    [] kind = "finish"             -> [c EXCEPT !.state = "Play", !.next = "finish"]
    [] OTHER                       -> c

(* A client after a packet that was written with a framing. *)
Told(c, kind, framing, announced) ==
  IF c.framing = framing /\ c.state = StateOf(kind)
    THEN After(c, kind, announced)
    ELSE [c EXCEPT !.missed = @ \cup {kind}]

ClientSends(kind, state, next, enc) ==
  /\ stage \notin Ended /\ Len(toProxy) < MaxQueue
  /\ toProxy' = Append(toProxy, [kind |-> kind, framing |-> client.framing])
  /\ client' = [client EXCEPT !.state = state, !.next = next, !.framing.encrypted = enc]
  /\ UNCHANGED <<fixed, stage, profile, encrypted, compression_threshold, flags, shutdown,
                 backend, fromBackend>>

(* The client's next packet: it turns to its new secret once it has sent it. *)
ClientSpeaks ==
  LET enc == client.framing.encrypted
  IN \/ /\ client.next = "handshake"
        /\ \/ ClientSends("status_handshake", "Status", "status_request", enc)
           \/ ClientSends("login_handshake", "Login", "login_start", enc)
     \/ /\ client.next \in {"status_request", "ping", "login_start", "login_ack", "finish"}
        /\ ClientSends(client.next, client.state, "none", enc)
     \/ /\ client.next = "encryption_response"
        /\ ClientSends("encryption_response", client.state, "none", TRUE)
     \/ /\ client.next = "none" /\ client.state = "Configuration"
        /\ ClientSends("config_other", client.state, "none", enc)

BackendSends(kind, state, threshold) ==
  /\ backend' = [backend EXCEPT !.state = state, !.threshold = threshold]
  /\ fromBackend' = Append(fromBackend, [kind |-> kind, threshold |-> backend.threshold,
                                         announced |-> threshold])
  /\ UNCHANGED <<fixed, stage, profile, encrypted, compression_threshold, flags, shutdown,
                 client, toProxy>>

BackendSpeaks ==
  /\ backend # NoBackend /\ stage \notin Ended /\ Len(fromBackend) < MaxQueue
  /\ \/ /\ backend.state = "plugin"
        /\ BackendSends("plugin_request", "plugin_wait", backend.threshold)
     \/ /\ backend.state = "login"
        /\ \/ \E t \in Thresholds :
                /\ backend.threshold = Uncompressed
                /\ BackendSends("set_compression", "login", t)
           \/ BackendSends("login_success", IF version >= 764 THEN "ack_wait" ELSE "Play",
                           backend.threshold)
           \/ \E kind \in {"login_disconnect", "encryption_request"} :
                BackendSends(kind, "closed", backend.threshold)
     \/ /\ backend.state = "Configuration"
        /\ \/ \E kind \in {"registry", "config_other"} :
                BackendSends(kind, "Configuration", backend.threshold)
           \/ BackendSends("config_disconnect", "closed", backend.threshold)
           \/ BackendSends("finish", "finish_wait", backend.threshold)

(* A backend after a packet of the proxy: it moves on, or it cannot read that. *)
Served(b, kind) ==
  LET state == CASE b.state = "plugin_wait" /\ kind = "plugin_response" -> "login"
                 [] b.state = "ack_wait" /\ kind = "login_ack"          -> "Configuration"
                 [] b.state = "finish_wait" /\ kind = "finish"          -> "Play"
                 [] b.state \in {"Configuration", "finish_wait", "closed"}
                      /\ kind = "config_other"                          -> b.state
                 [] OTHER                                               -> "lost"
  IN IF state # "lost" /\ b.threshold = compression_threshold
       THEN [b EXCEPT !.state = state]
       ELSE [b EXCEPT !.missed = @ \cup {kind}]

-----------------------------------------------------------------------------
(* Steps of the proxy: what it takes from a queue, what it tells the client. *)
Stream == [encrypted |-> encrypted, threshold |-> compression_threshold]

Take(kind) ==
  /\ toProxy # <<>> /\ Head(toProxy).kind = kind
  /\ toProxy' = Tail(toProxy)

Hear(kind) ==
  /\ fromBackend # <<>> /\ Head(fromBackend).kind = kind
  /\ fromBackend' = Tail(fromBackend)

Tell(kind) == client' = Told(client, kind, Stream, Uncompressed)

(* process_connection returns an error without a word to the client: a read failed,
   what was read does not decode or is not what is due here, or a write failed. *)
HangUp ==
  /\ stage \in AwaitsClient \cup {"backend_login", "backend_success"}
  /\ stage' = "over"
  /\ UNCHANGED <<fixed, profile, encrypted, compression_threshold, flags, shutdown,
                 client, backend, toProxy, fromBackend>>

(* Mutant of Timeout: the answer to the encryption request is awaited for ever. *)
TimeoutButEncryption == stage \in Timed \ {"encryption"} /\ HangUp

(* tokio::time::timeout around the reads that have one. *)
Timeout == stage \in Timed /\ HangUp

(* A refusal: the Login disconnect, 150 ms, and the end. *)
Refuse ==
  /\ stage' = "over"
  /\ Tell("login_disconnect")
  /\ UNCHANGED <<fixed, profile, encrypted, compression_threshold, flags, shutdown,
                 backend, toProxy>>

ReadHandshake ==
  /\ stage = "handshake"
  /\ \/ Take("status_handshake") /\ stage' = "status"
     \/ Take("login_handshake") /\ stage' = "login_start"
  /\ UNCHANGED <<fixed, profile, encrypted, compression_threshold, flags, shutdown,
                 client, backend, fromBackend>>

(* handle_status: the request, then the ping, which may fail to come. *)
HandleStatus ==
  /\ \/ /\ stage = "status" /\ Take("status_request")
        /\ Tell("status_response") /\ stage' = "ping"
     \/ /\ stage = "ping" /\ Take("ping")
        /\ Tell("pong") /\ stage' = "over"
  /\ UNCHANGED <<fixed, profile, encrypted, compression_threshold, flags, shutdown,
                 backend, fromBackend>>

-----------------------------------------------------------------------------
(* handle_login_auth. *)
ReadLoginStart ==
  /\ stage = "login_start" /\ Take("login_start")
  /\ \/ /\ config.online_mode
        /\ Tell("encryption_request") /\ stage' = "encryption" /\ UNCHANGED profile
     \/ /\ ~config.online_mode
        /\ stage' = "script" /\ profile' = "claimed" /\ UNCHANGED client
  /\ UNCHANGED <<fixed, encrypted, compression_threshold, flags, shutdown, backend,
                 fromBackend>>

(* The secret and the token are as they should be; if not, HangUp. *)
ReadEncryptionResponse ==
  /\ stage = "encryption" /\ Take("encryption_response")
  /\ stage' = "auth"
  /\ UNCHANGED <<fixed, profile, encrypted, compression_threshold, flags, shutdown,
                 client, backend, fromBackend>>

(* Mutant of Authenticate: the verified name is not compared with the claimed one. *)
AuthenticateAnyName(whose) ==
  /\ stage = "auth"
  /\ stage' = "script" /\ profile' = whose /\ encrypted' = TRUE
  /\ UNCHANGED <<fixed, compression_threshold, flags, shutdown, client, backend, toProxy,
                 fromBackend>>

(* hasJoined answers with the profile of the player who claimed it, or of another. *)
Authenticate(whose) ==
  /\ stage = "auth"
  /\ \/ /\ whose = "verified"
        /\ stage' = "script" /\ profile' = whose /\ encrypted' = TRUE
     \/ /\ whose # "verified"
        /\ stage' = "over" /\ UNCHANGED <<profile, encrypted>>
  /\ UNCHANGED <<fixed, compression_threshold, flags, shutdown, client, backend, toProxy,
                 fromBackend>>

(* Mutant of AuthenticationFails: the reason is sent in the clear. *)
AuthenticationFailsInClear ==
  /\ stage = "auth" /\ stage' = "over"
  /\ client' = Told(client, "login_disconnect", Stream, Uncompressed)
  /\ UNCHANGED <<fixed, profile, encrypted, compression_threshold, flags, shutdown,
                 backend, toProxy, fromBackend>>

(* hasJoined refuses, fails or takes 10 s: the reason goes out through an encrypted
   stream made for it. *)
AuthenticationFails ==
  /\ stage = "auth" /\ stage' = "over"
  /\ client' = Told(client, "login_disconnect", [Stream EXCEPT !.encrypted = TRUE],
                    Uncompressed)
  /\ UNCHANGED <<fixed, profile, encrypted, compression_threshold, flags, shutdown,
                 backend, toProxy, fromBackend>>

-----------------------------------------------------------------------------
(* The join hook and the choice of a backend. *)
ScriptRejects == stage = "script" /\ Refuse /\ UNCHANGED fromBackend

(* The hook's target if it is configured, else the default server. *)
ScriptAllows ==
  /\ stage = "script" /\ stage' = "connect"
  /\ UNCHANGED <<fixed, profile, encrypted, compression_threshold, flags, shutdown,
                 client, backend, toProxy, fromBackend>>

(* The default server is not configured: LoginSuccess, then the disconnect of the
   state that follows it. *)
TargetUnknown ==
  LET farewell == IF version >= 764 THEN "config_disconnect" ELSE "play_disconnect"
  IN /\ stage = "script" /\ ~config.default_known
     /\ stage' = "over"
     /\ client' = Told(Told(client, "login_success", Stream, Uncompressed), farewell, Stream,
                       Uncompressed)
     /\ UNCHANGED <<fixed, profile, encrypted, compression_threshold, flags, shutdown,
                    backend, toProxy, fromBackend>>

(* connect_and_forward: the connection, Handshake and LoginStart. *)
Connect ==
  /\ stage = "connect"
  /\ stage' = IF config.velocity_modern THEN "forwarding" ELSE "backend_login"
  /\ \E state \in {"plugin", "login"} :
       backend' = [state |-> state, threshold |-> Uncompressed, missed |-> {}]
  /\ UNCHANGED <<fixed, profile, encrypted, compression_threshold, flags, shutdown,
                 client, toProxy, fromBackend>>

(* dispatch_forwarding: the answer to the backend's request for the player's data. *)
AnswerForwarding ==
  /\ stage = "forwarding" /\ Hear("plugin_request")
  /\ backend' = Served(backend, "plugin_response")
  /\ stage' = "backend_login"
  /\ UNCHANGED <<fixed, profile, encrypted, compression_threshold, flags, shutdown,
                 client, toProxy>>

(* No connection or no secret; 10 s without an answer, another packet, another
   channel. *)
ConnectFails == stage \in {"connect", "forwarding"} /\ Refuse /\ UNCHANGED fromBackend

-----------------------------------------------------------------------------
(* The backend's answer to LoginStart. *)

(* Mutant of BackendCompresses: the announcement is swallowed. *)
BackendCompressesUnnoticed ==
  /\ stage = "backend_login" /\ Hear("set_compression")
  /\ stage' = "backend_success"
  /\ UNCHANGED <<fixed, profile, encrypted, compression_threshold, flags, shutdown, client,
                 backend, toProxy>>

(* SetCompression: passed on in the framing that ends with it. *)
BackendCompresses ==
  /\ stage = "backend_login" /\ Hear("set_compression")
  /\ LET t == Head(fromBackend).announced
     IN /\ compression_threshold' = t
        /\ client' = Told(client, "set_compression", Stream, t)
  /\ stage' = "backend_success"
  /\ UNCHANGED <<fixed, profile, encrypted, flags, shutdown, backend, toProxy>>

(* Mutant of CompressionRefused: the threshold is not checked. *)
CompressionTaken ==
  /\ stage = "backend_login" /\ Hear("set_compression")
  /\ stage' = "backend_success" /\ compression_threshold' = -1
  /\ UNCHANGED <<fixed, profile, encrypted, flags, shutdown, client, backend, toProxy>>

(* A negative threshold, or one that does not decode. *)
CompressionRefused ==
  /\ stage = "backend_login" /\ Hear("set_compression")
  /\ stage' = "over"
  /\ UNCHANGED <<fixed, profile, encrypted, compression_threshold, flags, shutdown, client,
                 backend, toProxy>>

(* LoginSuccess: the client gets its own. *)
BackendAccepts ==
  /\ stage \in {"backend_login", "backend_success"} /\ Hear("login_success")
  /\ Tell("login_success")
  /\ stage' = IF version >= 764 THEN "ack" ELSE "play"
  /\ UNCHANGED <<fixed, profile, encrypted, compression_threshold, flags, shutdown,
                 backend, toProxy>>

(* A disconnect, an encryption request, an unexpected packet, or a failed read. *)
BackendLoginFails ==
  /\ stage \in {"backend_login", "backend_success"}
  /\ Refuse /\ UNCHANGED fromBackend

-----------------------------------------------------------------------------
(* Configuration. *)
ReadAck ==
  /\ stage = "ack" /\ Take("login_ack")
  /\ backend' = Served(backend, "login_ack")
  /\ stage' = "bridging"
  /\ UNCHANGED <<fixed, profile, encrypted, compression_threshold, flags, shutdown,
                 client, fromBackend>>

(* Mutant of Bridged: the loop ends with the first FinishConfiguration. *)
BridgedByEither(byClient, byBackend) ==
  stage' = IF byClient \/ byBackend THEN "play" ELSE "bridging"

(* The condition of the bridging loop. *)
Bridged(byClient, byBackend) ==
  stage' = IF byClient /\ byBackend THEN "play" ELSE "bridging"

(* A packet on a protected plugin channel goes no further. *)
DropProtected ==
  /\ stage = "bridging"
  /\ \/ Hear("config_other") /\ UNCHANGED toProxy
     \/ Take("config_other") /\ UNCHANGED fromBackend
  /\ UNCHANGED <<fixed, stage, profile, encrypted, compression_threshold, flags, shutdown,
                 client, backend>>

(* What may carry the one id cache_packet keeps, 0x07: registry data from 766 on,
   something else before. *)
Cacheable(kind) == kind = IF version >= 766 THEN "registry" ELSE "config_other"

(* A packet of the backend: cached if it is registry data that decode, noted if it
   ends Configuration, and passed on. *)
BridgeBackend(kind) ==
  /\ stage = "bridging" /\ Hear(kind) /\ Tell(kind)
  /\ \/ UNCHANGED registry_cached
     \/ Cacheable(kind) /\ registry_cached' = TRUE
  /\ backend_finished_config' = (backend_finished_config \/ kind = "finish")
  /\ \/ kind = "config_disconnect" /\ stage' = "over"
     \/ /\ kind # "config_disconnect"
        /\ Bridged(client_finished_config, backend_finished_config')
  /\ UNCHANGED <<fixed, profile, encrypted, compression_threshold, client_finished_config,
                 shutdown, backend, toProxy>>

BridgeClient(kind) ==
  /\ stage = "bridging" /\ Take(kind)
  /\ backend' = Served(backend, kind)
  /\ client_finished_config' = (client_finished_config \/ kind = "finish")
  /\ Bridged(client_finished_config', backend_finished_config)
  /\ UNCHANGED <<fixed, profile, encrypted, compression_threshold, backend_finished_config,
                 registry_cached, shutdown, client, fromBackend>>

(* The shutdown arms of the two selects. *)
ShutdownArm ==
  /\ stage \in {"ack", "bridging"} /\ shutdown
  /\ stage' = "over"
  /\ Tell("config_disconnect")
  /\ UNCHANGED <<fixed, profile, encrypted, compression_threshold, flags, shutdown,
                 backend, toProxy, fromBackend>>

ShutdownSignal ==
  /\ ~shutdown /\ stage \notin Ended
  /\ shutdown' = TRUE
  /\ UNCHANGED <<fixed, stage, profile, encrypted, compression_threshold, flags, client,
                 backend, toProxy, fromBackend>>

(* The join is over, or PlayStateMachine has taken over. *)
Done == stage \in Ended /\ UNCHANGED vars

-----------------------------------------------------------------------------
Login ==
  \/ ReadHandshake \/ HandleStatus \/ ReadLoginStart \/ ReadEncryptionResponse
  \/ \E whose \in {"verified", "other"} : Authenticate(whose)
  \/ AuthenticationFails \/ HangUp \/ Timeout

BackendLogin ==
  \/ ScriptRejects \/ ScriptAllows \/ TargetUnknown
  \/ Connect \/ AnswerForwarding \/ ConnectFails
  \/ BackendCompresses \/ CompressionRefused \/ BackendAccepts \/ BackendLoginFails

Configuration ==
  \/ ReadAck \/ ShutdownArm \/ DropProtected
  \/ \E kind \in BackendKinds : BridgeBackend(kind)
  \/ \E kind \in ClientKinds : BridgeClient(kind)

Next ==
  \/ Login \/ BackendLogin \/ Configuration
  \/ ClientSpeaks \/ BackendSpeaks \/ ShutdownSignal \/ Done

Spec == Init /\ [][Next]_vars

(* Timers fire, the script host answers.  Nothing is assumed of the peers. *)
Fairness ==
  /\ WF_vars(Timeout) /\ WF_vars(AuthenticationFails)
  /\ WF_vars(ScriptAllows) /\ WF_vars(ConnectFails)

FairSpec == Spec /\ Fairness

-----------------------------------------------------------------------------
(* Whatever the proxy writes, on any path, is in the framing and for the protocol
   state its reader is in: encryption begins and compression changes between the same
   two packets on both sides.  The one exception is the shutdown notice that overtakes
   the client's answer to FinishConfiguration: the client is in Play by then. *)
WritesUnderstood ==
  /\ backend # NoBackend => backend.missed = {}
  /\ client.missed # {} =>
       client.missed = {"config_disconnect"} /\ shutdown /\ backend_finished_config

(* Whatever the proxy is about to read was written in the framing it reads with. *)
ReadsUnderstood ==
  /\ stage \in AwaitsClient /\ toProxy # <<>> => Head(toProxy).framing = Stream
  /\ stage \in AwaitsBackend /\ fromBackend # <<>> =>
       Head(fromBackend).threshold = compression_threshold

(* PlayStateMachine::new finds what it takes for granted: client and backend are both
   in the Play state, have nothing of an earlier state on the way, and are framed with
   the one threshold the machine is given for both. *)
HandOff ==
  stage = "play" =>
    /\ client.state = "Play" /\ backend # NoBackend /\ backend.state = "Play"
    /\ client.framing = Stream /\ backend.threshold = compression_threshold
    /\ toProxy = <<>> /\ fromBackend = <<>>

(* No backend hears of a player before he is who he says: in online mode the session
   server has vouched for that name, and the stream is encrypted. *)
OnlyVerified ==
  backend # NoBackend =>
    IF config.online_mode THEN profile = "verified" /\ encrypted
                          ELSE profile = "claimed" /\ ~encrypted

(* A peer that falls silent holds a join, and its permit, only while the proxy awaits
   the backend's login or bridges Configuration: every other wait has a timer. *)
HeldOnlyUntimed ==
  <>[](stage \notin Ended) =>
    <>[](stage \in {"backend_login", "backend_success", "bridging"})
=============================================================================
