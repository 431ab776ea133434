---------------------------- MODULE PlaySession ----------------------------
(***************************************************************************)
(* PlayStateMachine (src/src/routing/state_machine.rs): the task that      *)
(* routes one player's Play state.  It owns the client's stream and the    *)
(* stream of one backend, reads whichever has a packet, tracks what the    *)
(* backend put on the client's screen, and moves the player to another     *)
(* backend when a script asks for it or when the backend is lost.          *)
(*                                                                         *)
(* The task is sequential.  While it runs switch_server it reads neither   *)
(* the client nor the old backend, so the stages of switch_server are      *)
(* states (pc) in which only the target backend, the timer and the         *)
(* environment move.                                                       *)
(*                                                                         *)
(* Every write of a packet is awaited, and none has a timer: while the     *)
(* peer does not take it, the task does nothing else (waiting).  A         *)
(* handler's action stands for all it does; waiting then names the peer    *)
(* of the write the task stays with, if any.  What the code does after     *)
(* that write concerns the task alone, so that nobody can tell that the    *)
(* model has done it already; where it is not so (the acknowledgement      *)
(* before the client is torn down) the write ends a stage of its own.      *)
(*                                                                         *)
(* The client and the backends are the environment.  The client's picture  *)
(* is the one it has once it has read what was written to it; what the     *)
(* client sends waits in toProxy, so its reactions reach the proxy         *)
(* arbitrarily late.                                                       *)
(***************************************************************************)
EXTENDS Integers, Sequences, FiniteSets, Functions

CONSTANTS
  Servers,        \* the keys of config.servers
  Default,        \* config.default_server (the code never checks it is a key)
  Missing,        \* a server name that is no key of config.servers
  Versions,       \* protocol versions of the players considered
  Widgets,        \* boss bars, objectives, display slots and looping audio
  Windows,        \* container window ids as they travel on the wire
  NoWindow,       \* no window: None in open_container_id, no container on screen
  Registries,     \* registry identifiers of the Configuration state
  Thresholds,     \* what a leg may be framed with, Uncompressed included
  Uncompressed,
  Conns,          \* identities for backend connections; reused once forgotten
  NoConn,
  NoLink,         \* no backend stream
  MaxClientQueue  \* bound: client packets waiting to be read

ASSUME ServersAssumption == Missing \notin Servers /\ Default \in Servers \cup {Missing}
ASSUME VersionsAssumption == Versions \subseteq Nat
ASSUME WindowsAssumption == Windows \subseteq Nat /\ NoWindow \notin Nat
ASSUME ThresholdsAssumption == Uncompressed \in Thresholds
ASSUME ConnsAssumption == NoConn \notin Conns
ASSUME QueueAssumption == MaxClientQueue \in Nat

VARIABLES
  \* PlayStateMachine, PlayerSession, and the locals of switch_server
  pc,                             \* where the task is
  waiting,                        \* whose reading the task's pending write waits for
  switch,                         \* switch_server's target, its caller, and how long
                                  \* its pending read has waited
  result,                         \* how run() ended
  backend,                        \* self.backend
  new_backend,                    \* new_backend of switch_server
  current_server,
  server_transferred,
  protocol_version,
  open_container_id,
  active,                         \* active_boss_bars, active_scoreboard_objectives,
                                  \* active_display_slots and has_active_audio as one set
  registry_cache,                 \* the connection each cached registry came from
  client_compression_threshold,
  backend_compression_threshold,
  \* the client
  clientFraming,                  \* the framing the client expects
  clientUp,
  toProxy,                        \* serverbound packets not yet read
  screen,                         \* the window on display and the connection it is from
  hud,                            \* the connection each widget on display is from
  world,                          \* the connection whose world is rendered
  logins,                         \* Login (Play) packets received
  \* the process
  shutdown                        \* the shutdown watch channel

task    == <<pc, switch, result, backend, new_backend>>
session == <<current_server, server_transferred, protocol_version>>
tracked == <<open_container_id, active>>
framing == <<client_compression_threshold, backend_compression_threshold, clientFraming>>
picture == <<screen, hud, world>>

vars == <<task, waiting, session, tracked, registry_cache, framing, clientUp, toProxy, picture,
          logins, shutdown>>

(* A backend stream: its identity, the server at its other end, the framing that
   server uses, and whether that server has closed it. *)
Link == [id : Conns, server : Servers, framing : Thresholds, gone : BOOLEAN]

ASSUME LinkAssumption == NoLink \notin Link

ReadTimeout == 2    \* the 10 s timer of a Configuration read, in ticks of 5 s

NoScreen    == [win |-> NoWindow, from |-> NoConn]
BlankHud    == [w \in Widgets |-> NoConn]
NoSwitch    == [target |-> Missing, reason |-> "none", waited |-> 0]
Reasons     == {"command", "disconnect", "eof"}
ClientKinds == {"close", "command", "other"}
Results     == {"none", "client_lost", "backend_write_error", "default_lost",
                "fallback_failed", "shutdown"}
Switching   == {"connect", "login", "config", "finish"}

(* "client" and "backend": a write under `?`, whose error leaves run();
   "client_anyway": one whose error is ignored; "target": one whose error gives up
   the transfer. *)
Waits == {"nobody", "client", "client_anyway", "backend", "target"}

SwitchLocals == [target : Servers \cup {Missing}, reason : Reasons \cup {"none"},
                 waited : 0 .. ReadTimeout]

TypeOK ==
  /\ pc \in {"run", "closed"} \cup Switching
  /\ waiting \in Waits
  /\ switch \in SwitchLocals
  /\ result \in Results
  /\ IF pc = "closed" THEN backend = NoLink ELSE backend \in Link
  /\ IF pc \in {"login", "config", "finish"} THEN new_backend \in Link ELSE new_backend = NoLink
  /\ current_server \in Servers
  /\ server_transferred \in BOOLEAN
  /\ protocol_version \in Versions
  /\ open_container_id \in (0 .. 255) \cup {NoWindow}
  /\ active \in SUBSET Widgets
  /\ registry_cache \in [Registries -> Conns \cup {NoConn}]
  /\ client_compression_threshold \in Thresholds
  /\ backend_compression_threshold \in Thresholds
  /\ clientFraming \in Thresholds
  /\ clientUp \in BOOLEAN
  /\ toProxy \in Seq(ClientKinds)
  /\ screen \in [win : Windows \cup {NoWindow}, from : Conns \cup {NoConn}]
  /\ hud \in [Widgets -> Conns \cup {NoConn}]
  /\ world \in Conns \cup {NoConn}
  /\ logins \in Nat
  /\ shutdown \in BOOLEAN

-----------------------------------------------------------------------------
(* PlayStateMachine::new, at the end of the join: a backend is attached, both legs
   use the threshold that backend announced (the listener forwarded its
   SetCompression), and the registries it sent in Configuration are cached. *)
Init ==
  /\ pc = "run" /\ waiting = "nobody" /\ switch = NoSwitch /\ result = "none"
  /\ current_server \in Servers
  /\ server_transferred = FALSE
  /\ protocol_version \in Versions
  /\ clientFraming \in Thresholds
  /\ client_compression_threshold = clientFraming
  /\ backend_compression_threshold = clientFraming
  /\ \E c \in Conns :
       /\ backend = [id |-> c, server |-> current_server, framing |-> clientFraming,
                     gone |-> FALSE]
       /\ registry_cache \in [Registries -> {NoConn} \cup {k \in {c} : protocol_version >= 764}]
  /\ new_backend = NoLink
  /\ open_container_id = NoWindow /\ active = {}
  /\ clientUp = TRUE /\ toProxy = <<>>
  /\ screen = NoScreen /\ hud = BlankHud /\ world = NoConn /\ logins = 0
  /\ shutdown = FALSE

-----------------------------------------------------------------------------
(* The task is at a stage with no write pending. *)
At(stage) == pc = stage /\ waiting = "nobody"

(* A write the peer takes at once, or one the task waits with. *)
Writes(peer) == waiting' \in {"nobody", peer}

(* The peer has taken what was written, or an error that is ignored ended the wait. *)
WriteDone ==
  /\ waiting # "nobody"
  /\ waiting' = "nobody"
  /\ UNCHANGED <<task, session, tracked, registry_cache, framing, clientUp, toProxy,
                 picture, logins, shutdown>>

(* The end of run(): both streams are shut down, or dropped when a handler
   returned an error.  The client is out of the game. *)
Close(why) ==
  /\ pc' = "closed" /\ result' = why /\ switch' = NoSwitch
  /\ backend' = NoLink /\ new_backend' = NoLink
  /\ screen' = NoScreen /\ hud' = BlankHud /\ world' = NoConn

(* The entry of switch_server, called by handle_client_packet ("command"),
   handle_backend_packet ("disconnect") and handle_backend_eof ("eof").  An
   unknown target is refused with a chat message and Ok(false), which the command
   handler ignores and which ends the loop after the other two.  The caller has
   written the script's message or the notice of the loss to the client before. *)
switch_server(target, reason) ==
  /\ Writes(IF reason = "command" THEN "client" ELSE "client_anyway")
  /\ \/ /\ target \in Servers
        /\ pc' = "connect" /\ switch' = [target |-> target, reason |-> reason, waited |-> 0]
        /\ UNCHANGED <<result, backend, new_backend, picture>>
     \/ /\ target \notin Servers /\ reason = "command"
        /\ UNCHANGED <<task, picture>>
     \/ /\ target \notin Servers /\ reason # "command"
        /\ Close("fallback_failed")

(* Mutant of FailSwitch: the command handler returns the value too. *)
FailSwitchAlwaysEnds ==
  /\ Writes("client_anyway")
  /\ Close("fallback_failed")
  /\ UNCHANGED <<session, tracked, registry_cache, framing, clientUp, toProxy, logins,
                 shutdown>>

(* Ok(false) from inside switch_server: new_backend is dropped, the client is told
   in chat.  After a command the loop goes on with the old backend; after the loss
   of a backend it ends. *)
FailSwitch ==
  /\ Writes("client_anyway")
  /\ \/ /\ switch.reason = "command"
        /\ pc' = "run" /\ switch' = NoSwitch /\ new_backend' = NoLink
        /\ UNCHANGED <<result, backend, picture>>
     \/ /\ switch.reason # "command"
        /\ Close("fallback_failed")
  /\ UNCHANGED <<session, tracked, registry_cache, framing, clientUp, toProxy, logins,
                 shutdown>>

(* Mutant of teardown_transferred_state: the trackers are drained, nothing is sent
   for them. *)
TeardownSendsNothing ==
  /\ open_container_id' = NoWindow /\ active' = {}
  /\ UNCHANGED <<hud, screen>>

(* teardown_transferred_state: one removal packet per tracked item.  A client that
   is told to close a container closes whichever it shows. *)
teardown_transferred_state ==
  /\ open_container_id' = NoWindow /\ active' = {}
  /\ hud' = [w \in Widgets |-> IF w \in active THEN NoConn ELSE hud[w]]
  /\ screen' = IF open_container_id = NoWindow THEN screen ELSE NoScreen

(* Steps 3 and 4 of switch_server: the old backend is shut down, the client is
   cleaned up, the new backend is attached, the session updated.  The client may
   keep the task waiting with any of the removals. *)
ReattachAs(new, server, transferred, threshold) ==
  /\ pc' = "run" /\ switch' = NoSwitch
  /\ Writes("client_anyway")
  /\ teardown_transferred_state
  /\ backend' = new /\ new_backend' = NoLink
  /\ current_server' = server
  /\ server_transferred' = transferred
  /\ backend_compression_threshold' = threshold
  /\ UNCHANGED <<result, protocol_version, registry_cache, client_compression_threshold,
                 clientFraming, clientUp, toProxy, world, logins, shutdown>>

(* Mutants of Reattach: a field of the old backend is kept. *)
ReattachUnmarked(new)     == ReattachAs(new, switch.target, server_transferred, new.framing)
ReattachOldThreshold(new) == ReattachAs(new, switch.target, TRUE, backend_compression_threshold)
ReattachOldName(new)      == ReattachAs(new, current_server, TRUE, new.framing)

Reattach(new) == ReattachAs(new, switch.target, TRUE, new.framing)

-----------------------------------------------------------------------------
(* TcpBackendConnector::connect: TCP connect and player-info forwarding, each under
   a 10 s timer, then the backend's answer to LoginStart, which is read without
   one.  A new connection takes an identity nothing refers to any more. *)
Fresh == Conns \ ({backend.id, world, screen.from} \cup Range(hud) \cup Range(registry_cache))

ConnectOk ==
  /\ At("connect")
  /\ pc' = "login" /\ UNCHANGED waiting
  /\ \E c \in Fresh :
       new_backend' = [id |-> c, server |-> switch.target, framing |-> Uncompressed,
                       gone |-> FALSE]
  /\ UNCHANGED <<switch, result, backend, session, tracked, registry_cache, framing,
                 clientUp, toProxy, picture, logins, shutdown>>

ConnectFails == At("connect") /\ FailSwitch

(* SetCompression, if any, then LoginSuccess; a modern backend is sent
   LoginAcknowledged and goes on to Configuration.  The answer of a backend that
   has closed may still be in the socket. *)
LoginOk(threshold) ==
  /\ At("login")
  /\ LET new == [new_backend EXCEPT !.framing = threshold]
     IN \/ /\ protocol_version >= 764
           /\ pc' = "config" /\ new_backend' = new /\ Writes("target")
           /\ UNCHANGED <<switch, result, backend, session, tracked, registry_cache,
                          framing, clientUp, toProxy, picture, logins, shutdown>>
        \/ /\ protocol_version < 764
           /\ Reattach(new)

(* A login disconnect, an encryption request, any other packet, a negative
   threshold, a read error, or the end of the stream. *)
LoginFails == At("login") /\ FailSwitch

LoginEof == At("login") /\ new_backend.gone /\ LoginFails

-----------------------------------------------------------------------------
(* The Configuration loop of switch_server, by the packet ids the code tests. *)
ConfigPacketIds == {1, 2, 3, 4, 5, 7, 14}
FinishId     == IF protocol_version >= 766 THEN 3 ELSE 2
DisconnectId == IF protocol_version >= 766 THEN 2 ELSE 1

(* The ids that are replied to: known packs, keep-alives and pings.  Below 766 the
   first arm takes 0x05. *)
RepliedIds == IF protocol_version >= 766 THEN {4, 5, 14} ELSE {4}

(* Registry data, the packets replied to, and the ids no arm tests.  cache_packet
   keeps id 0x07 only, so the 0x05 that the first arm admits for 764 and 765 is not
   cached. *)
ConfigPacket(id) ==
  /\ At("config")
  /\ id \notin {FinishId, DisconnectId}
  /\ switch' = [switch EXCEPT !.waited = 0]
  /\ \/ /\ id = 7
        /\ \E r \in Registries :
             registry_cache' = [registry_cache EXCEPT ![r] = new_backend.id]
     \/ UNCHANGED registry_cache    \* another id, or registry data that do not decode
  /\ IF id \in RepliedIds THEN Writes("target") ELSE UNCHANGED waiting
  /\ UNCHANGED <<pc, result, backend, new_backend, session, tracked, framing, clientUp,
                 toProxy, picture, logins, shutdown>>

(* FinishId, which is acknowledged; once the acknowledgement is written, the loop
   is left. *)
ConfigAcknowledge ==
  /\ At("config")
  /\ pc' = "finish" /\ Writes("target")
  /\ UNCHANGED <<switch, result, backend, new_backend, session, tracked, registry_cache,
                 framing, clientUp, toProxy, picture, logins, shutdown>>

ConfigFinish == At("finish") /\ Reattach(new_backend)

(* DisconnectId from the target, an error or end of stream on a read. *)
ConfigFails == At("config") /\ FailSwitch

(* tokio::time::timeout around each read: every packet starts it again. *)
Tick ==
  /\ At("config") /\ switch.waited < ReadTimeout
  /\ switch' = [switch EXCEPT !.waited = @ + 1]
  /\ UNCHANGED <<pc, waiting, result, backend, new_backend, session, tracked, registry_cache,
                 framing, clientUp, toProxy, picture, logins, shutdown>>

(* Mutant of ConfigTimeout: the reads have no timer. *)
ConfigTimeoutMissing == At("config") /\ new_backend.gone /\ ConfigFails

ConfigTimeout == switch.waited = ReadTimeout /\ ConfigFails

-----------------------------------------------------------------------------
(* handle_client_packet.  A packet the proxy consumes changes nothing more; any
   other is written to the backend, a message or an answer to the client.  Where
   one follows the other, waiting names the one the task stays with. *)
Forward == UNCHANGED <<task, picture>> /\ Writes("backend")
Answer  == UNCHANGED <<task, picture>> /\ Writes("client")

ReadClient(kind) ==
  /\ At("run") /\ toProxy # <<>> /\ Head(toProxy) = kind
  /\ toProxy' = Tail(toProxy)
  /\ UNCHANGED <<session, active, registry_cache, framing, clientUp, logins, shutdown>>

(* Mutant of HandleClose: only the backend's own close clears the tracker. *)
HandleCloseUntracked ==
  /\ ReadClient("close")
  /\ UNCHANGED open_container_id
  /\ Forward

(* The serverbound close clears the tracker whatever window it names, and is
   forwarded. *)
HandleClose ==
  /\ ReadClient("close")
  /\ open_container_id' = NoWindow
  /\ Forward

(* A chat command: the script host reroutes it, cancels it or lets it pass, with
   or without a message to the player. *)
HandleCommand ==
  /\ ReadClient("command")
  /\ UNCHANGED open_container_id
  /\ \/ \E target \in Servers \cup {Missing} : switch_server(target, "command")
     \/ Answer \/ Forward

(* Everything else: dropped (protected channel), answered (tab completion) or
   forwarded. *)
HandleOther ==
  /\ ReadClient("other")
  /\ UNCHANGED open_container_id
  /\ Answer \/ Forward

-----------------------------------------------------------------------------
(* handle_backend_packet, by the kind of packet.  A backend sends Login (Play)
   once, and before it puts anything on the screen. *)
FromBackend ==
  /\ At("run")
  /\ UNCHANGED <<current_server, protocol_version, registry_cache, framing, clientUp,
                 toProxy, shutdown>>

(* Login (Play): passed on, or turned into a Respawn after a transfer. *)
BackendLogin ==
  /\ FromBackend /\ world # backend.id
  /\ world' = backend.id
  /\ logins' = IF server_transferred THEN logins ELSE logins + 1
  /\ server_transferred' = FALSE
  /\ Writes("client")
  /\ UNCHANGED <<task, tracked, screen, hud>>

(* DeclareCommands and plain game traffic are passed on; a protected channel is
   dropped. *)
BackendOther ==
  /\ FromBackend
  /\ Writes("client")
  /\ UNCHANGED <<task, server_transferred, tracked, picture, logins>>

FromWorld ==
  /\ FromBackend /\ world = backend.id
  /\ Writes("client")
  /\ UNCHANGED <<task, server_transferred, world, logins>>

(* Mutant of BackendShow: the packet is forwarded and not tracked. *)
BackendShowUntracked(w) ==
  /\ FromWorld
  /\ hud' = [hud EXCEPT ![w] = backend.id]
  /\ UNCHANGED <<open_container_id, active, screen>>

(* Boss bar ADD, objective CREATE, a named display slot, a sound. *)
BackendShow(w) ==
  /\ FromWorld
  /\ active' = active \cup {w}
  /\ hud' = [hud EXCEPT ![w] = backend.id]
  /\ UNCHANGED <<open_container_id, screen>>

(* Boss bar REMOVE, objective REMOVE, an empty display slot, StopSound for all. *)
BackendHide(w) ==
  /\ FromWorld
  /\ active' = active \ {w}
  /\ hud' = [hud EXCEPT ![w] = NoConn]
  /\ UNCHANGED <<open_container_id, screen>>

(* Mutant of BackendOpenWindow: the id is not reduced to a u8. *)
BackendOpenWideWindow(w) ==
  /\ FromWorld
  /\ open_container_id' = w
  /\ screen' = [win |-> w, from |-> backend.id]
  /\ UNCHANGED <<active, hud>>

(* The window id is kept as a u8. *)
BackendOpenWindow(w) ==
  /\ FromWorld
  /\ open_container_id' = w % 256
  /\ screen' = [win |-> w, from |-> backend.id]
  /\ UNCHANGED <<active, hud>>

BackendCloseWindow ==
  /\ FromWorld
  /\ open_container_id' = NoWindow
  /\ screen' = NoScreen
  /\ UNCHANGED <<active, hud>>

(* A Disconnect packet, and handle_backend_eof (the end of the stream, or a frame
   that cannot be read): the player goes to the default server, unless that is the
   server that was lost. *)
FailOver(reason) ==
  /\ FromBackend
  /\ \/ current_server # Default /\ switch_server(Default, reason)
     \/ current_server = Default /\ Close("default_lost") /\ UNCHANGED waiting
  /\ UNCHANGED <<server_transferred, tracked, logins>>

BackendDisconnect == FailOver("disconnect")

(* Mutant of BackendEof: without a fallback server the end is not acted upon. *)
BackendEofNeedsFallback ==
  /\ At("run") /\ backend.gone /\ Default \in Servers
  /\ FailOver("eof")

BackendEof == At("run") /\ backend.gone /\ FailOver("eof")

-----------------------------------------------------------------------------
(* The remaining arms of the select in run(): the client's stream fails on a read,
   or the process shuts down, of which the client is told. *)
EndOfLoop(why) ==
  /\ Close(why)
  /\ UNCHANGED <<session, tracked, registry_cache, framing, clientUp, toProxy, logins,
                 shutdown>>

ClientLost == At("run") /\ ~clientUp /\ UNCHANGED waiting /\ EndOfLoop("client_lost")

(* Mutant of ShutdownArm: the channel is watched only once the player is in a world. *)
ShutdownArmLate ==
  At("run") /\ shutdown /\ world # NoConn /\ Writes("client_anyway") /\ EndOfLoop("shutdown")

ShutdownArm ==
  At("run") /\ shutdown /\ Writes("client_anyway") /\ EndOfLoop("shutdown")

(* A pending write fails because its peer is gone: under `?` the error leaves run(),
   inside switch_server it gives up the transfer. *)
WriteFails ==
  \/ waiting = "client" /\ ~clientUp /\ waiting' = "nobody" /\ EndOfLoop("client_lost")
  \/ waiting = "backend" /\ backend.gone /\ waiting' = "nobody"
       /\ EndOfLoop("backend_write_error")
  \/ waiting = "target" /\ new_backend.gone /\ FailSwitch

-----------------------------------------------------------------------------
(* The environment. *)
BackendCloses ==
  /\ pc # "closed" /\ ~backend.gone
  /\ backend' = [backend EXCEPT !.gone = TRUE]
  /\ UNCHANGED <<pc, waiting, switch, result, new_backend, session, tracked,
                 registry_cache, framing, clientUp, toProxy, picture, logins, shutdown>>

TargetCloses ==
  /\ new_backend # NoLink /\ ~new_backend.gone
  /\ new_backend' = [new_backend EXCEPT !.gone = TRUE]
  /\ UNCHANGED <<pc, waiting, switch, result, backend, session, tracked,
                 registry_cache, framing, clientUp, toProxy, picture, logins, shutdown>>

(* Closing a window takes effect on the client before the proxy hears of it. *)
ClientSends(kind) ==
  /\ clientUp /\ world # NoConn /\ Len(toProxy) < MaxClientQueue
  /\ toProxy' = Append(toProxy, kind)
  /\ kind = "close" => screen # NoScreen
  /\ screen' = IF kind = "close" THEN NoScreen ELSE screen
  /\ UNCHANGED <<task, waiting, session, tracked, registry_cache, framing, clientUp, hud, world,
                 logins, shutdown>>

ClientLeaves ==
  /\ clientUp /\ pc # "closed"
  /\ clientUp' = FALSE
  /\ UNCHANGED <<task, waiting, session, tracked, registry_cache, framing, toProxy,
                 picture, logins, shutdown>>

ShutdownSignal ==
  /\ ~shutdown /\ pc # "closed"
  /\ shutdown' = TRUE
  /\ UNCHANGED <<task, waiting, session, tracked, registry_cache, framing, clientUp,
                 toProxy, picture, logins>>

-----------------------------------------------------------------------------
Transfer ==
  \/ ConnectOk \/ ConnectFails \/ LoginFails
  \/ \E t \in Thresholds : LoginOk(t)
  \/ \E id \in ConfigPacketIds : ConfigPacket(id)
  \/ ConfigAcknowledge \/ ConfigFinish \/ ConfigFails \/ Tick

RunLoop ==
  \/ HandleClose \/ HandleCommand \/ HandleOther
  \/ BackendLogin \/ BackendOther \/ BackendCloseWindow \/ BackendDisconnect \/ BackendEof
  \/ \E w \in Widgets : BackendShow(w) \/ BackendHide(w)
  \/ \E w \in Windows : BackendOpenWindow(w)
  \/ ClientLost \/ ShutdownArm \/ WriteDone \/ WriteFails

Environment ==
  \/ BackendCloses \/ TargetCloses
  \/ \E kind \in ClientKinds : ClientSends(kind)
  \/ ClientLeaves \/ ShutdownSignal

(* The session is over; nothing is left to happen. *)
Over == pc = "closed" /\ UNCHANGED vars

Next == Transfer \/ RunLoop \/ Environment \/ Over

(* Time passes and timers fire, the task goes on when nothing is in its way, and the
   random choice of the select does not pass over an arm that is ready again and
   again: the signal, the client's end of stream, and the backend's, which comes when
   the little that is still in its socket is read.  Nothing is assumed of the client
   and the backends: they may stop sending, and stop reading, for ever. *)
Fairness ==
  /\ WF_vars(ConnectFails) /\ WF_vars(LoginEof) /\ WF_vars(Tick) /\ WF_vars(ConfigTimeout)
  /\ WF_vars(ConfigFinish)
  /\ SF_vars(BackendEof) /\ SF_vars(ClientLost) /\ SF_vars(ShutdownArm)

Spec     == Init /\ [][Next]_vars
FairSpec == Spec /\ Fairness

-----------------------------------------------------------------------------
(* Safety. *)

(* Whatever widget the client displays was put there by the backend the player
   is on, in the world the client renders: teardown_transferred_state leaves no
   boss bar, objective, display slot or sound of an earlier backend behind. *)
NoResidue ==
  \A w \in Widgets : hud[w] # NoConn => hud[w] = backend.id /\ world = backend.id

(* The client never receives a second Login (Play): after any chain of
   transfers, abandoned transfers and failovers, server_transferred is set when
   the next Login (Play) comes ("NEVER forward Login (Play) to an already
   connected client in Play state!"). *)
LoginAtMostOnce == logins <= 1

(* Each leg is framed the way its peer expects: the client's threshold survives
   every transfer, the backend's is the one the attached backend announced. *)
FramingAgrees ==
  pc # "closed" =>
    /\ client_compression_threshold = clientFraming
    /\ backend_compression_threshold = backend.framing

(* session.current_server, on which scripts and failover decide, names the server
   at the other end of the attached stream. *)
CurrentServerIsAttached == pc # "closed" => current_server = backend.server

(* While open_container_id is set, the client shows that window, or its close is
   on its way. *)
TrackedWindowIsShown ==
  pc # "closed" /\ open_container_id # NoWindow =>
    \/ /\ screen.win # NoWindow /\ screen.win % 256 = open_container_id
       /\ screen.from = backend.id
    \/ \E i \in 1 .. Len(toProxy) : toProxy[i] = "close"

-----------------------------------------------------------------------------
(* The inductive invariant behind the safety properties. *)

(* switch describes a transfer exactly while one is under way, to a configured
   server whose stream, once there is one, is not the one already rendered. *)
TransferInv ==
  /\ pc \notin Switching => switch = NoSwitch
  /\ pc \in Switching => switch.target \in Servers /\ switch.reason \in Reasons
  /\ new_backend # NoLink => /\ new_backend.server = switch.target
                            /\ new_backend.id # world
  /\ pc = "closed" => hud = BlankHud /\ world = NoConn

(* Where a write under `?` may pend: in run(), the script's message also before
   a chosen transfer.  Replies to the target pend in the Configuration loop. *)
WaitInv ==
  /\ waiting = "client" => pc = "run" \/ (pc = "connect" /\ switch.reason = "command")
  /\ waiting = "backend" => pc = "run"
  /\ waiting = "target" => pc \in {"config", "finish"}

(* A widget on display is tracked and is from the attached backend's world. *)
WidgetInv ==
  \A w \in Widgets : hud[w] # NoConn =>
    w \in active /\ hud[w] = backend.id /\ world = backend.id

(* After the first Login (Play), the client is in the world of the attached
   backend or server_transferred awaits that backend's Login (Play). *)
LoginInv ==
  \/ logins = 0
  \/ logins = 1 /\ (pc = "closed" \/ world = backend.id \/ server_transferred)

(* The conjunction that every step preserves: it implies TypeOK, NoResidue,
   LoginAtMostOnce, FramingAgrees and CurrentServerIsAttached. *)
IInv == TypeOK /\ TransferInv /\ WaitInv /\ WidgetInv /\ LoginInv /\ FramingAgrees
          /\ CurrentServerIsAttached

-----------------------------------------------------------------------------
(* Where the player is bound for.  The script's message is written before
   switch_server is entered. *)
Aim == IF waiting = "client" THEN Missing ELSE switch.target

(* What a transfer promises the player. *)
Promise == INSTANCE SessionPromise WITH
  alive   <- pc # "closed",
  on      <- current_server,
  aim     <- Aim,
  forced  <- switch.reason \in {"disconnect", "eof"},
  seen    <- pc # "closed" /\ world = backend.id,
  dressed <- {w \in Widgets : hud[w] # NoConn},
  Nowhere <- Missing

(* The Play state keeps the promise of SessionPromise: at every step the player is
   on one server, a transfer arrives with a clean screen or is abandoned without a
   trace, only a lost backend forces one, and a chosen one never ends the session. *)
ImplementsPromise == Promise!Spec

-----------------------------------------------------------------------------
(* Liveness. *)

(* The loss of the attached backend is acted upon: run() does not go on without
   a backend, unless a peer leaves it with a write for ever. *)
LossNoticed ==
  (pc = "run" /\ backend # NoLink /\ backend.gone)
    ~> (pc # "run" \/ [](waiting # "nobody"))

(* The ways in which a peer can hold the session for ever, none of which a timer
   ends: it does not take what is written to it; the target does not answer the login;
   or it keeps sending Configuration packets, each of which starts the timer again. *)
HeldByPeer ==
  \/ \E peer \in Waits \ {"nobody"} : <>[](waiting = peer)
  \/ <>[](pc = "login" /\ ~new_backend.gone)
  \/ []<><<\E id \in ConfigPacketIds : ConfigPacket(id)>>_vars

(* switch_server comes to an end, in run() or with the session's, unless a peer holds
   it: the task does not stop between the reads and writes it awaits. *)
TransferEnds == <>[](pc \in Switching) => HeldByPeer

(* A session that is told to shut down ends, its last writes included, unless a peer
   holds it: neither a pending write nor switch_server watches the channel. *)
ShutdownEnds == <>shutdown => <>(pc = "closed" /\ waiting = "nobody") \/ HeldByPeer

-----------------------------------------------------------------------------
(* What the documentation and the comments say, and the code does not do. *)

(* "Clean up client state from old server (screen, audio, scoreboard, bossbar)":
   the window on display belongs to the backend the player is on. *)
NoWindowResidue == pc # "closed" => screen.from \in {NoConn, backend.id}

(* "Initial login sequence: forward Login (Play) to the client so it can enter
   Play state": a client that is given a world has received Login (Play). *)
WorldEnteredByLogin == world # NoConn => logins > 0

(* [R-11]: a session whose client is there, and that was not shut down, ends on a
   server other than the default one only after a failed transfer to the default. *)
LossIsFailedOver ==
  pc = "closed" /\ clientUp /\ ~shutdown /\ current_server # Default
    => result = "fallback_failed"
=============================================================================
