-------------------------- MODULE PacketDispatch ---------------------------
(***************************************************************************)
(* How the Play state tells packets apart (src/src/routing/               *)
(* state_machine.rs): the packet ids of each protocol version, and what    *)
(* handle_client_packet and handle_backend_packet do with a packet of a    *)
(* given id.  Both handlers are chains of tests, most of which do not      *)
(* return: a packet whose id two tests claim is given both meanings.       *)
(*                                                                         *)
(* PlaySession takes a packet to be of one kind.  OneRole is what makes    *)
(* that sound for the protocol versions FrameMC says it supports.  What an *)
(* id means to its sender is told by the repository only: by the constants *)
(* of state_machine.rs for the commands and the chat of 764 and 765, for   *)
(* everything else by the tables the handlers test themselves.             *)
(***************************************************************************)
EXTENDS Integers

CONSTANTS
  Versions,     \* protocol versions, as the handshake announces them
  PacketIds     \* packet ids as they are read off the wire

ASSUME VersionsAssumption == Versions \subseteq Int
ASSUME PacketIdsAssumption == PacketIds \subseteq Int

Supported == 764    \* "Protocols 764 - 776+"

VARIABLES
  protocol_version,   \* of the session
  packet,             \* the packet handled last
  effects             \* what handling it did

vars == <<protocol_version, packet, effects>>

(* What the handlers can tell of a payload: it opens with a protected channel name,
   it decodes (a text with or without a leading slash; a StopSound for everything),
   or it does not. *)
Payloads == {"protected", "slash", "plain", "garbage"}

ServerKinds == {"Command", "Chat", "TabComplete", "CloseContainer", "Other"}
ClientKinds == {"OpenWindow", "CloseContainer", "Sound", "StopSound", "BossBar", "Objective",
                "DisplaySlot", "Disconnect", "Login", "DeclareCommands", "Other"}

None == [from |-> "nobody"]

(* A packet: who sent it, as what it was meant, its id, its payload, and whether the
   script host takes it (cancels or reroutes the command, has suggestions). *)
Packet == [from : {"client"}, kind : ServerKinds, id : PacketIds, payload : Payloads,
           taken : BOOLEAN]
     \cup [from : {"backend"}, kind : ClientKinds, id : PacketIds, payload : Payloads,
           taken : {FALSE}]

-----------------------------------------------------------------------------
(* Serverbound packets, by version. *)
is_command_packet(v) ==
  CASE v >= 776             -> {7, 8, 9}
    [] v >= 768 /\ v < 776  -> {5, 6, 7}
    [] v < 768              -> {4, 5, 6}

(* The chat message among them: intercepted only with a leading slash. *)
is_chat_packet(v) ==
  CASE v >= 776             -> {9}
    [] v >= 768 /\ v < 776  -> {7}
    [] v < 768              -> {6}

is_tab_complete_request(v) ==
  CASE v >= 776             -> {15}
    [] v >= 768 /\ v < 776  -> {13, 15}
    [] v >= 766 /\ v < 768  -> {11}
    [] v >= 764 /\ v < 766  -> {10}
    [] v < 764              -> {9, 8, 6, 5}

is_serverbound_close_container_packet(v) ==
  CASE v >= 776             -> {19}
    [] v >= 768 /\ v < 776  -> {17}
    [] v >= 766 /\ v < 768  -> {15}
    [] v >= 764 /\ v < 766  -> {14}
    [] v >= 762 /\ v < 764  -> {13}
    [] v < 762              -> {12, 10, 9}

-----------------------------------------------------------------------------
(* Clientbound packets that the proxy reads, by version. *)
is_open_window_packet(v) ==
  CASE v >= 776             -> {59}
    [] v >= 768 /\ v < 776  -> {53}
    [] v >= 766 /\ v < 768  -> {51}
    [] v >= 764 /\ v < 766  -> {49}
    [] v >= 762 /\ v < 764  -> {48}
    [] v = 761              -> {45}
    [] v < 761              -> {46}

CloseContainerId(v) ==
  CASE v >= 776             -> {17}
    [] v >= 764 /\ v < 776  -> {18}
    [] v >= 762 /\ v < 764  -> {17}
    [] v = 761              -> {15}
    [] v >= 759 /\ v < 761  -> {16}
    [] v < 759              -> {18}

is_sound_packet(v) ==
  CASE v >= 776             -> {117, 116}
    [] v >= 768 /\ v < 776  -> {111, 110}
    [] v >= 766 /\ v < 768  -> {104, 103}
    [] v = 765              -> {102, 101}
    [] v = 764              -> {100, 99}
    [] v < 764              -> {97, 96}

(* Mutant of StopSoundId: 765 keeps the id of 764, which is a sound in 765. *)
StopSoundIdOneLate(v) ==
  CASE v >= 776             -> {119}
    [] v >= 768 /\ v < 776  -> {113}
    [] v >= 766 /\ v < 768  -> {106}
    [] v < 766              -> {102}

StopSoundId(v) ==
  CASE v >= 776             -> {119}
    [] v >= 768 /\ v < 776  -> {113}
    [] v >= 766 /\ v < 768  -> {106}
    [] v = 765              -> {104}
    [] v = 764              -> {102}
    [] v >= 762 /\ v < 764  -> {99}
    [] v = 761              -> {95}
    [] v >= 759 /\ v < 761  -> {97}
    [] v < 759              -> {102}

BossBarId(v) ==
  CASE v >= 776             -> {9}
    [] v >= 764 /\ v < 776  -> {10}
    [] v >= 762 /\ v < 764  -> {11}
    [] v < 762              -> {10}

ScoreboardObjectiveId(v) ==
  CASE v >= 776             -> {106}
    [] v >= 768 /\ v < 776  -> {100}
    [] v >= 766 /\ v < 768  -> {94}
    [] v = 765              -> {92}
    [] v = 764              -> {90}
    [] v >= 762 /\ v < 764  -> {88}
    [] v = 761              -> {84}
    [] v < 761              -> {86}

DisplayObjectiveId(v) ==
  CASE v >= 776             -> {98}
    [] v >= 768 /\ v < 776  -> {92}
    [] v >= 766 /\ v < 768  -> {87}
    [] v = 765              -> {85}
    [] v = 764              -> {83}
    [] v >= 762 /\ v < 764  -> {81}
    [] v = 761              -> {77}
    [] v < 761              -> {79}

is_disconnect == {26, 27}    \* whatever the version

is_login_play_packet(v) ==
  CASE v >= 776             -> {49}
    [] v >= 768 /\ v < 776  -> {44}
    [] v >= 766 /\ v < 768  -> {43}
    [] v >= 764 /\ v < 766  -> {41}
    [] v >= 762 /\ v < 764  -> {40}
    [] v = 761              -> {36}
    [] v >= 759 /\ v < 761  -> {37}
    [] v >= 755 /\ v < 759  -> {38}
    [] v >= 735 /\ v < 755  -> {36}
    [] v >= 573 /\ v < 735  -> {38}
    [] v >= 393 /\ v < 573  -> {37}
    [] v < 393              -> {35}

is_declare_commands_packet(v) ==
  CASE v >= 776             -> {16}
    [] v >= 764 /\ v < 776  -> {17}
    [] v >= 762 /\ v < 764  -> {15}
    [] v >= 759 /\ v < 762  -> {14}
    [] v >= 755 /\ v < 759  -> {18}
    [] v >= 735 /\ v < 755  -> {16}
    [] v >= 393 /\ v < 735  -> {17}
    [] v < 393              -> {}

-----------------------------------------------------------------------------
(* Clientbound packets that the proxy makes itself, besides the removals of
   teardown_transferred_state, which use the ids above. *)
RespawnId(v) ==
  CASE v >= 776             -> 82
    [] v >= 768 /\ v < 776  -> 76
    [] v >= 766 /\ v < 768  -> 71
    [] v >= 764 /\ v < 766  -> 69
    [] v >= 762 /\ v < 764  -> 67
    [] v = 761              -> 63
    [] v >= 759 /\ v < 761  -> 62
    [] v >= 755 /\ v < 759  -> 61
    [] v >= 751 /\ v < 755  -> 57
    [] v >= 340 /\ v < 751  -> 53
    [] v < 340              -> 69

SystemChatId(v) ==
  CASE v >= 776             -> 121
    [] v >= 768 /\ v < 776  -> 115
    [] v >= 766 /\ v < 768  -> 108
    [] v >= 764 /\ v < 766  -> 105
    [] v = 763              -> 103
    [] v = 762              -> 100
    [] v = 761              -> 96
    [] v >= 759 /\ v < 761  -> 95
    [] v < 759              -> 105

(* Mutant of TabCompleteResponseId: the arm for 776 is missing. *)
TabCompleteResponseIdOpenEnded(v) == IF v >= 764 THEN 16 ELSE 15

TabCompleteResponseId(v) == IF v >= 764 /\ v < 776 THEN 16 ELSE 15

(* encode_for_client(version, true): the Configuration id from 764 on. *)
ShutdownDisconnectId(v) ==
  CASE v >= 766             -> 2
    [] v >= 764 /\ v < 766  -> 1
    [] v < 764              -> 27

-----------------------------------------------------------------------------
(* "Packet ID for server-bound chat command in Play state", and for a chat message:
   both are older than the tables, and hold below 766. *)
SERVERBOUND_CHAT_COMMAND_PACKET_ID == 4
SERVERBOUND_CHAT_MESSAGE_PACKET_ID == 5

(* The ids a client or a backend of version v uses for a packet of a kind. *)
ServerboundIds(kind, v) ==
  CASE kind = "Command"        -> IF v < 766 THEN {SERVERBOUND_CHAT_COMMAND_PACKET_ID}
                                  ELSE is_command_packet(v) \ is_chat_packet(v)
    [] kind = "Chat"           -> IF v < 766 THEN {SERVERBOUND_CHAT_MESSAGE_PACKET_ID}
                                  ELSE is_chat_packet(v)
    [] kind = "TabComplete"    -> is_tab_complete_request(v)
    [] kind = "CloseContainer" -> is_serverbound_close_container_packet(v)

ClientboundIds(kind, v) ==
  CASE kind = "OpenWindow"      -> is_open_window_packet(v)
    [] kind = "CloseContainer"  -> CloseContainerId(v)
    [] kind = "Sound"           -> is_sound_packet(v)
    [] kind = "StopSound"       -> StopSoundId(v)
    [] kind = "BossBar"         -> BossBarId(v)
    [] kind = "Objective"       -> ScoreboardObjectiveId(v)
    [] kind = "DisplaySlot"     -> DisplayObjectiveId(v)
    [] kind = "Disconnect"      -> is_disconnect
    [] kind = "Login"           -> is_login_play_packet(v)
    [] kind = "DeclareCommands" -> is_declare_commands_packet(v)

WellFormed(p, v) ==
  \/ /\ p.from = "client"
     /\ \/ p.kind # "Other" /\ p.id \in ServerboundIds(p.kind, v)
        \/ p.kind = "Other" /\ \A k \in ServerKinds \ {"Other"} : p.id \notin ServerboundIds(k, v)
  \/ /\ p.from = "backend"
     /\ \/ p.kind # "Other" /\ p.id \in ClientboundIds(p.kind, v)
        \/ p.kind = "Other" /\ \A k \in ClientKinds \ {"Other"} : p.id \notin ClientboundIds(k, v)

When(condition, effect) == IF condition THEN {effect} ELSE {}

-----------------------------------------------------------------------------
(* handle_client_packet, by the id.  A command the script host takes is consumed;
   one it lets pass is tested as a completion request too. *)
ClientEffects(p, v) ==
  LET decodes == p.payload \in {"slash", "plain"}
      command == /\ p.id \in is_command_packet(v) /\ decodes
                 /\ p.id \in is_chat_packet(v) => p.payload = "slash"
      suggest == /\ ~(command /\ p.taken)
                 /\ p.id \in is_tab_complete_request(v) /\ decodes
  IN IF p.payload = "protected" THEN {}
     ELSE When(p.id \in is_serverbound_close_container_packet(v), "untrack_window")
            \cup When(command, "script") \cup When(suggest, "suggest")
            \cup When(~(p.taken /\ (command \/ suggest)), "forward")

(* handle_backend_packet, by the id: the trackers first, then the four ways to
   dispose of the packet. *)
BackendEffects(p, v) ==
  LET decodes == p.payload # "garbage"
      opens   == p.id \in is_open_window_packet(v)
      sounds  == p.id \in is_sound_packet(v)
  IN IF p.payload = "protected" THEN {}
     ELSE When(opens /\ decodes, "track_window")
            \cup When(~opens /\ p.id \in CloseContainerId(v), "untrack_window")
            \cup When(sounds, "track_audio")
            \cup When(~sounds /\ p.id \in StopSoundId(v) /\ decodes, "untrack_audio")
            \cup When(p.id \in BossBarId(v) /\ decodes, "track_boss_bar")
            \cup When(p.id \in ScoreboardObjectiveId(v) /\ decodes, "track_objective")
            \cup When(p.id \in DisplayObjectiveId(v) /\ decodes, "track_slot")
            \cup {IF p.id \in is_disconnect THEN "fail_over"
                   ELSE IF p.id \in is_login_play_packet(v) THEN "login"
                   ELSE IF p.id \in is_declare_commands_packet(v) THEN "declare"
                   ELSE "forward"}

Init ==
  /\ protocol_version \in Versions
  /\ packet = None /\ effects = {}

HandleClient(p) ==
  /\ packet = None
  /\ p.from = "client" /\ WellFormed(p, protocol_version)
  /\ packet' = p
  /\ effects' = ClientEffects(p, protocol_version)
  /\ UNCHANGED protocol_version

HandleBackend(p) ==
  /\ packet = None
  /\ p.from = "backend" /\ WellFormed(p, protocol_version)
  /\ packet' = p
  /\ effects' = BackendEffects(p, protocol_version)
  /\ UNCHANGED protocol_version

(* The shutdown arm of run(), which ends the loop. *)
Shutdown ==
  /\ packet = None
  /\ packet' = [from |-> "proxy", id |-> ShutdownDisconnectId(protocol_version)]
  /\ effects' = {"end"}
  /\ UNCHANGED protocol_version

(* run() goes back to its select. *)
Again ==
  /\ packet # None /\ "end" \notin effects
  /\ packet' = None /\ effects' = {}
  /\ UNCHANGED protocol_version

Ended == "end" \in effects /\ UNCHANGED vars

Next ==
  \/ \E p \in Packet : HandleClient(p) \/ HandleBackend(p)
  \/ Shutdown \/ Again \/ Ended

Spec == Init /\ [][Next]_vars

-----------------------------------------------------------------------------
(* What a packet of each kind is meant to cause. *)
ClientMeaning(p) ==
  LET decodes == p.payload \in {"slash", "plain"}
      script  == decodes /\ (p.kind = "Command" \/ (p.kind = "Chat" /\ p.payload = "slash"))
      suggest == decodes /\ p.kind = "TabComplete"
  IN When(script, "script") \cup When(suggest, "suggest")
       \cup When(p.kind = "CloseContainer", "untrack_window")
       \cup When(~(p.taken /\ (script \/ suggest)), "forward")

BackendMeaning(p) ==
  LET decodes == p.payload # "garbage"
  IN CASE p.kind = "Disconnect"      -> {"fail_over"}
       [] p.kind = "Login"           -> {"login"}
       [] p.kind = "DeclareCommands" -> {"declare"}
       [] p.kind = "CloseContainer"  -> {"untrack_window", "forward"}
       [] p.kind = "Sound"           -> {"track_audio", "forward"}
       [] p.kind = "OpenWindow"      -> When(decodes, "track_window") \cup {"forward"}
       [] p.kind = "StopSound"       -> When(decodes, "untrack_audio") \cup {"forward"}
       [] p.kind = "BossBar"         -> When(decodes, "track_boss_bar") \cup {"forward"}
       [] p.kind = "Objective"       -> When(decodes, "track_objective") \cup {"forward"}
       [] p.kind = "DisplaySlot"     -> When(decodes, "track_slot") \cup {"forward"}
       [] p.kind = "Other"           -> {"forward"}

Meaning(p) ==
  IF p.payload = "protected" THEN {}
  ELSE IF p.from = "client" THEN ClientMeaning(p) ELSE BackendMeaning(p)

(* As what handle_client_packet takes a packet.  Below 766 its test for chat messages
   (0x06) is not the constant (0x05): a chat message of 764 or 765 counts as a
   command, with or without a leading slash, and a packet of id 0x06, which is
   nothing the proxy knows, as a chat message. *)
TakenAs(p, v) ==
  [p EXCEPT !.kind = IF v >= 766 \/ p.from # "client" THEN p.kind
                     ELSE IF p.kind = "Chat" THEN "Command"
                     ELSE IF p.id = 6 THEN "Chat" ELSE p.kind]

(* In every supported version the chain of id tests does with a packet what its
   sender meant, the chat of 764 and 765 excepted (TakenAs): no id is claimed by two
   tests, so that an early arm never hides a later one, no packet is handled twice,
   and none but that chat is handled as something else. *)
OneRole ==
  protocol_version >= Supported /\ packet.from \in {"client", "backend"} =>
    effects = Meaning(TakenAs(packet, protocol_version))

(* The packets the proxy makes up for the client (Respawn, SystemChat, command
   suggestions) share an id neither with each other nor with a packet the proxy reads
   from a backend of that version. *)
OwnPacketsDistinct ==
  LET v == protocol_version
  IN v >= Supported =>
       /\ RespawnId(v) # SystemChatId(v) /\ RespawnId(v) # TabCompleteResponseId(v)
       /\ SystemChatId(v) # TabCompleteResponseId(v)
       /\ \A k \in ClientKinds \ {"Other"} :
            ClientboundIds(k, v)
              \cap {RespawnId(v), SystemChatId(v), TabCompleteResponseId(v)} = {}
=============================================================================
