----------------------------- MODULE PacketCodec -----------------------------
(***************************************************************************)
(* The packets FrameMC writes and reads, byte by byte: the login packets   *)
(* (src/src/protocol/login.rs, forwarding.rs, handshake.rs,                *)
(* configuration.rs), those of the Play state, and the two it rewrites on  *)
(* the way to the client (src/src/routing/state_machine.rs).               *)
(*                                                                         *)
(* Layouts change with the protocol version, and each end has its own      *)
(* tests of the version.  A session identifies packets as PacketDispatch   *)
(* says; between packets it converts them as said here.                    *)
(***************************************************************************)
EXTENDS PacketDispatch, Codec

CONSTANTS
  Numbers,      \* VarInts that fields may hold
  Names,        \* texts that fields may hold
  Uuids,
  Thresholds,   \* compression thresholds, <<>> for none
  Trees,        \* command trees of backends
  CustomServers,\* names of the configured servers, sorted
  Word          \* the bytes of the words that the code writes

NameBytes == 48 .. 57 \cup 65 .. 90 \cup 97 .. 122 \cup {95}

(* i32, and byte strings. *)
ASSUME NumbersAssumption ==
  \A n \in Numbers : n \in Int /\ -MaxInt32 - 1 <= n /\ n <= MaxInt32
ASSUME NamesAssumption == \A n \in Names : n \in Seq(NameBytes) /\ Len(n) \in 1 .. 16
ASSUME UuidsAssumption == \A u \in Uuids : u \in Seq(0 .. 255) /\ Len(u) = 16
ASSUME ThresholdsAssumption == \A t \in Thresholds : t = <<>> \/ (t = <<t[1]>> /\ t[1] \in Nat)
ASSUME WordAssumption ==
  /\ \A w \in {"server", "hub", "lobby", "steel", "name", "text", "ask_server", "overworld",
               "json_open", "json_close"} : Word[w] \in Seq(0 .. 255) /\ Len(Word[w]) \in 1 .. 32
  /\ Len(Word.text) = 4 /\ Len(Word.json_open) = 9 /\ Len(Word.json_close) = 2
  /\ \A w, x \in {"server", "hub", "lobby", "steel"} : Word[w] = Word[x] => w = x

MaxPacketSize == 2097152
MaxMatches    == 4096      \* of a tab completion
MaxDimensions == 1024      \* named in a Login (Play)

(* A text, or a list, for which a packet has room. *)
ShortText(s) == s \in Seq(0 .. 255) /\ Len(s) <= MaxPacketSize

ASSUME CustomServersAssumption ==
  /\ CustomServers \in Seq(ToSet(CustomServers)) /\ Len(CustomServers) <= MaxPacketSize
  /\ \A i \in DOMAIN CustomServers : ShortText(CustomServers[i])

VARIABLE wire   \* the conversion under way

codecVars == <<protocol_version, packet, effects, wire>>

Idle == [at |-> "idle"]

Nil  == [i \in 1 .. 16 |-> 0]    \* Uuid::nil()
Seed == <<1, 2, 3, 4, 5, 6, 7, 200>>

RawPacket(id, payload) == [id |-> id, payload |-> payload]

(* The payload of a packet with one of the ids, before its first field. *)
Decoder(raw, ids) == IF raw.id \in ids THEN Start(raw.payload) ELSE Failed

-----------------------------------------------------------------------------
(* Login state. *)
GetProperty(r) ==
  LET name      == GetText(r)
      value     == GetText(name)
      signature == GetOptText(value)
  IN With(signature, [name |-> name.val, value |-> value.val, signature |-> signature.val])

GetProperties(r) == GetMany(r, MaxInt32, GetProperty)

WriteProperty(p) == Text(p.name) \o Text(p.value) \o OptText(p.signature)

encode_handshake(x) ==
  RawPacket(0, encode_varint(x.protocol_version) \o Text(x.server_address)
               \o Short(x.server_port) \o encode_varint(IF x.next_state = "Status" THEN 1 ELSE 2))

decode_handshake(raw) ==
  LET version == GetVarInt(Decoder(raw, {0}))
      address == GetText(version)
      port    == GetU16(address)
      state   == GetVarInt(port)
  IN IF state.ok /\ state.val \in {1, 2}
     THEN Got([protocol_version |-> version.val, server_address |-> address.val,
               server_port |-> port.val,
               next_state |-> IF state.val = 1 THEN "Status" ELSE "Login"], state.rest)
     ELSE Failed

encode_login_start(x) == RawPacket(0, Text(x.username) \o x.player_uuid)

(* The UUID is read if sixteen bytes are left, and nil otherwise. *)
decode_login_start(raw) ==
  LET name == GetText(Decoder(raw, {0}))
      uuid == IfLeft(16, name, GetRaw(16, name), Nil)
  IN IF name.ok /\ Len(name.val) \in 1 .. 16 /\ ToSet(name.val) \subseteq NameBytes
     THEN With(uuid, [username |-> name.val, player_uuid |-> uuid.val]) ELSE Failed

encode_encryption_request(x, v) ==
  RawPacket(1, Text(x.server_id) \o Text(x.public_key) \o Text(x.verify_token)
               \o (IF v >= 766 THEN Flag(x.should_authenticate) ELSE <<>>))

decode_encryption_request(raw) ==
  LET id    == GetText(Decoder(raw, {1}))
      key   == GetText(id)
      token == GetText(key)
      auth  == IfLeft(1, token, GetBool(token), TRUE)
  IN With(auth, [server_id |-> id.val, public_key |-> key.val, verify_token |-> token.val,
                 should_authenticate |-> auth.val])

encode_encryption_response(x) == RawPacket(1, Text(x.shared_secret) \o Text(x.verify_token))

(* Mutant of decode_encryption_response: the token is what is left, whatever its length
   says. *)
decode_encryption_response_trusting(raw) ==
  LET secret == GetText(Decoder(raw, {1}))
      token  == GetRest(GetVarInt(secret))
  IN With(token, [shared_secret |-> secret.val, verify_token |-> token.val])

decode_encryption_response(raw) ==
  LET secret == GetText(Decoder(raw, {1}))
      token  == GetText(secret)
  IN With(token, [shared_secret |-> secret.val, verify_token |-> token.val])

(* Uuid::hyphenated and Uuid::parse_str: a text of 36 characters. *)
Hyphenated(u) == u \o [i \in 1 .. 20 |-> 45]

(* A session id that was not given is made up; the model takes the nil one. *)
encode_login_success(x, v) ==
  RawPacket(2,
    IF v >= 707
    THEN x.uuid \o Text(x.username) \o Many(x.properties, WriteProperty)
           \o (IF v < 776 THEN <<>> ELSE IF x.session_id = <<>> THEN Nil ELSE x.session_id[1])
    ELSE Text(Hyphenated(x.uuid)) \o Text(x.username))

(* Properties are read from 759 on, if anything is left, and a session id from 776 on. *)
GetPropertiesIn(r, v) ==
  IF v >= 759 THEN IfLeft(1, r, GetProperties(r), <<>>) ELSE With(r, <<>>)

GetSessionId(r, v) ==
  LET id == GetRaw(16, r) IN IF v >= 776 THEN With(id, <<id.val>>) ELSE With(r, <<>>)

(* Mutant of decode_login_success: a session id is expected one version too early. *)
decode_login_success_early(raw, v) ==
  LET first   == Decoder(raw, {2})
      uuid    == IF v >= 707 THEN GetRaw(16, first) ELSE GetText(first)
      name    == GetText(uuid)
      props   == GetPropertiesIn(name, v)
      session == GetSessionId(props, v + 1)
  IN IF session.ok /\ session.rest = <<>>
     THEN Got([uuid |-> SubSeq(uuid.val, 1, 16), username |-> name.val, properties |-> props.val,
               session_id |-> session.val], <<>>)
     ELSE Failed

(* Nothing may follow the last field. *)
decode_login_success(raw, v) ==
  LET first   == Decoder(raw, {2})
      uuid    == IF v >= 707 THEN GetRaw(16, first) ELSE GetText(first)
      name    == GetText(uuid)
      props   == GetPropertiesIn(name, v)
      session == GetSessionId(props, v)
  IN IF session.ok /\ session.rest = <<>> /\ Len(uuid.val) = (IF v >= 707 THEN 16 ELSE 36)
     THEN Got([uuid |-> SubSeq(uuid.val, 1, 16), username |-> name.val, properties |-> props.val,
               session_id |-> session.val], <<>>)
     ELSE Failed

encode_login_acknowledged == RawPacket(3, <<>>)

decode_login_acknowledged(raw) == Decoder(raw, {3})

encode_set_compression(x) == RawPacket(3, encode_varint(x.threshold))

decode_set_compression(raw) ==
  LET threshold == GetVarInt(Decoder(raw, {3}))
  IN With(threshold, [threshold |-> threshold.val])

encode_plugin_request(x) ==
  RawPacket(4, encode_varint(x.message_id) \o Text(x.channel) \o x.data)

decode_plugin_request(raw) ==
  LET id      == GetVarInt(Decoder(raw, {4}))
      channel == GetText(id)
      data    == GetRest(channel)
  IN With(data, [message_id |-> id.val, channel |-> channel.val, data |-> data.val])

encode_plugin_response(x) ==
  RawPacket(2, encode_varint(x.message_id) \o Flag(x.successful)
               \o (IF x.successful THEN x.data ELSE <<>>))

decode_plugin_response(raw) ==
  LET id   == GetVarInt(Decoder(raw, {2}))
      good == GetBool(id)
      data == GetRest(good)
  IN With(data, [message_id |-> id.val, successful |-> good.val,
                 data |-> IF good.val THEN data.val ELSE <<>>])

(* The data of a response to velocity:player_info: a signature of 32 bytes and what it
   signs. *)
create_velocity_forwarding_payload(profile, client_ip) ==
  encode_varint(4) \o Text(client_ip) \o profile.id \o Text(profile.name)
    \o Many(profile.properties, WriteProperty)

(* HMAC-SHA256: a function of the whole payload. *)
Hmac(payload) == [i \in 1 .. 32 |-> (Len(payload) + payload[(i % Len(payload)) + 1]) % 256]

create_velocity_response_data(profile, client_ip) ==
  LET payload == create_velocity_forwarding_payload(profile, client_ip)
  IN Hmac(payload) \o payload

(* How a backend reads it. *)
ReadVelocityData(b) ==
  LET hmac    == GetRaw(32, Start(b))
      version == GetVarInt(hmac)
      ip      == GetText(version)
      id      == GetRaw(16, ip)
      name    == GetText(id)
      props   == GetProperties(name)
  IN IF hmac.ok /\ hmac.rest # <<>> /\ hmac.val = Hmac(hmac.rest)
     THEN With(props, [version |-> version.val, client_ip |-> ip.val, id |-> id.val,
                       name |-> name.val, properties |-> props.val])
     ELSE Failed

encode_registry_data(x) == RawPacket(7, Text(x.registry_id) \o x.raw_data)

decode_registry_data(raw) ==
  LET id   == GetText(Decoder(raw, {7}))
      data == GetRest(id)
  IN With(data, [registry_id |-> id.val, raw_data |-> data.val])

-----------------------------------------------------------------------------
(* Play state, serverbound. *)
ChatCommandId(v) ==
  CASE v >= 776             -> 7
    [] v >= 768 /\ v < 776  -> 5
    [] v < 768              -> 4

encode_chat_command(x, v) == RawPacket(ChatCommandId(v), Text(x.command))

decode_chat_command(raw, v) ==
  LET command == GetText(Decoder(raw, is_command_packet(v)))
  IN With(command, [command |-> command.val])

TabCompleteRequestId(v) ==
  CASE v >= 776             -> 15
    [] v >= 768 /\ v < 776  -> 13
    [] v >= 766 /\ v < 768  -> 11
    [] v >= 764 /\ v < 766  -> 10
    [] v < 764              -> 6

encode_tab_complete_request(x, v) ==
  RawPacket(TabCompleteRequestId(v), encode_varint(x.transaction_id) \o Text(x.text))

decode_tab_complete_request(raw, v) ==
  LET id   == GetVarInt(Decoder(raw, is_tab_complete_request(v)))
      text == GetText(id)
  IN With(text, [transaction_id |-> id.val, text |-> text.val])

-----------------------------------------------------------------------------
(* Play state, clientbound. *)
WriteMatch(m) == Text(m) \o <<0>>

encode_tab_complete_response(x, v) ==
  RawPacket(TabCompleteResponseId(v),
            encode_varint(x.transaction_id) \o encode_varint(x.start) \o encode_varint(x.length)
              \o Many(x.matches, WriteMatch))

(* A match; its tooltip is passed over. *)
GetMatch(r) ==
  LET text == GetText(r) IN With(IfLeft(1, text, GetU8(text), 0), text.val)

decode_tab_complete_response(raw, v) ==
  LET id      == GetVarInt(Decoder(raw, {TabCompleteResponseId(v), 15, 16}))
      start   == GetVarInt(id)
      length  == GetVarInt(start)
      matches == GetMany(length, MaxMatches, GetMatch)
  IN With(matches, [transaction_id |-> id.val, start |-> start.val, length |-> length.val,
                    matches |-> matches.val])

default_reset(data_kept) ==
  [dimension_type |-> Word.overworld, dimension_name |-> Word.overworld,
   hashed_seed |-> <<0, 0, 0, 0, 0, 0, 0, 0>>, gamemode |-> 0, previous_gamemode |-> -1,
   is_debug |-> FALSE, is_flat |-> FALSE, data_kept |-> data_kept]

(* From 766 on the world is written as SpawnInfo, with no place of death, no portal
   cooldown and a sea level of 63. *)
encode_respawn(x, v) ==
  RawPacket(RespawnId(v),
    IF v >= 766
    THEN encode_varint(0) \o Text(x.dimension_name) \o x.hashed_seed \o <<x.gamemode>>
           \o <<IF x.previous_gamemode < 0 THEN 255 ELSE x.previous_gamemode>>
           \o Flag(x.is_debug) \o Flag(x.is_flat) \o <<0>> \o encode_varint(0)
           \o (IF v >= 768 THEN encode_varint(63) ELSE <<>>) \o <<x.data_kept>>
    ELSE Text(x.dimension_type) \o Text(x.dimension_name) \o x.hashed_seed \o <<x.gamemode>>
           \o <<x.previous_gamemode % 256>> \o Flag(x.is_debug) \o Flag(x.is_flat)
           \o <<x.data_kept>> \o <<0>> \o encode_varint(0))

is_valid_respawn_id == {82, 81, 76, 74, 71, 69, 67, 63, 62, 61, 57, 53}

GetWorld(r) ==
  LET seed  == GetRaw(8, r)
      mode  == GetU8(seed)
      prev  == GetI8(mode)
      debug == GetBool(prev)
      flat  == GetBool(debug)
  IN With(flat, [hashed_seed |-> seed.val, gamemode |-> mode.val, previous_gamemode |-> prev.val,
                 is_debug |-> debug.val, is_flat |-> flat.val])

(* The place of death is passed over. *)
GetDeath(r) ==
  LET some == GetBool(r) IN IF some.ok /\ some.val THEN GetRaw(8, GetText(some)) ELSE some

(* The part of Login (Play) and Respawn that describes the world, from 766 on. *)
GetSpawnInfo(r, v) ==
  LET name     == GetText(GetVarInt(r))
      world    == GetWorld(name)
      cooldown == GetVarInt(GetDeath(world))
  IN With(IF v >= 768 THEN GetVarInt(cooldown) ELSE cooldown,
          [dimension_name |-> name.val, world |-> world.val])

RespawnIn(type, name, world, kept) ==
  [dimension_type |-> type, dimension_name |-> name, hashed_seed |-> world.hashed_seed,
   gamemode |-> world.gamemode, previous_gamemode |-> world.previous_gamemode,
   is_debug |-> world.is_debug, is_flat |-> world.is_flat, data_kept |-> kept]

decode_respawn(raw, v) ==
  LET first == Decoder(raw, {RespawnId(v)} \cup is_valid_respawn_id)
      info  == GetSpawnInfo(first, v)
      type  == GetText(first)
      name  == GetText(type)
      world == GetWorld(name)
      kept  == GetU8(IF v >= 766 THEN info ELSE world)
      place == IF v >= 766 THEN info.val.dimension_name ELSE name.val
  IN With(kept, RespawnIn(IF v >= 766 THEN place ELSE type.val, place,
                          IF v >= 766 THEN info.val.world ELSE world.val, kept.val))

(* serde_json: the text as the only member of an object, without anything to escape. *)
Json(text)   == Word.json_open \o text \o Word.json_close
JsonText(js) == SubSeq(js, Len(Word.json_open) + 1, Len(js) - Len(Word.json_close))

(* NBT from 766 on, a JSON text before. *)
encode_system_chat(x, v) ==
  RawPacket(SystemChatId(v),
    IF v >= 766
    THEN <<10, 8>> \o Short(4) \o Word.text \o Short(Len(x.message)) \o x.message \o <<0>>
           \o Flag(x.overlay)
    ELSE Text(Json(x.message)) \o Flag(x.overlay))

is_valid_system_chat_id == {121, 120, 115, 112, 108, 103, 100, 96, 95, 105}

(* A length of two bytes and as many bytes. *)
GetSized(r) == LET n == GetU16(r) IN GetRaw(n.val, n)

(* One more tag of a compound; the last one, and one that makes no sense, ends the loop. *)
NextTag(s) ==
  LET b    == s.rest
      key  == GetSized(Start(Tail(b)))
      str  == GetSized(key)
      past(c)    == IF Len(c) < 2 THEN c ELSE SubSeq(c, 3, Len(c))
      stop(rest) == [done |-> TRUE, message |-> s.message, rest |-> rest]
  IN IF s.done \/ b = <<>> THEN s
     ELSE IF b[1] = 0 THEN stop(Tail(b))
     ELSE IF ~key.ok THEN stop(past(Tail(b)))
     ELSE IF b[1] # 8 THEN [done |-> FALSE, message |-> s.message, rest |-> key.rest]
     ELSE IF ~str.ok THEN stop(past(key.rest))
     ELSE [done |-> FALSE, message |-> IF key.val = Word.text THEN str.val ELSE s.message,
           rest |-> str.rest]

(* Each tag takes a byte at least. *)
ReadTags(b) ==
  LET after[n \in 0 .. Len(b)] ==
        IF n = 0 THEN [done |-> FALSE, message |-> <<>>, rest |-> b] ELSE NextTag(after[n - 1])
      last == after[Len(b)]
  IN Got(last.message, last.rest)

decode_system_chat(raw, v) ==
  LET json    == GetText(Start(raw.payload))
      text    == IF raw.payload[1] = 10 THEN ReadTags(Tail(raw.payload))
                 ELSE With(json, JsonText(json.val))
      overlay == IfLeft(1, text, GetBool(text), FALSE)
  IN IF raw.id \notin {SystemChatId(v)} \cup is_valid_system_chat_id \/ raw.payload = <<>> THEN Failed
     ELSE With(overlay, [message |-> text.val, overlay |-> overlay.val])

Only(ids) == CHOOSE id \in ids : TRUE

encode_close_container(x, v) == RawPacket(Only(CloseContainerId(v)), <<x.window_id>>)

decode_close_container(raw, v) ==
  LET id == GetU8(Decoder(raw, CloseContainerId(v))) IN With(id, [window_id |-> id.val])

Bit(flags, b) == (flags \div b) % 2 = 1

(* Bits 1 and 2 of the flags say whether a source and a sound follow. *)
encode_stop_sound(x, v) ==
  RawPacket(Only(StopSoundId(v)),
            <<x.flags>>
              \o (IF Bit(x.flags, 1) /\ x.source # <<>> THEN encode_varint(x.source[1]) ELSE <<>>)
              \o (IF Bit(x.flags, 2) /\ x.sound # <<>> THEN Text(x.sound[1]) ELSE <<>>))

decode_stop_sound(raw, v) ==
  LET flags  == GetU8(Decoder(raw, StopSoundId(v)))
      Has(b) == flags.ok /\ Bit(flags.val, b)
      source == IF Has(1) THEN GetVarInt(flags) ELSE flags
      sound  == IF Has(2) THEN GetText(source) ELSE source
  IN With(sound, [flags  |-> flags.val, source |-> IF Has(1) THEN <<source.val>> ELSE <<>>,
                  sound  |-> IF Has(2) THEN <<sound.val>> ELSE <<>>])

encode_boss_bar(x, v) == RawPacket(Only(BossBarId(v)), x.uuid \o encode_varint(x.action))

decode_boss_bar(raw, v) ==
  LET uuid   == GetRaw(16, Decoder(raw, BossBarId(v)))
      action == GetVarInt(uuid)
  IN With(action, [uuid |-> uuid.val, action |-> action.val])

encode_objective(x, v) == RawPacket(Only(ScoreboardObjectiveId(v)), Text(x.name) \o <<x.action>>)

decode_objective(raw, v) ==
  LET name   == GetText(Decoder(raw, ScoreboardObjectiveId(v)))
      action == GetU8(name)
  IN With(action, [name |-> name.val, action |-> action.val])

encode_display_objective(x, v) ==
  RawPacket(Only(DisplayObjectiveId(v)), encode_varint(x.position) \o Text(x.name))

decode_display_objective(raw, v) ==
  LET position == GetVarInt(Decoder(raw, DisplayObjectiveId(v)))
      name     == GetText(position)
  IN With(name, [position |-> position.val, name |-> name.val])

-----------------------------------------------------------------------------
(* Login (Play) on its way to a client that is in the Play state already.  What a
   backend writes: *)
WriteDeath(o) == IF o = <<>> THEN <<0>> ELSE <<1>> \o Text(o[1].dimension) \o o[1].position

WriteSpawnInfo(x, v) ==
  (IF v >= 766 THEN encode_varint(x.dimension) ELSE Text(x.dimension_type))
    \o Text(x.dimension_name) \o x.hashed_seed \o <<x.gamemode, x.previous_gamemode % 256>>
    \o Flag(x.is_debug) \o Flag(x.is_flat) \o WriteDeath(x.death)
    \o encode_varint(x.portal_cooldown)
    \o (IF v >= 768 THEN encode_varint(x.sea_level) ELSE <<>>)

WriteLogin(x, v) ==
  RawPacket(Only(is_login_play_packet(v)),
            <<0, 0, 1, 44>> \o Flag(x.is_hardcore) \o Many(x.dimension_names, Text)
              \o encode_varint(x.max_players) \o encode_varint(10) \o encode_varint(8)
              \o Flag(FALSE) \o Flag(TRUE) \o Flag(x.do_limited_crafting)
              \o WriteSpawnInfo(x, v) \o Flag(TRUE))

(* Mutant of LoginHead: one of the flags is forgotten. *)
LoginHeadShort(r) ==
  LET names == GetMany(GetRaw(1, GetRaw(4, r)), MaxDimensions, GetText)
  IN GetRaw(1, GetRaw(1, GetVarInt(GetVarInt(GetVarInt(names)))))

(* What comes before the world: the entity id, is_hardcore, the names of the dimensions,
   three numbers and three flags. *)
LoginHead(r) ==
  LET names == GetMany(GetRaw(1, GetRaw(4, r)), MaxDimensions, GetText)
  IN GetRaw(1, GetRaw(1, GetRaw(1, GetVarInt(GetVarInt(GetVarInt(names))))))

(* From 766 on the bytes of the world are copied, in 764 and 765 they are read and
   written anew, before that they are left aside. *)
RespawnAfter(head, v, data_to_keep) ==
  LET info  == GetSpawnInfo(head, v)
      type  == GetText(head)
      name  == GetText(type)
      world == GetWorld(name)
      bytes == SubSeq(head.rest, 1, Len(head.rest) - Len(info.rest))
  IN IF v < 764 THEN Got(encode_respawn(default_reset(data_to_keep), v), <<>>)
     ELSE IF v >= 766 THEN With(info, RawPacket(RespawnId(v), bytes \o <<data_to_keep>>))
     ELSE With(world, encode_respawn(RespawnIn(type.val, name.val, world.val, data_to_keep), v))

extract_respawn_from_login_with_data_kept(raw, v, data_to_keep) ==
  RespawnAfter(LoginHead(Start(raw.payload)), v, data_to_keep)

data_kept(v) == IF v >= 764 THEN 3 ELSE 1

(* The packet that stands in for Login (Play): a Respawn in the backend's world or, if
   that cannot be told, in the default one. *)
RespawnFor(raw, v) ==
  OrElse(extract_respawn_from_login_with_data_kept(raw, v, data_kept(v)),
         encode_respawn(default_reset(data_kept(v)), v))

-----------------------------------------------------------------------------
(* The command tree of a backend.  A node's flags tell its type and which of its parts
   are there, the others being <<>>; a tree is written as its nodes and the index of its
   root. *)
IsNode(x, count) ==
  /\ x = [flags |-> x.flags, children |-> x.children, redirect |-> x.redirect, name |-> x.name,
          parser |-> x.parser, property |-> x.property, suggestions |-> x.suggestions]
  /\ x.flags \in 0 .. 255
  /\ x.children \in Seq(0 .. count - 1) /\ Len(x.children) <= MaxPacketSize
  /\ IF Bit(x.flags, 8) THEN x.redirect \in 0 .. count - 1 ELSE x.redirect = <<>>
  /\ IF x.flags % 4 # 0 THEN ShortText(x.name) ELSE x.name = <<>>
  /\ IF x.flags % 4 = 2 THEN x.parser \in 0 .. MaxInt32 /\ x.property \in 0 .. MaxInt32
     ELSE x.parser = <<>> /\ x.property = <<>>
  /\ IF Bit(x.flags, 16) THEN ShortText(x.suggestions) ELSE x.suggestions = <<>>

WriteNode(n) ==
  <<n.flags>> \o Many(n.children, encode_varint)
    \o (IF Bit(n.flags, 8) THEN encode_varint(n.redirect) ELSE <<>>)
    \o (IF n.flags % 4 # 0 THEN Text(n.name) ELSE <<>>)
    \o (IF n.flags % 4 = 2 THEN encode_varint(n.parser) \o encode_varint(n.property) ELSE <<>>)
    \o (IF Bit(n.flags, 16) THEN Text(n.suggestions) ELSE <<>>)

WriteTree(t, v) ==
  RawPacket(Only(is_declare_commands_packet(v)), Many(t.nodes, WriteNode) \o encode_varint(t.root))

(* How a client reads a node, and a tree. *)
ReadNode(r) ==
  LET flags       == GetU8(r)
      children    == GetMany(flags, MaxInt32, GetVarInt)
      redirected  == flags.ok /\ Bit(flags.val, 8)
      named       == flags.ok /\ flags.val % 4 # 0
      parsed      == flags.ok /\ flags.val % 4 = 2
      suggested   == flags.ok /\ Bit(flags.val, 16)
      redirect    == GetIf(redirected, children, GetVarInt)
      name        == GetIf(named, redirect, GetText)
      parser      == GetIf(parsed, name, GetVarInt)
      property    == GetIf(parsed, parser, GetVarInt)
      suggestions == GetIf(suggested, property, GetText)
      Part(is, x) == IF is THEN x.val ELSE <<>>
  IN With(suggestions,
          [flags |-> flags.val, children |-> children.val, redirect |-> Part(redirected, redirect),
           name |-> Part(named, name), parser |-> Part(parsed, parser),
           property |-> Part(parsed, property), suggestions |-> Part(suggested, suggestions)])

ReadRoot(nodes) ==
  LET root == GetVarInt(nodes)
  IN IF root.ok /\ root.rest = <<>> THEN Got([nodes |-> nodes.val, root |-> root.val], <<>>)
     ELSE Failed

ReadTree(raw) == ReadRoot(GetMany(Start(raw.payload), MaxInt32, ReadNode))

(* The index of the root is the last VarInt, and has to be found from its end: a zero
   byte is all of it, otherwise it is the longest one that could be an index. *)
TrailingRoot(b, count) ==
  LET tail(n) == SubSeq(b, Len(b) - n + 1, Len(b))
      fits(n) == LET r == decode_varint(tail(n))
                 IN r.ok /\ r.rest = <<>> /\ varint_size(r.val) = n /\ r.val \in 0 .. count - 1
      lens == {n \in 1 .. Min({5, Len(b)}) :
                 fits(n) /\ \A i \in 2 .. n : b[Len(b) - i + 1] >= 128}
  IN IF b = <<>> THEN {} ELSE IF Last(b) = 0 THEN {1} ELSE IF lens = {} THEN {} ELSE {Max(lens)}

(* str::trim and str::to_lowercase. *)
TrimLower(s) ==
  LET kept == {i \in DOMAIN s : s[i] # 32}
      word == IF kept = {} THEN <<>> ELSE SubSeq(s, Min(kept), Max(kept))
  IN [i \in DOMAIN word |-> IF word[i] \in 65 .. 90 THEN word[i] + 32 ELSE word[i]]

(* The commands that are added, besides /server. *)
RootLiterals(servers) ==
  LET add(known, name) ==
        IF name \in {<<>>, Word.server} \cup ToSet(known) THEN known ELSE Append(known, name)
      after[i \in 0 .. Len(servers)] ==
        IF i = 0 THEN <<Word.hub, Word.lobby, Word.steel>>
        ELSE add(after[i - 1], TrimLower(servers[i]))
  IN after[Len(servers)]

(* /server <name>, its argument completed by the server, and the other commands. *)
ProxyNodes(count, literals) ==
  <<5>> \o encode_varint(1) \o encode_varint(count + 1) \o Text(Word.server)
    \o <<22>> \o encode_varint(0) \o Text(Word.name) \o encode_varint(5) \o encode_varint(0)
    \o Text(Word.ask_server)
    \o FlattenSeq([i \in DOMAIN literals |-> <<5>> \o encode_varint(0) \o Text(literals[i])])

(* Mutant of ProxyChildren: the argument of /server is taken for the first command. *)
ProxyChildrenShifted(count, literals) ==
  <<count>> \o [i \in DOMAIN literals |-> count + i]

(* The indices of the commands among them; the argument of /server is not one. *)
ProxyChildren(count, literals) ==
  <<count>> \o [i \in DOMAIN literals |-> count + 1 + i]

(* A tree that does not begin with its root, or cannot be read, is passed on as it is. *)
inject_proxy_commands_into_declare_commands(raw, v, servers) ==
  LET count == GetVarInt(Start(raw.payload))
      flags == GetU8(count)
      head  == GetMany(flags, MaxInt32, GetVarInt)
      rest  == head.rest
      lits  == RootLiterals(servers)
      ends  == TrailingRoot(rest, count.val)
      cut   == Len(rest) - Only(ends)
      children == head.val \o ProxyChildren(count.val, lits)
  IN IF v < 393 \/ raw.id \notin is_declare_commands_packet(v) \/ ~head.ok THEN raw
     ELSE IF count.val <= 0 \/ flags.val # 0 \/ ends = {} THEN raw
     ELSE RawPacket(raw.id,
            encode_varint(count.val + 2 + Len(lits)) \o <<0>> \o Many(children, encode_varint)
              \o SubSeq(rest, 1, cut) \o ProxyNodes(count.val, lits)
              \o SubSeq(rest, cut + 1, Len(rest)))

-----------------------------------------------------------------------------
(* Packets that are sent, as their kind and their value. *)
Of(kind, values) == [kind : {kind}, val : values]

PropertyLists ==
  LET plain == [name |-> Word.name, value |-> Word.hub, signature |-> <<>>]
  IN {<<>>, <<plain, [plain EXCEPT !.signature = <<Word.steel>>]>>}

Worlds ==
  [dimension : {2}, dimension_type : {Word.hub}, dimension_name : {Word.lobby},
   hashed_seed : {Seed}, gamemode : {1}, previous_gamemode : {-1, 0}, is_debug : {FALSE},
   is_flat : {TRUE}, portal_cooldown : {300}, sea_level : {-1},
   death : Opts({[dimension |-> Word.hub, position |-> Seed]}),
   is_hardcore : {FALSE}, dimension_names : {<<>>, <<Word.hub, Word.lobby>>},
   max_players : {200}, do_limited_crafting : {TRUE}]

Sendable ==
       Of("Handshake", [protocol_version : {47, 776}, server_address : Names,
                        server_port : {25565}, next_state : {"Status", "Login"}])
  \cup Of("LoginStart", [username : Names, player_uuid : Uuids])
  \cup Of("EncryptionRequest", [server_id : {<<>>}, public_key : Names, verify_token : {<<9, 9>>},
                                should_authenticate : BOOLEAN])
  \cup Of("EncryptionResponse", [shared_secret : Names, verify_token : Names])
  \cup Of("LoginSuccess", [uuid : Uuids, username : Names, properties : PropertyLists,
                           session_id : Opts(Uuids)])
  \cup Of("LoginAcknowledged", {<<>>})
  \cup Of("SetCompression", [threshold : Numbers])
  \cup Of("PluginRequest", [message_id : {300}, channel : Names, data : {<<>>, <<4>>}])
  \cup Of("PluginResponse", [message_id : {7}, successful : BOOLEAN, data : {<<>>, <<4>>}])
  \cup Of("Velocity", [client_ip : {Word.hub}, id : Uuids, name : Names, properties : PropertyLists])
  \cup Of("RegistryData", [registry_id : Names, raw_data : {<<10, 0>>}])
  \cup Of("ChatCommand", [command : Names])
  \cup Of("TabCompleteRequest", [transaction_id : Numbers, text : {Word.hub}])
  \cup Of("TabCompleteResponse", [transaction_id : {300}, start : {0}, length : {1},
                                  matches : {<<>>, <<Word.hub, Word.lobby>>}])
  \cup Of("Respawn", [dimension_type : Names, dimension_name : {Word.lobby}, hashed_seed : {Seed},
                      gamemode : {1}, previous_gamemode : {-1, 0}, is_debug : {FALSE},
                      is_flat : {TRUE}, data_kept : {0, 3}])
  \cup Of("SystemChat", [message : Names \cup {<<>>}, overlay : BOOLEAN])
  \cup Of("CloseContainer", [window_id : {0, 255}])
  \cup Of("StopSound", {[flags |-> 0, source |-> <<>>, sound |-> <<>>],
                        [flags |-> 1, source |-> <<200>>, sound |-> <<>>],
                        [flags |-> 2, source |-> <<>>, sound |-> <<Word.hub>>],
                        [flags |-> 3, source |-> <<2>>, sound |-> <<Word.hub>>]})
  \cup Of("BossBar", [uuid : Uuids, action : {0, 1, 200}])
  \cup Of("Objective", [name : Names, action : 0 .. 2])
  \cup Of("DisplayObjective", [position : {0, 18}, name : Names])
  \cup Of("Login", Worlds)
  \cup Of("DeclareCommands", Trees)

Encode(x, v) ==
  CASE x.kind = "Handshake"           -> encode_handshake(x.val)
    [] x.kind = "LoginStart"          -> encode_login_start(x.val)
    [] x.kind = "EncryptionRequest"   -> encode_encryption_request(x.val, v)
    [] x.kind = "EncryptionResponse"  -> encode_encryption_response(x.val)
    [] x.kind = "LoginSuccess"        -> encode_login_success(x.val, v)
    [] x.kind = "LoginAcknowledged"   -> encode_login_acknowledged
    [] x.kind = "SetCompression"      -> encode_set_compression(x.val)
    [] x.kind = "PluginRequest"       -> encode_plugin_request(x.val)
    [] x.kind = "PluginResponse"      -> encode_plugin_response(x.val)
    [] x.kind = "Velocity"            ->
         encode_plugin_response([message_id |-> 7, successful |-> TRUE,
                                 data |-> create_velocity_response_data(x.val, x.val.client_ip)])
    [] x.kind = "RegistryData"        -> encode_registry_data(x.val)
    [] x.kind = "ChatCommand"         -> encode_chat_command(x.val, v)
    [] x.kind = "TabCompleteRequest"  -> encode_tab_complete_request(x.val, v)
    [] x.kind = "TabCompleteResponse" -> encode_tab_complete_response(x.val, v)
    [] x.kind = "Respawn"             -> encode_respawn(x.val, v)
    [] x.kind = "SystemChat"          -> encode_system_chat(x.val, v)
    [] x.kind = "CloseContainer"      -> encode_close_container(x.val, v)
    [] x.kind = "StopSound"           -> encode_stop_sound(x.val, v)
    [] x.kind = "BossBar"             -> encode_boss_bar(x.val, v)
    [] x.kind = "Objective"           -> encode_objective(x.val, v)
    [] x.kind = "DisplayObjective"    -> encode_display_objective(x.val, v)
    [] x.kind = "Login"               -> WriteLogin(x.val, v)
    [] x.kind = "DeclareCommands"     -> WriteTree(x.val, v)

(* What the receiver makes of it: the packet it reads or, of the two packets that are
   rewritten, the one that goes on to the client. *)
Decode(kind, raw, v) ==
  CASE kind = "Handshake"           -> decode_handshake(raw)
    [] kind = "LoginStart"          -> decode_login_start(raw)
    [] kind = "EncryptionRequest"   -> decode_encryption_request(raw)
    [] kind = "EncryptionResponse"  -> decode_encryption_response(raw)
    [] kind = "LoginSuccess"        -> decode_login_success(raw, v)
    [] kind = "LoginAcknowledged"   -> decode_login_acknowledged(raw)
    [] kind = "SetCompression"      -> decode_set_compression(raw)
    [] kind = "PluginRequest"       -> decode_plugin_request(raw)
    [] kind = "PluginResponse"      -> decode_plugin_response(raw)
    [] kind = "Velocity"            ->
         LET x == decode_plugin_response(raw)
         IN IF x.ok THEN ReadVelocityData(x.val.data) ELSE Failed
    [] kind = "RegistryData"        -> decode_registry_data(raw)
    [] kind = "ChatCommand"         -> decode_chat_command(raw, v)
    [] kind = "TabCompleteRequest"  -> decode_tab_complete_request(raw, v)
    [] kind = "TabCompleteResponse" -> decode_tab_complete_response(raw, v)
    [] kind = "Respawn"             -> decode_respawn(raw, v)
    [] kind = "SystemChat"          -> decode_system_chat(raw, v)
    [] kind = "CloseContainer"      -> decode_close_container(raw, v)
    [] kind = "StopSound"           -> decode_stop_sound(raw, v)
    [] kind = "BossBar"             -> decode_boss_bar(raw, v)
    [] kind = "Objective"           -> decode_objective(raw, v)
    [] kind = "DisplayObjective"    -> decode_display_objective(raw, v)
    [] kind = "Login"               -> Got(RespawnFor(raw, v), <<>>)
    [] kind = "DeclareCommands"     ->
         Got(inject_proxy_commands_into_declare_commands(raw, v, CustomServers), <<>>)

(* Before 1.13 there is no command tree. *)
Exists(x, v) == x.kind = "DeclareCommands" => v >= 393

(* What a backend sends is a tree, in which the root alone has the type of a root, and no
   packet is longer than readers accept. *)
ASSUME TreesAssumption ==
  \A t \in Trees :
    /\ t.nodes \in Seq(ToSet(t.nodes)) /\ Len(t.nodes) <= MaxPacketSize
    /\ t.root \in 0 .. Len(t.nodes) - 1
    /\ \A i \in DOMAIN t.nodes :
         IsNode(t.nodes[i], Len(t.nodes)) /\ (t.nodes[i].flags % 4 = 0 <=> i = t.root + 1)
ASSUME SizesAssumption ==
  \A x \in Sendable, v \in Versions :
    Exists(x, v) => Len(Encode(x, v).payload) <= MaxPacketSize - 11

-----------------------------------------------------------------------------
(* A packet is sent in a frame.  Its writer may have stopped after n bytes of the
   payload. *)
Send(x, n, threshold) ==
  LET raw == Encode(x, protocol_version)
  IN /\ Exists(x, protocol_version) /\ n <= Len(raw.payload)
     /\ wire' = [at |-> "sent", sent |-> x, threshold |-> threshold,
                 cut |-> n < Len(raw.payload),
                 raw |-> RawPacket(raw.id, SubSeq(raw.payload, 1, n)),
                 bytes |-> encode_packet_with_compression(
                             RawPacket(raw.id, SubSeq(raw.payload, 1, n)), threshold)]
     /\ UNCHANGED <<protocol_version, packet, effects>>

Receive ==
  /\ wire.at = "sent"
  /\ LET r == read_packet_with_compression(wire.bytes, MaxPacketSize, wire.threshold)
     IN wire' = [at |-> "received", sent |-> wire.sent, cut |-> wire.cut, raw |-> wire.raw,
                 arrived |-> r,
                 read |-> IF r.ok THEN Decode(wire.sent.kind, r.val, protocol_version) ELSE Failed]
  /\ UNCHANGED <<protocol_version, packet, effects>>

Done ==
  /\ wire.at = "received"
  /\ wire' = Idle
  /\ UNCHANGED <<protocol_version, packet, effects>>

CodecInit == Init /\ wire = Idle

Ready == packet = None /\ wire = Idle

Complete(x) == Len(Encode(x, protocol_version).payload)

CodecNext ==
  \/ wire = Idle /\ Next /\ UNCHANGED wire
  \/ Ready /\ \E x \in Sendable, t \in Thresholds : Send(x, Complete(x), t)
  \/ Ready /\ \E x \in Sendable :
       x.kind # "DeclareCommands" /\ \E n \in 0 .. Complete(x) - 1 : Send(x, n, <<>>)
  \/ Receive \/ Done

CodecSpec == CodecInit /\ [][CodecNext]_codecVars

-----------------------------------------------------------------------------
(* What of a packet survives its layout in version v. *)
Expected(x, v) ==
  CASE x.kind = "EncryptionRequest" ->
         [x.val EXCEPT !.should_authenticate = @ \/ v < 766]
    [] x.kind = "LoginSuccess" ->
         [uuid |-> x.val.uuid, username |-> x.val.username,
          properties |-> IF v >= 759 THEN x.val.properties ELSE <<>>,
          session_id |-> CASE v < 776                             -> <<>>
                           [] v >= 776 /\ x.val.session_id = <<>> -> <<Nil>>
                           [] v >= 776 /\ x.val.session_id # <<>> -> x.val.session_id]
    [] x.kind = "PluginResponse" ->
         [x.val EXCEPT !.data = IF x.val.successful THEN @ ELSE <<>>]
    [] x.kind = "Velocity" -> 
         [version |-> 4, client_ip |-> x.val.client_ip, id |-> x.val.id, name |-> x.val.name,
          properties |-> x.val.properties]
    [] x.kind = "Respawn" ->
         [x.val EXCEPT !.dimension_type = IF v >= 766 THEN x.val.dimension_name ELSE @]
    [] OTHER -> x.val

Rewritten == {"Login", "DeclareCommands"}

(* A frame delivers the packet that was put into it and takes no other byte, at every
   threshold, also at the lengths where compression starts. *)
FramesDelivered ==
  wire.at = "received" => wire.arrived = Got(wire.raw, <<>>)

(* What one end writes the other end reads, although each has its own tests of the
   protocol version for layouts and ids.  The one exception is LoginSuccess from 707 to
   758: the encoder adds properties there and the decoder takes none. *)
RoundTrip ==
  wire.at = "received" /\ ~wire.cut /\ wire.sent.kind \notin Rewritten =>
    \/ wire.read.ok /\ wire.read.val = Expected(wire.sent, protocol_version)
    \/ wire.sent.kind = "LoginSuccess" /\ protocol_version \in 707 .. 758

(* The fields that a reader can do without, and what it may take them for. *)
Tolerated(kind, field, got, full) ==
  CASE kind = "LoginStart" /\ field = "player_uuid"                -> got = Nil
    [] kind = "EncryptionRequest" /\ field = "should_authenticate" -> got
    [] kind = "LoginSuccess" /\ field = "properties"               -> got = <<>>
    [] kind = "SystemChat" /\ field = "overlay"                    -> ~got
    [] field \in {"data", "raw_data"}                              -> IsPrefix(got, full)
    [] OTHER                                                       -> FALSE

(* The one packet of which a reader makes up a field: the loop over the tags of a chat
   message stops where the text is cut, without an error, and the byte it stopped at is
   taken for the overlay.  The text is lost then. *)
TextLost(kind, got, v) == kind = "SystemChat" /\ v >= 766 /\ got.message = <<>>

(* A payload that stops short is refused, or read as what was sent but for the fields
   that may be left out.  No reader takes the bytes of one field for another, but for
   decode_system_chat, which does so from 766 on and then has no text: it never has a
   text other than the one that was sent. *)
CutNeverForged ==
  wire.at = "received" /\ wire.cut /\ wire.sent.kind \notin Rewritten =>
    LET full == Expected(wire.sent, protocol_version)
        got  == wire.read.val
    IN wire.read.ok =>
         \/ \A f \in DOMAIN full :
              got[f] = full[f] \/ Tolerated(wire.sent.kind, f, got[f], full[f])
         \/ TextLost(wire.sent.kind, got, protocol_version)

(* r is a Respawn in the world of a Login (Play). *)
SameWorld(r, login) ==
  /\ r.ok /\ r.val.data_kept = 3
  /\ \A f \in DOMAIN r.val \ {"data_kept"} : r.val[f] = login[f]

(* A transferred player is put into the world his new backend announced: from 766 on the
   Respawn has the bytes of that world, in 764 and 765 it is read as that world.  A
   Login (Play) that stops short leads there too, or to the default world. *)
RespawnMatchesLogin ==
  LET v     == protocol_version
      login == wire.sent.val
      reset == encode_respawn(default_reset(3), v)
      right == IF v >= 766
               THEN wire.read.val = RawPacket(RespawnId(v), WriteSpawnInfo(login, v) \o <<3>>)
               ELSE SameWorld(decode_respawn(wire.read.val, v), login)
  IN wire.at = "received" /\ wire.sent.kind = "Login" /\ v >= Supported
     => right \/ (wire.cut /\ wire.read.val = reset)

(* r is the tree `old' with /server and the commands `literals' under its root. *)
Extends(r, old, literals) ==
  LET n     == Len(old.nodes)
      new   == r.val.nodes
      added == {i \in n + 1 .. Len(new) : new[i].flags % 4 = 1}
  IN /\ r.ok /\ r.val.root = old.root
     /\ SubSeq(new, 2, n) = SubSeq(old.nodes, 2, n)
     /\ IsPrefix(old.nodes[1].children, new[1].children)
     /\ ToSet(new[1].children) = ToSet(old.nodes[1].children) \cup {i - 1 : i \in added}
     /\ \A i \in DOMAIN new : \A c \in ToSet(new[i].children) : c \in 0 .. Len(new) - 1
     /\ {new[i].name : i \in added} = {Word.server} \cup ToSet(literals)
     /\ \A i, j \in added : new[i].name = new[j].name => i = j
     /\ \A i \in added : new[i].name = Word.server =>
          /\ Len(new[i].children) = 1
          /\ LET arg == new[new[i].children[1] + 1]
             IN arg.name = Word.name /\ arg.suggestions = Word.ask_server

(* The tree the client reads is the backend's tree with the proxy's commands under its
   root: no node is moved or lost, every child is a node, /server has its argument, and
   each name is there once.  A tree that does not begin with its root is left alone. *)
InjectionSound ==
  wire.at = "received" /\ wire.sent.kind = "DeclareCommands" =>
    IF wire.sent.val.nodes[1].flags # 0 THEN wire.read.val = wire.raw
    ELSE Extends(ReadTree(wire.read.val), wire.sent.val, RootLiterals(CustomServers))
=============================================================================
