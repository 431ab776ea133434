# FrameMC in TLA+

FrameMC is a Minecraft proxy: clients connect to it, it authenticates them, logs
them in to a backend server, and from then on routes their packets. Scripts may
move a player to another backend while he stays connected, and the loss of a
backend moves him to the default one. This directory holds a specification of
the proxy's own logic, TLC configurations that check it on small instances, and
TLAPS proofs that hold for all instances.

Paths below are relative to the repository's `src/` directory unless they start
with `docs/`.

## 1. The system

| Part | State | Operations | Module |
|---|---|---|---|
| Accept loop and process (`network/listener.rs`, `main.rs`) | semaphore of `max_players` permits, one task per client, shutdown watch channel | accept or drop, spawn, return of a task, signal, end of `main` | `Listener` |
| Join (`process_connection`, `handle_login_auth`, `protocol/status.rs`, `protocol/forwarding.rs`) | protocol stage, profile, whether the stream is encrypted, compression threshold, two "finished" flags | handshake, status ping, login, encryption, session check, join hook, backend login, forwarding, Configuration bridging, every refusal and timer | `Join` |
| Play state (`routing/state_machine.rs`) | two streams and their thresholds, `PlayerSession`, trackers of what is on the client's screen, registry cache | `run`, `handle_client_packet`, `handle_backend_packet`, `handle_backend_eof`, `switch_server`, `teardown_transferred_state` | `PlaySession`, `SessionPromise` |
| Packet identification (`is_*_packet`, `packet_id_for_version`) | none | two chains of id tests over tables by protocol version | `PacketDispatch` |
| Encrypted stream (`crypto/aes.rs`) | pending ciphertext and a cursor into it, two cipher states | `poll_read`, `poll_write`, `poll_flush`, `poll_shutdown` | `EncryptedStream` |
| Framed reads under a select (`network/codec.rs`, `run`) | what a pending read has taken from its stream | length, body, select, drop | `FramedRead` |
| Script host (`script/engine.rs`, `script/events.rs`) | the list of plugins and the main script, compiled, each behind a read-write lock | load at start, load or reload later, join, command and tab-complete hooks | `ScriptHost` |
| VarInts and frames (`protocol/varint.rs`, `network/codec.rs`) | none | encode, decode, compress above a threshold | `Frames` |
| Packet codecs, command tree, Login (Play) to Respawn (`protocol/`, `routing/state_machine.rs`) | none | conversions of bytes by protocol version | `Codec`, `PacketCodec` |
| Authentication (`crypto/`), configuration file | keys | cryptography, HTTP, parsing | not modelled |

**How the parts interact.** `main` starts the listener and a task that turns a
signal into a value of the watch channel. The listener spawns a task per client;
the task runs the join and then `PlayStateMachine::run`, in sequence, and gives
its permit back when it returns. Within a task nothing is concurrent, but three
parties share every session: the client and the backend move on their own while
the task awaits one of them, and `tokio::select!` picks among those that are
ready. The script host is shared by all sessions: each calls it and awaits the
answer, while a load may replace the scripts. The shutdown channel is read by
some awaits and not by others; that is why `Listener` and `PlaySession` keep
apart the stages that watch it.

**What is hard here.**

* *Crossing packets.* What the client sends was sent before it saw what the proxy
  wrote last: a close of one window arrives after the next was opened.
* *Transfers that fail half-way.* `switch_server` has five ways to give up, each
  after some of its effects.
* *Framing.* Encryption and compression change in the middle of a conversation
  of three parties, and each of the many error paths writes one more packet.
* *Partial writes and dropped reads.* The socket may take a part of a chunk; the
  select may drop a read that holds a part of a frame.
* *Two locks.* An evaluation of a hook waits for the main script while it holds
  the plugins, and tokio's locks let a waiting writer bar the readers behind it.
* *Layouts.* A packet's encoder and its decoder test the protocol version each on
  their own, fields are optional, and two packets are rewritten in place.
* *Silence.* Some waits have a timer and some have not; no write has one, so a peer
  that stops reading holds its session.
* *Tables.* Packet ids differ by protocol version, and most tests in the handlers
  do not return: an id that two tests claim is handled twice.

`PROJECT.json` lists these as hazards, each at its line, with the properties that
would notice if it went wrong.

## 2. The modules

Names follow the code. Client and backend are the environment of every module:
they keep to the protocol, fall silent, close, and are as slow as they like. They
are marked *external* in the map, as is the arrival of signals.

### PlaySession

One session from `PlayStateMachine::new` on. `pc` is where the task is: in the
select of `run`, in one of the stages of `switch_server` (`connect`, `login`,
`config`, `finish`), or past the end. While it is in `switch_server` only the target,
the timer and the environment move, as in the code.

Every `write_packet_with_compression` is awaited, none under a timer. `waiting` names
the peer whose reading the task's pending write waits for, and how an error of that
write is taken: `client` and `backend` under `?`, which ends `run`, `client_anyway`
where the error is ignored (notices, `teardown_transferred_state`, the shutdown
notice), `target` where it gives up the transfer. While a write is pending no read is
polled, no timer of a read runs and the shutdown channel is not watched: every action
of the task but `WriteDone` and `WriteFails` is guarded by `At`. A handler's action
stands for all of it, and leaves `waiting` at nobody or at the peer of the write it
stays with. Its effects are then the task's own, which no other party can tell from
effects after the write; where one can, as between the acknowledgement of
FinishConfiguration and the reattachment, the write is a stage (`finish`).

`backend` and `new_backend` are streams with an identity, so a widget or a window can
be traced to the connection that put it on the screen (`hud`, `screen`, `world` are what the client shows;
`active`, `open_container_id` are the trackers). `active` stands for the four
trackers that work alike: boss bars, objectives, display slots and looping audio.
`open_container_id` is a `u8` in the code and keeps its width. Packet contents are
left out; of a client packet the model keeps whether it closes a window, is a
command, or is anything else.

| Code | Action |
|---|---|
| entry of `switch_server`, unknown target | `switch_server(target, reason)` |
| `TcpBackendConnector::connect` | `ConnectOk`, `ConnectFails`, `LoginOk`, `LoginFails`, `LoginEof` |
| Configuration loop | `ConfigPacket(id)`, `ConfigAcknowledge`, `ConfigFinish`, `ConfigFails`, `Tick`, `ConfigTimeout` |
| steps 3 and 4 of `switch_server` | `Reattach` (with `teardown_transferred_state`) |
| `Ok(false)` and its callers | `FailSwitch` |
| `handle_client_packet` | `HandleClose`, `HandleCommand`, `HandleOther` |
| `handle_backend_packet` | `BackendLogin`, `BackendOther`, `BackendShow`, `BackendHide`, `BackendOpenWindow`, `BackendCloseWindow`, `BackendDisconnect` |
| `handle_backend_eof` | `BackendEof` |
| remaining arms of `run` | `ClientLost`, `ShutdownArm` |
| `write_packet_with_compression` that was pending returns | `WriteDone`, `WriteFails` |

### SessionPromise

What a player may expect, without streams, stages or timers: he is on one server,
may set out for another, and then arrives with an empty screen or stays as he was;
only the loss of his server forces a transfer, always to the default server, and
only such a transfer can end the session. `PlaySession!ImplementsPromise` is the
refinement (`INSTANCE ... WITH`).

### Join

`process_connection` up to the hand-off. The proxy's view of the conversation
(`encrypted`, `compression_threshold`, `stage`) is kept apart from what the two
peers really expect (`client.framing`, `client.state`, `backend.threshold`,
`backend.state`); a packet that reaches its reader in another framing or another
protocol state ends up in that reader's `missed`. What the proxy writes arrives at
once, what the peers send waits in queues of at most `MaxQueue` packets. `HangUp`
is every silent error return, `Refuse` every path that says why first. The status
ping (`HandleStatus`) is a branch of it.

### Listener

All clients at once, each reduced to whether its task watches the shutdown
channel; the semaphore; the accept loop; and the end of the process, which does
not wait for the tasks.

### PacketDispatch

The id tables of all versions and the effects of the two handlers for a packet of
a given id. It is what lets `PlaySession` take a packet to be of one kind. What a
sender means by an id is read from the tables, and for commands and chat below 766
from the constants at `state_machine.rs:21-25`, with which the handler's own test at
line 2332 disagrees.

### Frames, Codec and PacketCodec

`Frames` has VarInts with their 32 bits and frames with and without compression.
`read_packet_with_compression` takes a frame off the front of the stream and leaves
the rest; `Opened` is its second half, from the body to the packet. Zlib is external:
two functions inverse to one another, of which the proofs use nothing else.

`Codec` adds the writers and readers of fields. Lengths matter, so bytes are kept, but
a text is one of a few short ones. A reader takes what the reader before it handed
back and goes on from there, as the cursor does in every `decode`: it takes its field,
and fails if that is not all there or if something before it has failed.

`PacketCodec` has one encoder and one decoder per packet, under the names of the
code (`encode_login_success` is `LoginSuccessPacket::encode_with_version`), and the
two rewriters `extract_respawn_from_login_with_data_kept` and
`inject_proxy_commands_into_declare_commands`. It extends `PacketDispatch` with a
conversion under way: `Send` puts a packet, whole or stopped short, into a frame,
`Receive` takes it out and decodes or rewrites it. How a client reads a Respawn or a
command tree (`WriteSpawnInfo`, `ReadTree`) is the reference, and external.

### ScriptHost

`plugins` and `ast`, the two locks with their holders and waiters (`held`, `queue`,
tokio's queue being first in, first out), and what each task is doing. A load reads
and compiles its file before it asks for the lock, so `Load` is one step and
`Install` another. An evaluation goes plugin by plugin (`SkipPlugin`, `CallPlugin`),
awaits the main script with the guard on the plugins still held (`AwaitMain`) and
runs it (`CallMain`). A script is, for each hook, the set of outcomes it may have:
maps, arrays, values of a wrong type, a loop. `trace` records which scripts have run
and in which turn, for the properties only.

| Code | Action |
|---|---|
| `load_plugins_dir`, `main` | `BootLoad`, `BootSkip` |
| `load_plugin_file`, `load_script`, `reload` | `Load`, `Install` |
| `eval_join`, `eval_command`, `eval_tab_complete` | `Ask`, then `Evaluate`: `SkipPlugin`, `CallPlugin`, `AwaitMain`, `CallMain` |
| `process_connection`, `handle_client_packet` use the result | `Take` |

### EncryptedStream

One step per `poll_` method, with an inner socket that takes any part of what it
is offered or fails. CFB8 is abstracted to positions: a byte comes out right if it
was encrypted at the position at which it is decrypted.

### FramedRead

The two reads of one turn of `run`'s select, unit by unit; the one that completes
drops the other with what it had taken. A side that meets a length the code refuses
stops; that the session fails over then is in `PlaySession` (`BackendEof`).

### How they compose

`Listener` contains one `Join` followed by one `PlaySession` per client, as its
stages; `Join!HandOff` is what `PlaySession!Init` assumes (both peers in Play, one
threshold for both legs). Both call `ScriptHost` and take any answer it can give.
`PacketDispatch` justifies the packet kinds of `PlaySession`, `PacketCodec` that a
packet means to its reader what it meant to its writer, `EncryptedStream` and `FramedRead` the reliable, framed streams that
`Join` and `PlaySession` take for granted; `framed_read_select` shows where that
assumption does not hold.

## 3. The runs

| Run | Shows |
|---|---|
| `play_safety` | no widget of an earlier backend stays on screen (`NoResidue`); one Login (Play) per client (`LoginAtMostOnce`); thresholds and server name follow the attached stream (`FramingAgrees`, `CurrentServerIsAttached`); a tracked window is shown or being closed (`TrackedWindowIsShown`); `PlaySession` refines `SessionPromise`; `IInv`, used in the proofs |
| `play_live` | a lost backend is acted upon, also when `default_server` is not configured unless the task stays with a write for ever (`LossNoticed`); a transfer ends (`TransferEnds`) and so does a session that is told to shut down (`ShutdownEnds`), unless a peer holds it in one of the three ways that no timer ends (`HeldByPeer`): it does not read what is written to it, it is a target that does not answer the login, or one that never stops sending Configuration packets |
| `join` | every packet is understood by its reader (`WritesUnderstood`, `ReadsUnderstood`); `HandOff`; only a verified player reaches a backend (`OnlyVerified`); only the backend's login and the bridging can hold a join for ever (`HeldOnlyUntimed`) |
| `listener` | permits balance (`PermitsBalance`); clients are turned away only when all permits are out (`RejectedOnlyWhenFull`); a signal ends the process (`SignalEndsProcess`) |
| `dispatch` | each id test claims the packets of one kind only, and what the handlers do is what the sender meant, but for the chat of 764 and 765 (`OneRole`); the proxy's own packets are told apart (`OwnPacketsDistinct`); frames deliver what was put into them at every threshold (`FramesDelivered`); decoders read what encoders write, in every version (`RoundTrip`); a payload that stops short is refused or read right, or is a chat message from 766 on and then read without its text (`CutNeverForged`); a transferred player's Respawn is of the world that Login (Play) announced (`RespawnMatchesLogin`); the injected command tree is the backend's with the proxy's commands added (`InjectionSound`) |
| `script_host` | an evaluation sees one version of the plugins although they are reloaded (`SeesOneVersion`); what a session is told follows the documented rules, suggestions in the order of the hooks that made them (`AnswerFollowsRules`); reloads keep the order of the plugins (`OrderKept`); every hook comes back and every load ends, although scripts loop and both locks have waiters (`EveryAskAnswered`, `EveryLoadEnds`) |
| `encrypted_stream` | ciphertext reaches the socket once and in order, and is all there after a flush (`InSync`, `NothingLost`, `FlushedIsSent`); reads are decrypted in place (`ReadInSync`) |
| `framed_read` | a side whose reads were not dropped half-way yields its frames (`IntactUnlessDropped`) |
| `play_window` (violated) | a late close of one window clears the tracker of the next; a transfer then leaves a stale window |
| `play_first_login` (violated) | a player moved before his first Login (Play) gets a Respawn as his first Play packet |
| `play_failover` (violated) | a write to a closed backend ends the session before its end of stream is seen, without failover |
| `framed_read_select` (violated) | the select drops a half-done read, and the rest of that frame is taken for a frame |

The violated ones each state a sentence of the documentation or of a comment;
`PROJECT.json` quotes it under "findings".

### Bounds

* `play_safety`: two servers; versions 763 (no Configuration state) and 766; one
  widget, as the four trackers are alike and independent; one
  window, 300, which does not fit the `u8` it is kept in (`play_window` has two);
  two framings; three connection
  identities (attached, target, and the one whose world or window is still on the
  screen), reused once nothing refers to them, so chains of transfers are unbounded;
  two client
  packets on the way, enough for a close and a command to cross. Identities are
  interchangeable (`ConnSymmetry`).
* `play_live`: no symmetry; no widgets or windows, which no liveness property
  mentions; one registry; versions 763 and 765; `Default` is not a configured server, the case
  `play_safety` leaves out.
* `join`: versions on both sides of the two boundaries the code tests (764, 766),
  every configuration (online mode, forwarding, unknown default), one threshold
  besides none, two packets of each peer on the way.
* `listener`: four clients for two permits, so a client is turned away and comes
  again; no symmetry, because of liveness.
* `dispatch`: every version from 764 to one past the last boundary (777), and 706,
  758 and 763 on the near sides of the boundaries below; ids 0 to 127 (the largest
  id in the tables is below). Numbers on both sides of each length of a VarInt and of
  zero; a name of one character and one of sixteen; every place where a payload may
  stop short, at no threshold; whole packets with no compression and at thresholds
  0, 3 and 18, so that packets are below, at and above it. Four command trees: a bare
  root, one with an argument and a redirection whose last name ends in a byte above
  127, one whose root comes last, and one of 128 nodes, where indices become two
  bytes long.
* `script_host`: a client that joins and one that plays, `main`, and one task that
  loads; two plugin files and the main script. Three tasks can meet at each lock, so
  a reader waits behind a writer that waits behind a reader; the second file may hold
  either of two scripts, so a reload changes what it does.
* `encrypted_stream`: chunks of at most 3 bytes and 6 bytes in all: a write is
  split, partly taken, buffered and resumed.
* `framed_read`: two frames of one or two units per side: a read can be dropped
  before its length, after it, and inside the body.

`ReadTimeout` (two ticks) stands for the 10 s timer of a Configuration read.
Deadlock is checked except in `FramedRead`, where peers stop sending.

### Fairness

* `PlaySession`: timers fire and time passes (`Tick`, `ConfigTimeout`,
  `ConnectFails`, which has a 10 s timer), the end of the target's stream is reported
  (`LoginEof`), and the task goes on after its last write to the target
  (`ConfigFinish`). Strong fairness for the arms of the select, `BackendEof`,
  `ClientLost` and `ShutdownArm`: `tokio::select!` chooses at random among the ready
  arms, so an arm that is ready again and again is taken, although the task may be
  with a write or in `switch_server` in between; `BackendEof` also because what a
  closed backend has left in its socket is little. There is no fairness of `WriteDone`
  or `WriteFails`, nor of any action of the environment: client and backends may stop
  sending, and stop reading, for ever. Scripts are answers here; that each hook comes
  back is `ScriptHost!EveryAskAnswered`.
* `Join`: timers (`Timeout`, `AuthenticationFails`, `ConnectFails`) and the join
  hook's return: the engine stops a script after 50,000 operations.
* `ScriptHost`: a task that can go on does (tokio runs ready tasks, a hook is stopped
  after 50,000 operations, and the locks serve their waiters in order). Nothing is
  assumed of how often sessions ask or files are loaded. Loads after start-up are
  the host's public interface (docs/SCRIPTING.md:53 "no restart needed if using dynamic
  reloads"); nothing in `main` calls it today.
* `Listener`: strong fairness of the loop's shutdown arm, for the same reason, and
  `main` goes on once the loop has ended.

## 4. The proofs

They hold for every value of the constants that satisfies the named assumptions
(`Default` need not be a configured server; versions, windows, widgets, registries,
thresholds, clients, chunk size, frames, scripts and tasks are arbitrary). Two
assumptions only keep a "none" apart from the rest: `Join!NoBackendAssumption` and
`ScriptHost!ScriptsAssumption` (no file compiles to the empty AST that stands for "no
script yet").

* `PlaySessionProofs`: `InvariantHolds` (`Spec => []IInv`), and from it
  `TypeCorrect`, `ResidueFree`, `SingleLogin`, `FramingCorrect`,
  `ServerNameCorrect`; `WindowTracked`; and `PromiseKept`, the refinement of
  `SessionPromise`. `NoResidue` is not inductive: a transfer removes only what is
  tracked, so `WidgetInv` adds that what is shown is tracked. `LoginAtMostOnce`
  needs `LoginInv`: after the first Login (Play) the client is in the attached
  backend's world, or `server_transferred` is set. `TransferInv` says that the
  locals of `switch_server` describe a transfer exactly while there is one, and
  that a target is never the connection already rendered. `WaitInv` says in which
  stages a write under `?` may pend, on which the refinement rests: a script's message
  that cannot be written ends the session before `switch_server` is entered, so the
  promise sees no transfer yet (`Aim`). `TrackedWindowIsShown`
  is inductive given `IInv`, with two lemmas on what the client's queue keeps.
  One lemma per group of steps (`TransferStep`, `RunLoopStep`,
  `EnvironmentStep`), resting on one per shared step (`CloseStep`, `ReattachStep`,
  ...).
* `JoinProofs`: `TypeCorrect`, `PeersUnderstand`, `ProxyUnderstands`, `HandedOver`,
  `BackendsHearOfVerified`. Whether a packet is understood depends on what its sender
  knew when it was sent, so the invariant relates three views. `ProxyInv` says what
  the proxy's own fields are in each stage; `ClientInv` and `BackendInv` say in which
  framing and protocol state each peer is for each stage of the proxy, and which
  packets may follow one another in the queue of what it has sent, each in the framing
  that the one before it left in force. Every action is then taken against each view.
* `ScriptHostProofs`: `TypeCorrect`, `OneVersionSeen`, `OrderOfPluginsKept` and
  `AnswersFollowRules`. `SeesOneVersion` needs to know why no load interferes:
  `LockOK` (a writer holds a lock alone, nobody waits for what he holds),
  `PlayersPlaced` and `WritersPlaced` (who holds or awaits which lock is what the
  state of the evaluations and the loads says) and `Waiting` (who awaits the plugins
  has not begun). tokio's lock is a chapter of its own: `Enters`, `Queues`, `Leaves`
  say what a lock guarantees and to whom, `WaitStep` and `ReleaseStep` the same of
  both. The rules of a join, a command and a completion are kept by every hook that
  runs (`JoinRun`, `CommandRun`, `TabRun`), given that none before it has decided
  (`Undecided`); what `AddSuggestions` makes of an array is `SuggestionsShape`, and
  that no suggestion comes before one an earlier hook was first to make is `TurnsKept`.
* `FramedReadProofs`: `WholeUnlessDropped`. What a read hands over is right only if
  the stream and the half-done read fit together: a stream is always a suffix of whole
  frames in order (`StreamInv`), and a read that was never dropped stands before the
  next frame or inside it, with what comes before (`ReaderInv`).
* `ListenerProofs`: `PermitsAccountedFor` by counting the served connections,
  `TypeCorrect` from it, and the action property `RejectsOnlyWhenFull`, which needs
  that balance to turn "no permit" into "max_conns others are served".
* `EncryptedStreamProofs`: `WireInSync`, `WritesAccountedFor`, `FlushComplete`,
  `TypeCorrect`, `PlaintextInSync`.
  The invariant adds that the unsent part of the buffer continues the wire
  (`BufferInv`) and that the ciphers have advanced by what was accepted and what
  arrived (`CipherInv`).
* `CodecProofs`: `FrameDelivered` and `AcceptedFits`, about the operators of `Frames`, and the
  lemmas on the fields of packets, the packets of the Login state and Respawn, which
  `PacketCodecProofs` goes on from.
  The writer computes the lengths of a frame with `varint_size`, without encoding, so
  the first rests on `SizeOfEncoded` (a VarInt is as long as announced, at every
  boundary) and `DecodeEncode` (a VarInt in front of any bytes is read back and nothing
  else taken, negative ones included), by cases on the groups of seven bits. Its
  hypotheses are those under which the code is meant to work: the packet and the body
  of its frame are within `max_size`, and `max_size` fits an `i32`. The second
  has no such hypothesis: it is about any bytes.

* `PacketCodecProofs`: `PacketsUnderstood`, about the operators of `PacketCodec`, and
  about its specification `FramesAreDelivered`, `PacketsComeBack`, `CutsAreSeen`,
  `WorldIsEntered` and `CommandsAreAdded`; `MeaningsKept` and `OwnPacketsTold` about `PacketDispatch`, by
  splitting the versions into the bands of the tables, for every version from 764 on
  and every id. Three statements carry an exception of the code, spelled out in the
  formula: `MeaningsKept` the chat of 764 and 765 (`TakenAs`), `PacketsUnderstood` and
  `PacketsComeBack` a whole LoginSuccess of 707 to 758, and `PacketsUnderstood` and
  `CutsAreSeen` the chat message from 766 on that stops short (`ChatCut`, `TextLost`):
  its reader may take a byte of the text for the overlay, and then has no text.

  One argument serves round trips and payloads that stop short. Let an encoder write
  `b \o m` and let a decoder be given `b`. `At(r, x, s, m)` says where a reader stands
  on `b`: it has read `x` and `s` of the whole is to come, or it failed and `m` is not
  empty. Each reader of `Codec` has a lemma that takes `At` over one field
  (`VarIntAt` and its kin), and each kind of packet has one that chains those of its
  fields and ends in `Fits`: the decoder has read the packet (all of it if `m` is
  empty, and but for optional fields otherwise), or has failed for want of `m`.
  `PacketsUnderstood` puts the kinds together for all packets whose fields have the
  types that the code gives them (`Packets`), of any length that an `i32` can state,
  and in every version; the constants of a run only pick some of them. `RespawnMatchesLogin` follows
  `extract_respawn_from_login_with_data_kept` along a Login (Play) in the same way, and
  then a client's reader along the Respawn that came of it.

  `CommandsAreAdded` is about a function that reads no tree:
  `inject_proxy_commands_into_declare_commands` looks at both ends of the bytes and
  splices its nodes in before the root's index, whose start it has to guess from its
  end. A tree that begins with its root ends in a zero byte, which the code takes for
  a VarInt of its own, so for those trees the guess is right; the code leaves all others alone by the
  flags of the first node, which are zero for a root only (`TreesAssumption`). The proof
  then follows a client along the rewritten bytes: the count and the root's children have
  grown, the backend's other nodes are read from their old bytes node by node (by the
  least index again), then come the proxy's nodes. What the client has read is
  `Extends`, conjunct by conjunct; that each name is there once rests on the four words
  being distinct and on `RootLiterals` leaving duplicates and `server` out. It is for
  trees of any shape and size that fits a packet, any configured servers and every
  version from 393 on.

  The inductive invariant of the specification, `CodecInv`, is then short: a frame on
  the wire is the frame of the packet that was carried (`OnWire`), which is what was
  sent or a front of it (`Carried`), and what was read is what the decoder makes of it.

The strengthened invariants were checked with TLC on the
instances of the runs before they were proved.

**Induction over data.** The library's induction theorems take an operator as a
parameter, which the provers cannot instantiate. Where a list is written or read item
by item (`GetMany`, `FlattenSeq`, `AddSuggestions`) the recursion is a function, and
the proofs consider the least index at which it could go wrong: a set of naturals that
is not empty has a least element, which needs no operator.

**Only model-checked:**

* the liveness properties: `LossNoticed`, `TransferEnds`, `ShutdownEnds`,
  `HeldOnlyUntimed`, `SignalEndsProcess`, `EveryAskAnswered`,
  `EveryLoadEnds` (fairness and ENABLED are beyond the proof system).

Every safety property that a run checks is also a theorem.

## 5. Other divergences met while modelling

Visible by reading, and not kept as runs:

* `network/listener.rs:181`: a connection without a permit is dropped;
  docs/CONFIGURATION.md:132 says of `max_players` "This is purely visual and does
  not reject connections when exceeded". `RejectedOnlyWhenFull` says when it does.
* `main.rs:140`: `main` does not await the sessions; docs/GETTING_STARTED.md:251
  says "without abrupt connection drops".
* `routing/state_machine.rs:2170`: there is one registry cache per session, and an
  abandoned transfer leaves its target's registries in it; docs/ARCHITECTURE.md:33
  says "cached per backend during initial join". Nothing reads the cache today.
* `routing/state_machine.rs:2332` takes 0x06 for the chat message below 766, line
  25 says 0x05: a plain chat message of 764 or 765 is handled as a command,
  and a packet of id 0x06 as chat. `OneRole` says that nothing else is handled as what
  it is not.
* `routing/state_machine.rs:2863`: the shutdown notice of a modern Play session has
  the id of the Configuration disconnect; line 2534 says 0x1A or 0x1B.
* `network/listener.rs:485`: no version is refused; docs/GETTING_STARTED.md:332
  says that FrameMC "terminates the handshake" of older ones.
* `network/listener.rs:597` and `:791` have no timer; docs/CONFIGURATION.md:219 says
  that FrameMC "enforces deterministic timeouts across the connection lifecycle".
  `HeldOnlyUntimed` says that these are the only two places.
* `routing/state_machine.rs:101`: the login answer of a transfer's target is awaited
  without a timer; docs/CONFIGURATION.md:225 says that of a target that "stalls during
  the Login or Configuration phase" FrameMC "cancels the transfer" after 5 seconds. In
  Configuration the timer is 10 seconds and starts again with each packet.
  `TransferEnds` says what does hold.
* `routing/state_machine.rs:2355`, `:2458`, `:2658`, `:2704`: no write of the Play
  state has a timer either. A client that stops reading keeps the loss of its backend
  and the shutdown signal from being seen (`HeldByPeer`).
* `script/events.rs:276`: a `send_message` without `cancel` or `reroute_server` is
  dropped; docs/SCRIPTING.md:132 says "Text message sent to the player's chat".
* `protocol/login.rs:374`: from 707 to 758 the encoder of LoginSuccess writes
  properties that the decoder refuses (it reads them from 759 on). `RoundTrip` names
  this as its one exception.
* `routing/state_machine.rs:1424`: the decoder of SystemChat takes a byte of the text
  for the overlay flag when the text is cut short, from 766 on, and hands over an empty
  text. Only tests call it; `CutNeverForged` says that no other decoder does the like,
  and that this one never hands over a part of the text.
* `routing/state_machine.rs:1086`: for 764 and 765 the Respawn is encoded again from
  eight fields, without death location and portal cooldown.
* `protocol/packet.rs:35`: a packet of any kind whose first text is the name of a
  protected channel is dropped, a chat message among them.
* `script/engine.rs:91`: `kv_get` and `kv_set` are separate calls, so hooks of two
  players can lose an update.

## 6. Not modelled

* Cryptography, the HTTP request to the session server, configuration parsing and
  error formatting: no state of the proxy's own, or out of a model checker's reach.
  `Join` sees the outcomes of authentication.
* `network/bridge.rs`: a wrapper of tokio's copy that no other part calls.
* Of the script host: the Rhai engine, the key-value store and the clock, which are
  a free choice of outcomes; `eval_active`, `call_fn` and `has_function`, which change
  nothing.
* Of the packets: VarLongs, which nothing uses; the entries inside registry data,
  which only tests take apart; the wording of disconnects; the BungeeCord address. The
  Velocity signature is any function of the payload.

## 7. Plan

Done, in this order: `PlaySession` with `SessionPromise`, `Listener`,
`PacketDispatch`, `EncryptedStream`, `FramedRead`, `Join`, `ScriptHost`, `Frames`,
`Codec` with `PacketCodec`, each with its proofs.

Left for later:

1. A composition of `Listener`, `Join` and `PlaySession` for two clients: permits
   against sessions that are held, and shutdown in each stage.
2. An abstract byte pipe that `EncryptedStream` refines.
