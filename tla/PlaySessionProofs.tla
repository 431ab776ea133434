------------------------- MODULE PlaySessionProofs -------------------------
(***************************************************************************)
(* The safety properties of PlaySession for every set of servers, versions,*)
(* widgets, windows, registries, thresholds and connection identities, and *)
(* for client queues of every length.                                      *)
(***************************************************************************)
EXTENDS PlaySession, TLAPS

USE DEF At, Writes

(* NoLink is not a stream, and a stream is not NoLink. *)
LEMMA LinkFields ==
  ASSUME NEW l \in Link
  PROVE  /\ l.id \in Conns /\ l.server \in Servers /\ l.framing \in Thresholds
         /\ l.gone \in BOOLEAN
         /\ [l EXCEPT !.gone = TRUE] \in Link
         /\ \A t \in Thresholds : [l EXCEPT !.framing = t] \in Link
BY DEF Link

(* The clock of switch_server's pending read leaves the rest of its locals alone. *)
LEMMA WaitFields ==
  ASSUME NEW s \in SwitchLocals, NEW n \in 0 .. ReadTimeout
  PROVE  /\ [s EXCEPT !.waited = n] \in SwitchLocals
         /\ [s EXCEPT !.waited = n].target = s.target
         /\ [s EXCEPT !.waited = n].reason = s.reason
         /\ s.waited \in 0 .. ReadTimeout
BY DEF SwitchLocals

(* No transfer is a legal value of switch. *)
LEMMA NoSwitchType == NoSwitch \in SwitchLocals
BY DEF NoSwitch, SwitchLocals, ReadTimeout

(* The state PlayStateMachine::new leaves satisfies the invariant. *)
LEMMA InitInv == Init => IInv
<1> SUFFICES ASSUME Init PROVE IInv
  OBVIOUS
<1>1. PICK c \in Conns :
        /\ backend = [id |-> c, server |-> current_server, framing |-> clientFraming,
                      gone |-> FALSE]
        /\ registry_cache \in [Registries -> {NoConn} \cup {k \in {c} : protocol_version >= 764}]
  BY DEF Init
<1>2. TypeOK
  <2>1. backend \in Link
    BY <1>1 DEF Link, Init
  <2>2. registry_cache \in [Registries -> Conns \cup {NoConn}]
    BY <1>1
  <2>3. switch \in SwitchLocals
    BY NoSwitchType DEF Init
  <2>4. screen \in [win : Windows \cup {NoWindow}, from : Conns \cup {NoConn}]
    BY DEF Init, NoScreen
  <2>5. toProxy \in Seq(ClientKinds)
    BY DEF Init
  <2> QED
    BY <2>1, <2>2, <2>3, <2>4, <2>5 DEF Init, TypeOK, BlankHud, Results, Switching,
                                              Waits
<1>3. TransferInv /\ WaitInv
  BY DEF Init, TransferInv, WaitInv, Switching
<1>4. WidgetInv /\ LoginInv
  BY DEF Init, WidgetInv, LoginInv, BlankHud
<1>5. FramingAgrees /\ CurrentServerIsAttached
  BY <1>1 DEF Init, FramingAgrees, CurrentServerIsAttached
<1> QED
  BY <1>2, <1>3, <1>4, <1>5 DEF IInv

-----------------------------------------------------------------------------
(* What the handlers share.  Each lemma says that one way of leaving a handler
   preserves the invariant. *)

(* run() ends: the client is out of the game. *)
LEMMA CloseStep ==
  ASSUME IInv, NEW why \in Results, Close(why),
         UNCHANGED <<session, active, registry_cache, framing, clientUp, logins, shutdown>>,
         waiting' \in {"nobody", "client_anyway"},
         open_container_id' \in {open_container_id, NoWindow},
         toProxy' \in Seq(ClientKinds)
  PROVE  IInv'
<1>1. TypeOK'
  <2>1. switch' \in SwitchLocals
    BY NoSwitchType DEF Close
  <2>2. screen' \in [win : Windows \cup {NoWindow}, from : Conns \cup {NoConn}]
    BY DEF Close, NoScreen
  <2>3. hud' \in [Widgets -> Conns \cup {NoConn}]
    BY DEF Close, BlankHud
  <2> QED
    BY <2>1, <2>2, <2>3 DEF IInv, TypeOK, Close, session, framing, Switching, Waits
<1>2. TransferInv' /\ WaitInv'
  BY DEF TransferInv, WaitInv, Close, Switching
<1>3. WidgetInv'
  BY DEF WidgetInv, Close, BlankHud
<1>4. LoginInv'
  BY DEF IInv, LoginInv, Close
<1>5. FramingAgrees' /\ CurrentServerIsAttached'
  BY DEF FramingAgrees, CurrentServerIsAttached, Close
<1> QED
  BY <1>1, <1>2, <1>3, <1>4, <1>5 DEF IInv

(* Everything but the task's stage and the client's queue stays, and the loop goes
   on or a transfer is set out for or given up. *)
LEMMA StageStep ==
  ASSUME IInv, pc # "closed", pc' \in {"run", "connect"},
         new_backend' = NoLink,
         pc' = "run" => switch' = NoSwitch,
         pc' = "connect" => /\ switch'.target \in Servers /\ switch'.reason \in Reasons
                            /\ switch' \in SwitchLocals,
         waiting' \in Waits \ {"target"},
         waiting' = "client" /\ pc' = "connect" => switch'.reason = "command",
         waiting' = "backend" => pc' = "run",
         UNCHANGED <<result, backend, picture, session, active, registry_cache, framing,
                     clientUp, logins, shutdown>>,
         open_container_id' \in {open_container_id, NoWindow},
         toProxy' \in Seq(ClientKinds)
  PROVE  IInv'
<1>1. TypeOK'
  <2>1. switch' \in SwitchLocals
    BY NoSwitchType
  <2> QED
    BY <2>1 DEF IInv, TypeOK, session, framing, picture, Switching
<1>2. TransferInv' /\ WaitInv'
  BY DEF IInv, TransferInv, WaitInv, Switching, picture
<1>3. WidgetInv'
  BY DEF IInv, WidgetInv, picture
<1>4. LoginInv'
  BY DEF IInv, LoginInv, picture, session
<1>5. FramingAgrees' /\ CurrentServerIsAttached'
  BY DEF IInv, FramingAgrees, CurrentServerIsAttached, framing, session
<1> QED
  BY <1>1, <1>2, <1>3, <1>4, <1>5 DEF IInv

(* switch_server gives up. *)
LEMMA FailSwitchStep ==
  ASSUME IInv, pc \in Switching, FailSwitch
  PROVE  IInv'
<1>1. CASE switch.reason = "command"
  BY <1>1, StageStep DEF FailSwitch, Close, tracked, Switching, IInv, TypeOK, Waits
<1>2. CASE switch.reason # "command"
  BY <1>2, CloseStep DEF FailSwitch, tracked, IInv, TypeOK, Results
<1> QED
  BY <1>1, <1>2

(* switch_server is entered, or refuses an unknown target. *)
LEMMA SwitchStep ==
  ASSUME IInv, pc = "run", NEW target, NEW reason \in Reasons,
         switch_server(target, reason),
         UNCHANGED <<session, tracked, registry_cache, framing, clientUp, logins, shutdown>>,
         toProxy' \in Seq(ClientKinds)
  PROVE  IInv'
<1>1. CASE /\ target \in Servers
           /\ pc' = "connect"
           /\ switch' = [target |-> target, reason |-> reason, waited |-> 0]
           /\ UNCHANGED <<result, backend, new_backend, picture>>
  BY <1>1, StageStep DEF switch_server, tracked, IInv, TypeOK, ReadTimeout, SwitchLocals,
                             Waits
<1>2. CASE UNCHANGED <<task, picture>>
  BY <1>2, StageStep DEF switch_server, tracked, task, IInv, TypeOK, TransferInv, Switching,
                         Waits
<1>3. CASE reason # "command" /\ Close("fallback_failed")
  BY <1>3, CloseStep DEF switch_server, tracked, Results
<1> QED
  BY <1>1, <1>2, <1>3 DEF switch_server

(* A transfer completes: the widgets of the old backend are all tracked, so the
   teardown removes them all, and the next Login (Play) becomes a Respawn. *)
LEMMA ReattachStep ==
  ASSUME IInv, pc \in {"login", "finish"}, NEW new \in Link, new.server = switch.target,
         Reattach(new)
  PROVE  IInv'
<1>1. hud' = BlankHud
  BY DEF Reattach, ReattachAs, teardown_transferred_state, BlankHud, IInv, WidgetInv
<1>2. TypeOK'
  <2>1. switch' \in SwitchLocals
    BY NoSwitchType DEF Reattach, ReattachAs
  <2>2. screen' \in [win : Windows \cup {NoWindow}, from : Conns \cup {NoConn}]
    BY DEF Reattach, ReattachAs, teardown_transferred_state, NoScreen, IInv, TypeOK
  <2>3. hud' \in [Widgets -> Conns \cup {NoConn}]
    BY <1>1 DEF BlankHud
  <2>4. current_server' \in Servers /\ new.framing \in Thresholds
    BY LinkFields DEF Reattach, ReattachAs
  <2> QED
    BY <2>1, <2>2, <2>3, <2>4 DEF IInv, TypeOK, Reattach, ReattachAs, teardown_transferred_state,
                                  Switching, Waits
<1>3. TransferInv' /\ WaitInv'
  BY DEF TransferInv, WaitInv, Reattach, ReattachAs, Switching
<1>4. WidgetInv'
  BY <1>1 DEF WidgetInv, BlankHud
<1>5. LoginInv'
  BY DEF IInv, LoginInv, Reattach, ReattachAs
<1>6. FramingAgrees' /\ CurrentServerIsAttached'
  BY DEF IInv, FramingAgrees, CurrentServerIsAttached, Reattach, ReattachAs
<1> QED
  BY <1>2, <1>3, <1>4, <1>5, <1>6 DEF IInv

-----------------------------------------------------------------------------
(* One lemma for each of the three parts of Next, one step for each action. *)

(* Every stage of switch_server preserves the invariant. *)
LEMMA TransferStep ==
  ASSUME IInv, Transfer
  PROVE  IInv'
<1>1. CASE ConnectOk
  <2>1. PICK c \in Fresh :
          new_backend' = [id |-> c, server |-> switch.target, framing |-> Uncompressed,
                          gone |-> FALSE]
    BY <1>1 DEF ConnectOk
  <2>2. c \in Conns /\ c # world
    BY <2>1 DEF Fresh
  <2>3. pc = "connect" /\ switch.target \in Servers
    BY <1>1 DEF ConnectOk, IInv, TransferInv, Switching
  <2>4. new_backend' \in Link /\ new_backend'.server = switch.target /\ new_backend'.id = c
    BY <2>1, <2>2, <2>3, ThresholdsAssumption DEF Link
  <2>5. TypeOK'
    BY <1>1, <2>4 DEF ConnectOk, IInv, TypeOK, session, tracked, framing, picture, Switching
  <2>6. TransferInv' /\ WaitInv'
    BY <1>1, <2>2, <2>4 DEF ConnectOk, IInv, TransferInv, WaitInv, picture, Switching
  <2>7. WidgetInv' /\ LoginInv'
    BY <1>1 DEF ConnectOk, IInv, WidgetInv, LoginInv, picture, tracked, session
  <2>8. FramingAgrees' /\ CurrentServerIsAttached'
    BY <1>1 DEF ConnectOk, IInv, FramingAgrees, CurrentServerIsAttached, framing, session
  <2> QED
    BY <2>5, <2>6, <2>7, <2>8 DEF IInv
<1>2. CASE ConnectFails \/ LoginFails \/ ConfigFails
  BY <1>2, FailSwitchStep DEF ConnectFails, LoginFails, ConfigFails, Switching
<1>3. ASSUME NEW t \in Thresholds, LoginOk(t)
      PROVE  IInv'
  <2> DEFINE new == [new_backend EXCEPT !.framing = t]
  <2>1. pc = "login" /\ new_backend \in Link /\ new_backend # NoLink
    BY <1>3, LinkAssumption DEF LoginOk, IInv, TypeOK
  <2>2. new \in Link /\ new.server = switch.target /\ new.id # world
    BY <2>1, LinkFields DEF Link, IInv, TransferInv
  <2>3. CASE Reattach(new)
    BY <2>1, <2>2, <2>3, ReattachStep
  <2>4. CASE /\ pc' = "config" /\ new_backend' = new /\ Writes("target")
             /\ UNCHANGED <<switch, result, backend, session, tracked, registry_cache,
                            framing, clientUp, toProxy, picture, logins, shutdown>>
    <3>1. TypeOK'
      BY <2>1, <2>2, <2>4 DEF IInv, TypeOK, session, tracked, framing, picture, Switching,
                                   Waits
    <3>2. TransferInv' /\ WaitInv'
      BY <2>1, <2>2, <2>4 DEF IInv, TransferInv, WaitInv, picture, Switching
    <3>3. WidgetInv' /\ LoginInv'
      BY <2>1, <2>4 DEF IInv, WidgetInv, LoginInv, picture, tracked, session
    <3>4. FramingAgrees' /\ CurrentServerIsAttached'
      BY <2>1, <2>4 DEF IInv, FramingAgrees, CurrentServerIsAttached, framing, session
    <3> QED
      BY <3>1, <3>2, <3>3, <3>4 DEF IInv
  <2> QED
    BY <1>3, <2>3, <2>4 DEF LoginOk
<1>4. ASSUME NEW id \in ConfigPacketIds, ConfigPacket(id)
      PROVE  IInv'
  <2>1. pc = "config" /\ new_backend \in Link
    BY <1>4 DEF ConfigPacket, IInv, TypeOK
  <2>2. registry_cache' \in [Registries -> Conns \cup {NoConn}]
    BY <1>4, <2>1, LinkFields DEF ConfigPacket, IInv, TypeOK
  <2>3. /\ switch' \in SwitchLocals
        /\ switch'.target = switch.target /\ switch'.reason = switch.reason
    <3>1. switch \in SwitchLocals /\ switch' = [switch EXCEPT !.waited = 0]
      BY <1>4 DEF ConfigPacket, IInv, TypeOK
    <3>2. 0 \in 0 .. ReadTimeout
      BY DEF ReadTimeout
    <3> QED
      BY <3>1, <3>2, WaitFields
  <2>4. TypeOK'
    BY <1>4, <2>1, <2>2, <2>3 DEF ConfigPacket, IInv, TypeOK, session, tracked, framing, picture,
                                  Waits
  <2>5. TransferInv' /\ WaitInv'
    BY <1>4, <2>1, <2>3 DEF ConfigPacket, IInv, TransferInv, WaitInv, picture, Switching
  <2>6. WidgetInv' /\ LoginInv'
    BY <1>4 DEF ConfigPacket, IInv, WidgetInv, LoginInv, picture, tracked, session
  <2>7. FramingAgrees' /\ CurrentServerIsAttached'
    BY <1>4 DEF ConfigPacket, IInv, FramingAgrees, CurrentServerIsAttached, framing, session
  <2> QED
    BY <2>4, <2>5, <2>6, <2>7 DEF IInv
<1>5. CASE ConfigFinish
  <2>1. new_backend \in Link /\ new_backend.server = switch.target
    BY <1>5, LinkAssumption DEF ConfigFinish, IInv, TypeOK, TransferInv
  <2> QED
    BY <1>5, <2>1, ReattachStep DEF ConfigFinish
<1>6. CASE Tick
  <2>1. /\ switch' \in SwitchLocals
        /\ switch'.target = switch.target /\ switch'.reason = switch.reason
    <3>1. /\ switch \in SwitchLocals /\ switch.waited < ReadTimeout
          /\ switch' = [switch EXCEPT !.waited = switch.waited + 1]
      BY <1>6 DEF Tick, IInv, TypeOK
    <3>2. switch.waited + 1 \in 0 .. ReadTimeout
      BY <3>1 DEF SwitchLocals, ReadTimeout
    <3> QED
      BY <3>1, <3>2, WaitFields
  <2>2. TypeOK'
    BY <1>6, <2>1 DEF Tick, IInv, TypeOK, session, tracked, framing, picture
  <2>3. TransferInv' /\ WaitInv'
    BY <1>6, <2>1 DEF Tick, IInv, TransferInv, WaitInv, picture, Switching
  <2>4. WidgetInv' /\ LoginInv'
    BY <1>6 DEF Tick, IInv, WidgetInv, LoginInv, picture, tracked, session
  <2>5. FramingAgrees' /\ CurrentServerIsAttached'
    BY <1>6 DEF Tick, IInv, FramingAgrees, CurrentServerIsAttached, framing, session
  <2> QED
    BY <2>2, <2>3, <2>4, <2>5 DEF IInv
<1>7. CASE ConfigAcknowledge
  <2>1. TypeOK'
    BY <1>7 DEF ConfigAcknowledge, IInv, TypeOK, session, tracked, framing, picture, Switching,
                Waits
  <2>2. TransferInv' /\ WaitInv'
    BY <1>7 DEF ConfigAcknowledge, IInv, TransferInv, WaitInv, picture, Switching
  <2>3. WidgetInv' /\ LoginInv'
    BY <1>7 DEF ConfigAcknowledge, IInv, WidgetInv, LoginInv, picture, tracked, session
  <2>4. FramingAgrees' /\ CurrentServerIsAttached'
    BY <1>7 DEF ConfigAcknowledge, IInv, FramingAgrees, CurrentServerIsAttached, framing, session
  <2> QED
    BY <2>1, <2>2, <2>3, <2>4 DEF IInv
<1> QED
  BY <1>1, <1>2, <1>3, <1>4, <1>5, <1>6, <1>7 DEF Transfer

(* The head of the client's queue is taken, the rest is still a queue. *)
LEMMA ReadClientStep ==
  ASSUME IInv, NEW kind, ReadClient(kind)
  PROVE  /\ pc = "run" /\ toProxy' \in Seq(ClientKinds)
         /\ UNCHANGED <<session, active, registry_cache, framing, clientUp, logins, shutdown>>
BY DEF ReadClient, IInv, TypeOK

(* A packet that is forwarded or answered. *)
LEMMA ForwardStep ==
  ASSUME IInv, NEW kind, ReadClient(kind), Forward \/ Answer,
         open_container_id' \in {open_container_id, NoWindow}
  PROVE  IInv'
<1>1. UNCHANGED <<task, picture>> /\ waiting' \in {"nobody", "client", "backend"}
  BY DEF Forward, Answer
<1> QED
  BY <1>1, ReadClientStep, StageStep DEF task, IInv, TypeOK, TransferInv, Switching, Waits

(* The loss of a backend, by a Disconnect or by the end of its stream. *)
LEMMA FailOverStep ==
  ASSUME IInv, NEW reason \in Reasons, FailOver(reason)
  PROVE  IInv'
<1>1. /\ pc = "run" /\ toProxy' \in Seq(ClientKinds)
      /\ UNCHANGED <<session, tracked, registry_cache, framing, clientUp, logins, shutdown>>
  BY DEF FailOver, FromBackend, IInv, TypeOK, session
<1>2. CASE switch_server(Default, reason)
  BY <1>1, <1>2, SwitchStep
<1>3. CASE Close("default_lost") /\ UNCHANGED waiting
  BY <1>1, <1>3, CloseStep DEF FailOver, FromBackend, Results, tracked
<1> QED
  BY <1>2, <1>3 DEF FailOver

(* A packet from the world the client is in: only the trackers and the picture can
   change, and they change together. *)
LEMMA WorldStep ==
  ASSUME IInv, FromWorld,
         open_container_id' \in (0 .. 255) \cup {NoWindow},
         active' \in SUBSET Widgets,
         screen' \in [win : Windows \cup {NoWindow}, from : Conns \cup {NoConn}],
         hud' \in [Widgets -> Conns \cup {NoConn}],
         \A w \in Widgets : hud'[w] # NoConn => w \in active' /\ hud'[w] = backend.id
  PROVE  IInv'
<1>1. TypeOK'
  BY DEF IInv, TypeOK, FromWorld, FromBackend, task, framing, Waits
<1>2. TransferInv' /\ WaitInv'
  BY DEF IInv, TransferInv, WaitInv, FromWorld, FromBackend, task, Switching
<1>3. WidgetInv'
  BY DEF WidgetInv, FromWorld, FromBackend, task
<1>4. LoginInv'
  BY DEF IInv, LoginInv, FromWorld, FromBackend, task
<1>5. FramingAgrees' /\ CurrentServerIsAttached'
  BY DEF IInv, FramingAgrees, CurrentServerIsAttached, FromWorld, FromBackend, task, framing
<1> QED
  BY <1>1, <1>2, <1>3, <1>4, <1>5 DEF IInv

(* Every arm of the select in run() preserves the invariant. *)
LEMMA RunLoopStep ==
  ASSUME IInv, RunLoop
  PROVE  IInv'
<1>1. CASE HandleClose
  BY <1>1, ForwardStep DEF HandleClose
<1>2. CASE HandleCommand
  <2>1. CASE Forward \/ Answer
    BY <1>2, <2>1, ForwardStep DEF HandleCommand
  <2>2. ASSUME NEW target \in Servers \cup {Missing}, switch_server(target, "command")
        PROVE  IInv'
    BY <1>2, <2>2, ReadClientStep, SwitchStep DEF HandleCommand, tracked, Reasons
  <2> QED
    BY <1>2, <2>1, <2>2 DEF HandleCommand
<1>3. CASE HandleOther
  BY <1>3, ForwardStep DEF HandleOther
<1>4. CASE BackendLogin
  <2>1. backend.id \in Conns /\ pc = "run"
    BY <1>4, LinkFields DEF BackendLogin, FromBackend, IInv, TypeOK
  <2>2. \A w \in Widgets : hud[w] = NoConn
    BY <1>4 DEF BackendLogin, IInv, WidgetInv
  <2>3. TypeOK'
    <3>1. logins' \in Nat
      BY <1>4 DEF BackendLogin, IInv, TypeOK
    <3>2. world' \in Conns \cup {NoConn} /\ server_transferred' \in BOOLEAN
      BY <1>4, <2>1 DEF BackendLogin
    <3> QED
      BY <1>4, <2>1, <3>1, <3>2 DEF BackendLogin, FromBackend, IInv, TypeOK, task, tracked,
                                    framing, Waits
  <2>4. TransferInv' /\ WaitInv'
    BY <1>4, <2>1 DEF BackendLogin, FromBackend, IInv, TypeOK, TransferInv, WaitInv, task,
                      Switching
  <2>5. WidgetInv'
    BY <1>4, <2>2 DEF BackendLogin, WidgetInv
  <2>6. LoginInv'
    BY <1>4, <2>1 DEF BackendLogin, IInv, LoginInv, task
  <2>7. FramingAgrees' /\ CurrentServerIsAttached'
    BY <1>4 DEF BackendLogin, FromBackend, IInv, FramingAgrees, CurrentServerIsAttached,
                task, framing
  <2> QED
    BY <2>3, <2>4, <2>5, <2>6, <2>7 DEF IInv
<1>5. CASE BackendCloseWindow
  <2>1. screen' \in [win : Windows \cup {NoWindow}, from : Conns \cup {NoConn}]
    BY <1>5 DEF BackendCloseWindow, NoScreen
  <2> QED
    BY <1>5, <2>1, WorldStep DEF BackendCloseWindow, IInv, TypeOK, WidgetInv
<1>6. CASE BackendDisconnect \/ BackendEof
  BY <1>6, FailOverStep DEF BackendDisconnect, BackendEof, Reasons
<1>7. ASSUME NEW w \in Widgets, BackendShow(w) \/ BackendHide(w)
      PROVE  IInv'
  <2>1. backend.id \in Conns
    BY <1>7, LinkFields DEF BackendShow, BackendHide, FromWorld, FromBackend, IInv, TypeOK
  <2>2. CASE BackendShow(w)
    BY <2>1, <2>2, WorldStep DEF BackendShow, IInv, TypeOK, WidgetInv
  <2>3. CASE BackendHide(w)
    BY <2>1, <2>3, WorldStep DEF BackendHide, IInv, TypeOK, WidgetInv
  <2> QED
    BY <1>7, <2>2, <2>3
<1>8. ASSUME NEW w \in Windows, BackendOpenWindow(w)
      PROVE  IInv'
  <2>1. backend.id \in Conns
    BY <1>8, LinkFields DEF BackendOpenWindow, FromWorld, FromBackend, IInv, TypeOK
  <2>2. w % 256 \in 0 .. 255
    BY <1>8, WindowsAssumption
  <2>3. screen' \in [win : Windows \cup {NoWindow}, from : Conns \cup {NoConn}]
    BY <1>8, <2>1 DEF BackendOpenWindow
  <2> QED
    BY <1>8, <2>2, <2>3, WorldStep DEF BackendOpenWindow, IInv, TypeOK, WidgetInv
<1>9. CASE ClientLost \/ ShutdownArm
  BY <1>9, CloseStep DEF ClientLost, ShutdownArm, EndOfLoop, tracked, Results, IInv, TypeOK
<1>10. CASE BackendOther
  BY <1>10, StageStep DEF BackendOther, FromBackend, task, session, tracked, IInv, TypeOK,
                          TransferInv, Switching, Waits
<1>11. CASE WriteDone
  <2>1. TypeOK'
    BY <1>11 DEF WriteDone, IInv, TypeOK, task, session, tracked, framing, picture, Waits
  <2>2. TransferInv' /\ WaitInv'
    BY <1>11 DEF WriteDone, IInv, TransferInv, WaitInv, task, picture
  <2>3. WidgetInv' /\ LoginInv'
    BY <1>11 DEF WriteDone, IInv, WidgetInv, LoginInv, task, picture, tracked, session
  <2>4. FramingAgrees' /\ CurrentServerIsAttached'
    BY <1>11 DEF WriteDone, IInv, FramingAgrees, CurrentServerIsAttached, task, framing, session
  <2> QED
    BY <2>1, <2>2, <2>3, <2>4 DEF IInv
<1>12. CASE WriteFails
  <2>1. ASSUME NEW why \in Results, EndOfLoop(why), waiting' = "nobody"
        PROVE  IInv'
    BY <2>1, CloseStep DEF EndOfLoop, tracked, IInv, TypeOK
  <2>2. CASE waiting = "target" /\ FailSwitch
    BY <2>2, FailSwitchStep DEF IInv, WaitInv, Switching
  <2> QED
    BY <1>12, <2>1, <2>2 DEF WriteFails, Results
<1> QED
  BY <1>1, <1>2, <1>3, <1>4, <1>5, <1>6, <1>7, <1>8, <1>9, <1>10, <1>11, <1>12 DEF RunLoop

(* What the client, the backends and the process do preserves the invariant. *)
LEMMA EnvironmentStep ==
  ASSUME IInv, Environment
  PROVE  IInv'
<1>1. CASE BackendCloses
  <2>1. /\ pc # "closed" /\ backend \in Link
        /\ backend' = [backend EXCEPT !.gone = TRUE]
    BY <1>1 DEF BackendCloses, IInv, TypeOK
  <2>2. /\ backend' \in Link /\ backend'.id = backend.id
        /\ backend'.server = backend.server /\ backend'.framing = backend.framing
    BY <2>1 DEF Link
  <2>3. TypeOK'
    BY <1>1, <2>1, <2>2 DEF BackendCloses, IInv, TypeOK, session, tracked, framing, picture
  <2>4. TransferInv' /\ WaitInv'
    BY <1>1 DEF BackendCloses, IInv, TransferInv, WaitInv, picture, Switching
  <2>5. WidgetInv' /\ LoginInv'
    BY <1>1, <2>2 DEF BackendCloses, IInv, WidgetInv, LoginInv, picture, tracked, session
  <2>6. FramingAgrees' /\ CurrentServerIsAttached'
    BY <1>1, <2>2 DEF BackendCloses, IInv, FramingAgrees, CurrentServerIsAttached, framing,
                      session
  <2> QED
    BY <2>3, <2>4, <2>5, <2>6 DEF IInv
<1>2. CASE TargetCloses
  <2>1. /\ pc \in {"login", "config", "finish"} /\ new_backend \in Link
        /\ new_backend' = [new_backend EXCEPT !.gone = TRUE]
    BY <1>2 DEF TargetCloses, IInv, TypeOK
  <2>2. /\ new_backend' \in Link /\ new_backend'.id = new_backend.id
        /\ new_backend'.server = new_backend.server
    BY <2>1 DEF Link
  <2>3. TypeOK'
    BY <1>2, <2>1, <2>2 DEF TargetCloses, IInv, TypeOK, session, tracked, framing, picture
  <2>4. TransferInv' /\ WaitInv'
    BY <1>2, <2>2 DEF TargetCloses, IInv, TransferInv, WaitInv, picture, Switching
  <2>5. WidgetInv' /\ LoginInv'
    BY <1>2 DEF TargetCloses, IInv, WidgetInv, LoginInv, picture, tracked, session
  <2>6. FramingAgrees' /\ CurrentServerIsAttached'
    BY <1>2 DEF TargetCloses, IInv, FramingAgrees, CurrentServerIsAttached, framing, session
  <2> QED
    BY <2>3, <2>4, <2>5, <2>6 DEF IInv
<1>3. ASSUME NEW kind \in ClientKinds, ClientSends(kind)
      PROVE  IInv'
  <2>1. toProxy' \in Seq(ClientKinds)
    BY <1>3 DEF ClientSends, IInv, TypeOK
  <2>2. screen' \in [win : Windows \cup {NoWindow}, from : Conns \cup {NoConn}]
    BY <1>3 DEF ClientSends, NoScreen, IInv, TypeOK
  <2>3. TypeOK'
    BY <1>3, <2>1, <2>2 DEF ClientSends, IInv, TypeOK, task, session, tracked, framing
  <2>4. TransferInv' /\ WaitInv'
    BY <1>3 DEF ClientSends, IInv, TransferInv, WaitInv, task, Switching
  <2>5. WidgetInv' /\ LoginInv'
    BY <1>3 DEF ClientSends, IInv, WidgetInv, LoginInv, task, tracked, session
  <2>6. FramingAgrees' /\ CurrentServerIsAttached'
    BY <1>3 DEF ClientSends, IInv, FramingAgrees, CurrentServerIsAttached, task, framing,
                session
  <2> QED
    BY <2>3, <2>4, <2>5, <2>6 DEF IInv
<1>4. CASE ClientLeaves \/ ShutdownSignal
  <2>1. TypeOK'
    BY <1>4 DEF ClientLeaves, ShutdownSignal, IInv, TypeOK, task, session, tracked, framing,
                picture
  <2>2. TransferInv' /\ WaitInv'
    BY <1>4 DEF ClientLeaves, ShutdownSignal, IInv, TransferInv, WaitInv, task, picture, Switching
  <2>3. WidgetInv' /\ LoginInv'
    BY <1>4 DEF ClientLeaves, ShutdownSignal, IInv, WidgetInv, LoginInv, task, picture,
                tracked, session
  <2>4. FramingAgrees' /\ CurrentServerIsAttached'
    BY <1>4 DEF ClientLeaves, ShutdownSignal, IInv, FramingAgrees, CurrentServerIsAttached,
                task, framing, session
  <2> QED
    BY <2>1, <2>2, <2>3, <2>4 DEF IInv
<1> QED
  BY <1>1, <1>2, <1>3, <1>4 DEF Environment

(* A step that changes nothing keeps the invariant. *)
LEMMA StutterStep ==
  ASSUME IInv, UNCHANGED vars
  PROVE  IInv'
<1>1. TypeOK'
  BY DEF vars, IInv, TypeOK, task, session, tracked, framing, picture
<1>2. TransferInv' /\ WaitInv' /\ WidgetInv' /\ LoginInv'
  BY DEF vars, IInv, TransferInv, WaitInv, WidgetInv, LoginInv, task, session, tracked, picture
<1>3. FramingAgrees' /\ CurrentServerIsAttached'
  BY DEF vars, IInv, FramingAgrees, CurrentServerIsAttached, task, session, framing
<1> QED
  BY <1>1, <1>2, <1>3 DEF IInv

(* Every step of the Play state preserves the invariant. *)
LEMMA NextInv == IInv /\ [Next]_vars => IInv'
BY TransferStep, RunLoopStep, EnvironmentStep, StutterStep DEF Next, Over

-----------------------------------------------------------------------------
(* The inductive invariant holds in every reachable state of PlayStateMachine,
   whatever the number of servers, widgets, windows and connections. *)
THEOREM InvariantHolds == Spec => []IInv
BY InitInv, NextInv, PTL DEF Spec

(* Every variable of PlayStateMachine keeps its type; a stream is attached exactly
   while the session is open, and a second one only inside switch_server. *)
THEOREM TypeCorrect == Spec => []TypeOK
<1>1. IInv => TypeOK
  BY DEF IInv
<1> QED
  BY <1>1, InvariantHolds, PTL

(* No boss bar, objective, display slot or sound of an earlier backend survives a
   transfer: teardown_transferred_state is complete, because the trackers are. *)
THEOREM ResidueFree == Spec => []NoResidue
<1>1. IInv => NoResidue
  BY DEF IInv, WidgetInv, NoResidue
<1> QED
  BY <1>1, InvariantHolds, PTL

(* The client receives Login (Play) at most once, however many transfers complete
   or are abandoned in between. *)
THEOREM SingleLogin == Spec => []LoginAtMostOnce
<1>1. IInv => LoginAtMostOnce
  BY DEF IInv, LoginInv, LoginAtMostOnce
<1> QED
  BY <1>1, InvariantHolds, PTL

(* Both legs stay framed as their peers expect, across transfers between backends
   with different compression thresholds. *)
THEOREM FramingCorrect == Spec => []FramingAgrees
<1>1. IInv => FramingAgrees
  BY DEF IInv
<1> QED
  BY <1>1, InvariantHolds, PTL

(* session.current_server always names the server the attached stream leads to. *)
THEOREM ServerNameCorrect == Spec => []CurrentServerIsAttached
<1>1. IInv => CurrentServerIsAttached
  BY DEF IInv
<1> QED
  BY <1>1, InvariantHolds, PTL

-----------------------------------------------------------------------------
(* The window tracker. *)

(* Reading a packet other than a close leaves a waiting close in the queue. *)
LEMMA CloseStaysQueued ==
  ASSUME NEW q \in Seq(ClientKinds), q # <<>>, Head(q) # "close",
         NEW i \in 1 .. Len(q), q[i] = "close"
  PROVE  \E j \in 1 .. Len(Tail(q)) : Tail(q)[j] = "close"
<1>1. i # 1
  OBVIOUS
<1>2. i - 1 \in 1 .. Len(Tail(q)) /\ Tail(q)[i - 1] = q[i]
  BY <1>1
<1> QED
  BY <1>2

(* A further packet leaves it there too, and a close is itself one. *)
LEMMA CloseGetsQueued ==
  ASSUME NEW q \in Seq(ClientKinds), NEW kind \in ClientKinds,
         kind = "close" \/ \E i \in 1 .. Len(q) : q[i] = "close"
  PROVE  \E j \in 1 .. Len(Append(q, kind)) : Append(q, kind)[j] = "close"
<1>1. CASE kind = "close"
  <2>1. Len(q) + 1 \in 1 .. Len(Append(q, kind)) /\ Append(q, kind)[Len(q) + 1] = "close"
    BY <1>1
  <2> QED
    BY <2>1
<1>2. ASSUME NEW i \in 1 .. Len(q), q[i] = "close"
      PROVE  \E j \in 1 .. Len(Append(q, kind)) : Append(q, kind)[j] = "close"
  <2>1. i \in 1 .. Len(Append(q, kind)) /\ Append(q, kind)[i] = "close"
    BY <1>2
  <2> QED
    BY <2>1
<1> QED
  BY <1>1, <1>2

(* The tracker's claim survives every step. *)
LEMMA WindowStep ==
  ASSUME IInv, TrackedWindowIsShown, [Next]_vars
  PROVE  TrackedWindowIsShown'
<1> USE DEF TrackedWindowIsShown
<1>1. CASE pc' = "closed" \/ open_container_id' = NoWindow
  BY <1>1
<1>2. CASE /\ UNCHANGED <<open_container_id, screen, toProxy>>
           /\ pc # "closed" /\ backend'.id = backend.id
  BY <1>2
<1>3. ASSUME NEW kind \in ClientKinds, ReadClient(kind), kind # "close",
             UNCHANGED <<open_container_id, screen, backend>>
      PROVE  TrackedWindowIsShown'
  <2>1. /\ pc = "run" /\ toProxy \in Seq(ClientKinds) /\ toProxy # <<>>
        /\ Head(toProxy) # "close" /\ toProxy' = Tail(toProxy)
    BY <1>3 DEF ReadClient, IInv, TypeOK
  <2>2. (\E i \in 1 .. Len(toProxy) : toProxy[i] = "close")
          => \E j \in 1 .. Len(toProxy') : toProxy'[j] = "close"
    BY <2>1, CloseStaysQueued
  <2> QED
    BY <1>3, <2>1, <2>2
<1>4. ASSUME NEW kind \in ClientKinds, ClientSends(kind)
      PROVE  TrackedWindowIsShown'
  <2>1. /\ pc # "closed" /\ toProxy \in Seq(ClientKinds) /\ toProxy' = Append(toProxy, kind)
        /\ UNCHANGED <<open_container_id, backend>>
        /\ kind # "close" => screen' = screen
    BY <1>4 DEF ClientSends, IInv, TypeOK, TransferInv, task, tracked
  <2>2. (kind = "close" \/ \E i \in 1 .. Len(toProxy) : toProxy[i] = "close")
          => \E j \in 1 .. Len(toProxy') : toProxy'[j] = "close"
    BY <2>1, CloseGetsQueued
  <2> QED
    BY <2>1, <2>2
<1>5. ASSUME NEW w \in Windows, BackendOpenWindow(w)
      PROVE  TrackedWindowIsShown'
  BY <1>5, WindowsAssumption DEF BackendOpenWindow, FromWorld, task
<1>6. CASE Transfer
  BY <1>1, <1>2, <1>6
     DEF Transfer, ConnectOk, ConnectFails, LoginFails, LoginOk, ConfigPacket,
         ConfigAcknowledge, ConfigFinish, ConfigFails, Tick, FailSwitch, Close, Reattach, ReattachAs, teardown_transferred_state,
         tracked,
         picture
<1>7. CASE RunLoop
  <2>1. CASE HandleClose
    BY <1>1, <2>1 DEF HandleClose
  <2>2. CASE HandleCommand \/ HandleOther
    BY <1>1, <1>3, <2>2 DEF HandleCommand, HandleOther, Forward, Answer, switch_server, Close, task,
                            picture, ClientKinds
  <2>3. CASE BackendLogin \/ BackendOther \/ BackendCloseWindow \/ BackendDisconnect
             \/ BackendEof
    BY <1>1, <1>2, <2>3
       DEF BackendLogin, BackendOther, BackendCloseWindow, BackendDisconnect, BackendEof, FailOver,
           FromBackend, FromWorld, switch_server, Close, task, tracked, picture
  <2>4. ASSUME NEW w \in Widgets, BackendShow(w) \/ BackendHide(w)
        PROVE  TrackedWindowIsShown'
    BY <1>2, <2>4 DEF BackendShow, BackendHide, FromWorld, FromBackend, task
  <2>5. CASE ClientLost \/ ShutdownArm
    BY <1>1, <2>5 DEF ClientLost, ShutdownArm, EndOfLoop, Close
  <2>6. CASE WriteDone
    BY <1>1, <1>2, <2>6 DEF WriteDone, task, tracked, picture
  <2>7. CASE WriteFails
    BY <1>1, <1>2, <2>7 DEF WriteFails, EndOfLoop, FailSwitch, Close, IInv, WaitInv, tracked,
                            picture
  <2> QED
    BY <1>5, <1>7, <2>1, <2>2, <2>3, <2>4, <2>5, <2>6, <2>7 DEF RunLoop
<1>8. CASE Environment
  <2>1. CASE BackendCloses
    <3>1. backend'.id = backend.id
      BY <2>1 DEF BackendCloses, IInv, TypeOK, Link
    <3> QED
      BY <1>2, <2>1, <3>1 DEF BackendCloses, tracked, picture
  <2>2. CASE TargetCloses
    BY <1>2, <2>2 DEF TargetCloses, IInv, TypeOK, tracked, picture
  <2>3. CASE ClientLeaves \/ ShutdownSignal
    BY <1>2, <2>3 DEF ClientLeaves, ShutdownSignal, task, tracked, picture
  <2> QED
    BY <1>4, <1>8, <2>1, <2>2, <2>3 DEF Environment
<1>9. CASE Over \/ UNCHANGED vars
  BY <1>1, <1>2, <1>9 DEF Over, vars, task, tracked, picture
<1> QED
  BY <1>6, <1>7, <1>8, <1>9 DEF Next

(* While open_container_id is set the client shows that window or is about to tell
   the proxy it closed it: the close packet a transfer sends is never for nothing. *)
THEOREM WindowTracked == Spec => []TrackedWindowIsShown
<1>1. Init => TrackedWindowIsShown
  BY DEF Init, TrackedWindowIsShown
<1>2. IInv /\ TrackedWindowIsShown /\ [Next]_vars => TrackedWindowIsShown'
  BY WindowStep
<1> QED
  BY <1>1, <1>2, InvariantHolds, PTL DEF Spec

-----------------------------------------------------------------------------
(* The Play state implements SessionPromise.  Each lemma maps one way of leaving a
   handler to a step of the promise. *)

USE DEF Aim

(* The end of run() outside a chosen transfer is End. *)
LEMMA CloseIsEnd ==
  ASSUME IInv, pc # "closed", waiting = "client" \/ switch.reason # "command", NEW why,
         Close(why), UNCHANGED current_server
  PROVE  Promise!End
<1>1. /\ Aim # Missing => switch.reason \in {"disconnect", "eof"}
      /\ switch'.target = Missing /\ switch'.reason = "none"
  BY DEF IInv, TypeOK, TransferInv, Close, NoSwitch, Reasons, Switching
<1>2. {w \in Widgets : hud'[w] # NoConn} = {}
  BY DEF Close, BlankHud
<1> QED
  BY <1>1, <1>2 DEF Promise!End, Close

(* What is on screen is a function of hud. *)
LEMMA SamePicture ==
  ASSUME hud' = hud
  PROVE  {w \in Widgets : hud'[w] # NoConn} = {w \in Widgets : hud[w] # NoConn}
OBVIOUS

(* Giving up is Stay after a command, End after a loss. *)
LEMMA FailSwitchIsStayOrEnd ==
  ASSUME IInv, pc \in Switching, waiting # "client", FailSwitch
  PROVE  Promise!Next
<1>1. CASE switch.reason = "command"
  <2>1. switch.target # Missing
    BY ServersAssumption DEF IInv, TransferInv
  <2>2. /\ pc # "closed" /\ pc' # "closed"
        /\ UNCHANGED <<current_server, hud, world, backend>>
        /\ switch'.target = Missing /\ switch'.reason = "none"
    BY <1>1 DEF FailSwitch, Switching, picture, session, NoSwitch
  <2>3. Promise!Stay
    BY <1>1, <2>1, <2>2, SamePicture DEF Promise!Stay
  <2> QED
    BY <2>3 DEF Promise!Next
<1>2. CASE switch.reason # "command"
  BY <1>2, CloseIsEnd DEF FailSwitch, Switching, session, Promise!Next
<1> QED
  BY <1>1, <1>2

(* Entering switch_server is SetOut or FallBack, or End for a default server that
   is not configured; a refused command is no step at all. *)
LEMMA SwitchIsSetOut ==
  ASSUME IInv, At("run"), NEW target, NEW reason \in Reasons,
         switch_server(target, reason), UNCHANGED current_server,
         reason # "command" => target = Default /\ current_server # Default
  PROVE  Promise!Next \/ UNCHANGED Promise!vars
<1>1. switch.target = Missing /\ switch.reason = "none"
  BY DEF IInv, TransferInv, NoSwitch, Switching
<1>2. CASE /\ target \in Servers
           /\ pc' = "connect"
           /\ switch' = [target |-> target, reason |-> reason, waited |-> 0]
           /\ UNCHANGED <<result, backend, new_backend, picture>>
  <2>1. switch'.target = target /\ switch'.reason = reason /\ UNCHANGED <<hud, world>>
    BY <1>2 DEF picture
  <2>2. CASE reason = "command" /\ waiting' = "nobody"
    BY <1>1, <1>2, <2>1, <2>2, SamePicture DEF Promise!SetOut, Promise!Next
  <2>3. CASE reason = "command" /\ waiting' = "client"
    BY <1>1, <1>2, <2>1, <2>3, SamePicture DEF Promise!vars
  <2>4. CASE reason # "command"
    <3>1. reason \in {"disconnect", "eof"} /\ waiting' # "client"
      BY <2>4 DEF Reasons, switch_server
    <3> QED
      BY <1>1, <1>2, <2>1, <2>4, <3>1, SamePicture DEF Promise!FallBack, Promise!Next
  <2> QED
    BY <2>2, <2>3, <2>4 DEF switch_server
<1>3. CASE UNCHANGED <<task, picture>>
  BY <1>1, <1>3, SamePicture DEF task, picture, Promise!vars
<1>4. CASE Close("fallback_failed")
  BY <1>1, <1>4, CloseIsEnd DEF Promise!Next
<1> QED
  BY <1>2, <1>3, <1>4 DEF switch_server

(* Steps 3 and 4 of switch_server are Arrive. *)
LEMMA ReattachIsArrive ==
  ASSUME IInv, At("login") \/ At("finish"), NEW new, new.id # world, Reattach(new)
  PROVE  Promise!Arrive
<1>1. switch.target # Missing
  BY ServersAssumption DEF IInv, TransferInv, Switching
<1>2. {w \in Widgets : hud'[w] # NoConn} = {}
  BY DEF Reattach, ReattachAs, teardown_transferred_state, IInv, WidgetInv
<1>3. /\ pc' = "run" /\ current_server' = switch.target
      /\ switch'.target = Missing /\ switch'.reason = "none"
      /\ world' # backend'.id
  BY DEF Reattach, ReattachAs, NoSwitch
<1> QED
  BY <1>1, <1>2, <1>3 DEF Promise!Arrive

(* Every step is a step of the promise or changes nothing it speaks of. *)
LEMMA PromiseStep ==
  ASSUME IInv, [Next]_vars
  PROVE  Promise!Next \/ UNCHANGED Promise!vars
<1>1. CASE /\ UNCHANGED <<current_server, hud, world>>
           /\ pc' = "closed" <=> pc = "closed"
           /\ pc # "closed" => backend'.id = backend.id
           /\ Aim' = Aim /\ switch'.reason = switch.reason
  BY <1>1, SamePicture DEF Promise!vars
<1>2. CASE Transfer
  <2>1. CASE ConnectOk
    BY <1>1, <2>1 DEF ConnectOk, session, picture
  <2>2. CASE ConnectFails \/ LoginFails \/ ConfigFails
    BY <2>2, FailSwitchIsStayOrEnd DEF ConnectFails, LoginFails, ConfigFails, Switching
  <2>3. ASSUME NEW t \in Thresholds, LoginOk(t)
        PROVE  Promise!Next \/ UNCHANGED Promise!vars
    <3>1. /\ At("login") /\ new_backend.id # world
          /\ [new_backend EXCEPT !.framing = t].id = new_backend.id
      BY <2>3, LinkAssumption DEF LoginOk, IInv, TypeOK, TransferInv, Link
    <3>2. CASE Reattach([new_backend EXCEPT !.framing = t])
      BY <3>1, <3>2, ReattachIsArrive DEF Promise!Next
    <3>3. CASE /\ pc' = "config" /\ Writes("target")
               /\ UNCHANGED <<switch, backend, session, picture>>
      BY <1>1, <3>1, <3>3 DEF session, picture
    <3> QED
      BY <2>3, <3>2, <3>3 DEF LoginOk
  <2>4. ASSUME NEW id \in ConfigPacketIds, ConfigPacket(id)
        PROVE  Promise!Next \/ UNCHANGED Promise!vars
    <3>1. switch'.target = switch.target /\ switch'.reason = switch.reason
      BY <2>4 DEF ConfigPacket, IInv, TypeOK, SwitchLocals
    <3> QED
      BY <1>1, <2>4, <3>1 DEF ConfigPacket, session, picture
  <2>5. CASE ConfigFinish
    <3>1. new_backend.id # world
      BY <2>5, LinkAssumption DEF ConfigFinish, IInv, TypeOK, TransferInv
    <3> QED
      BY <2>5, <3>1, ReattachIsArrive DEF ConfigFinish, Promise!Next
  <2>6. CASE Tick
    <3>1. switch'.target = switch.target /\ switch'.reason = switch.reason
      BY <2>6 DEF Tick, IInv, TypeOK, SwitchLocals
    <3> QED
      BY <1>1, <2>6, <3>1 DEF Tick, session, picture
  <2>7. CASE ConfigAcknowledge
    BY <1>1, <2>7 DEF ConfigAcknowledge, session, picture
  <2> QED
    BY <1>2, <2>1, <2>2, <2>3, <2>4, <2>5, <2>6, <2>7 DEF Transfer
<1>3. CASE RunLoop
  <2>1. pc = "run" => switch.reason # "command" /\ switch.target = Missing
                        /\ switch.reason = "none"
    BY DEF IInv, TransferInv, Switching, NoSwitch
  <2>2. ASSUME NEW kind, ReadClient(kind), Forward \/ Answer
        PROVE  Promise!Next \/ UNCHANGED Promise!vars
    BY <1>1, <2>1, <2>2 DEF ReadClient, Forward, Answer, task, picture, session
  <2>3. CASE HandleClose \/ HandleOther
    BY <2>2, <2>3 DEF HandleClose, HandleOther
  <2>4. CASE HandleCommand
    <3>1. ASSUME NEW target \in Servers \cup {Missing}, switch_server(target, "command")
          PROVE  Promise!Next \/ UNCHANGED Promise!vars
      BY <2>4, <3>1, SwitchIsSetOut DEF HandleCommand, ReadClient, session, Reasons
    <3> QED
      BY <2>2, <2>4, <3>1 DEF HandleCommand
  <2>5. CASE BackendLogin
    <3>1. /\ pc = "run" /\ pc' = "run" /\ world # backend.id /\ world' = backend'.id
          /\ UNCHANGED <<current_server, hud, switch>>
      BY <2>5 DEF BackendLogin, FromBackend, task
    <3> QED
      BY <2>1, <3>1, SamePicture DEF Promise!Enter, Promise!Next
  <2>6. CASE BackendCloseWindow
    BY <1>1, <2>1, <2>6 DEF BackendCloseWindow, FromWorld, FromBackend, task
  <2>7. CASE BackendDisconnect \/ BackendEof
    <3>1. ASSUME NEW reason \in {"disconnect", "eof"}, FailOver(reason)
          PROVE  Promise!Next \/ UNCHANGED Promise!vars
      <4>1. At("run") /\ UNCHANGED current_server
        BY <3>1 DEF FailOver, FromBackend
      <4>2. CASE current_server # Default /\ switch_server(Default, reason)
        BY <4>1, <4>2, SwitchIsSetOut DEF Reasons
      <4>3. CASE Close("default_lost")
        BY <2>1, <4>1, <4>3, CloseIsEnd DEF Promise!Next
      <4> QED
        BY <3>1, <4>2, <4>3 DEF FailOver
    <3> QED
      BY <2>7, <3>1 DEF BackendDisconnect, BackendEof
  <2>8. ASSUME NEW w \in Widgets, BackendShow(w) \/ BackendHide(w)
        PROVE  Promise!Next \/ UNCHANGED Promise!vars
    <3>1. /\ pc = "run" /\ pc' = "run" /\ world = backend.id
          /\ UNCHANGED <<current_server, world, backend, switch>>
      BY <2>8 DEF BackendShow, BackendHide, FromWorld, FromBackend, task
    <3>2. {v \in Widgets : hud'[v] # NoConn} \in SUBSET Widgets
      OBVIOUS
    <3> QED
      BY <2>1, <3>1, <3>2 DEF Promise!Dress, Promise!Next
  <2>9. ASSUME NEW w \in Windows, BackendOpenWindow(w)
        PROVE  Promise!Next \/ UNCHANGED Promise!vars
    BY <1>1, <2>1, <2>9 DEF BackendOpenWindow, FromWorld, FromBackend, task
  <2>10. CASE ClientLost \/ ShutdownArm
    BY <2>1, <2>10, CloseIsEnd DEF ClientLost, ShutdownArm, EndOfLoop, session, Promise!Next
  <2>11. CASE BackendOther
    BY <1>1, <2>1, <2>11 DEF BackendOther, FromBackend, task, picture
  <2>12. CASE WriteDone
    <3>1. CASE waiting # "client" \/ pc = "run"
      BY <1>1, <2>1, <2>12, <3>1 DEF WriteDone, task, session, picture
    <3>2. CASE waiting = "client" /\ pc = "connect" /\ switch.reason = "command"
      <4>1. switch.target \in Servers
        BY <3>2 DEF IInv, TransferInv, Switching
      <4>2. /\ pc' = "connect" /\ switch' = switch /\ waiting' = "nobody"
            /\ UNCHANGED <<current_server, hud, world, backend>>
        BY <2>12, <3>2 DEF WriteDone, task, session, picture
      <4> QED
        BY <3>2, <4>1, <4>2, SamePicture DEF Promise!SetOut, Promise!Next
    <3> QED
      BY <2>12, <3>1, <3>2 DEF IInv, WaitInv
  <2>13. CASE WriteFails
    <3>1. CASE waiting = "target" /\ FailSwitch
      BY <3>1, FailSwitchIsStayOrEnd DEF IInv, WaitInv, Switching
    <3>2. ASSUME NEW why, EndOfLoop(why), waiting \in {"client", "backend"}
          PROVE  Promise!Next
      BY <2>1, <3>2, CloseIsEnd DEF EndOfLoop, session, IInv, WaitInv, Promise!Next
    <3> QED
      BY <2>13, <3>1, <3>2 DEF WriteFails
  <2> QED
    BY <1>3, <2>3, <2>4, <2>5, <2>6, <2>7, <2>8, <2>9, <2>10, <2>11, <2>12, <2>13 DEF RunLoop
<1>4. CASE Environment
  <2>1. CASE BackendCloses
    <3>1. backend'.id = backend.id
      BY <2>1 DEF BackendCloses, IInv, TypeOK, Link
    <3> QED
      BY <1>1, <2>1, <3>1 DEF BackendCloses, session, picture
  <2>2. CASE TargetCloses
    BY <1>1, <2>2 DEF TargetCloses, session, picture
  <2>3. ASSUME NEW kind \in ClientKinds, ClientSends(kind)
        PROVE  Promise!Next \/ UNCHANGED Promise!vars
    BY <1>1, <2>3 DEF ClientSends, task, session
  <2>4. CASE ClientLeaves \/ ShutdownSignal
    BY <1>1, <2>4 DEF ClientLeaves, ShutdownSignal, task, session, picture
  <2> QED
    BY <1>4, <2>1, <2>2, <2>3, <2>4 DEF Environment
<1>5. CASE Over \/ UNCHANGED vars
  BY <1>1, <1>5 DEF Over, vars, task, session, picture
<1> QED
  BY <1>2, <1>3, <1>4, <1>5 DEF Next

(* PlayStateMachine keeps the promise: a transfer arrives with a clean screen or is
   abandoned without a trace, only a lost backend forces one, and a transfer a
   player chose never ends the session. *)
THEOREM PromiseKept == Spec => ImplementsPromise
<1>1. Init => Promise!Init
  <2> SUFFICES ASSUME Init PROVE Promise!Init
    OBVIOUS
  <2>1. /\ pc # "closed" /\ current_server \in Servers
        /\ Aim = Missing /\ switch.reason = "none"
    BY DEF Init, NoSwitch
  <2>2. world # backend.id
    BY ConnsAssumption DEF Init
  <2>3. {w \in Widgets : hud[w] # NoConn} = {}
    BY DEF Init, BlankHud
  <2> QED
    BY <2>1, <2>2, <2>3 DEF Promise!Init
<1>2. IInv /\ [Next]_vars => [Promise!Next]_(Promise!vars)
  BY PromiseStep
<1> QED
  BY <1>1, <1>2, InvariantHolds, PTL DEF Spec, ImplementsPromise, Promise!Spec
=============================================================================
