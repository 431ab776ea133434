------------------------------ MODULE Listener ------------------------------
(***************************************************************************)
(* The accept loop (src/src/network/listener.rs), the task it spawns for   *)
(* each client, the semaphore of max_players permits that bounds them, and *)
(* the end of the process (src/src/main.rs).                               *)
(*                                                                         *)
(* A client's task is seen by what the listener and the process have to do *)
(* with it: whether its await points watch the shutdown channel.           *)
(*   greeting   handshake, status, login, backend login: not watched       *)
(*   watching   login acknowledgement, Configuration, Play: watched        *)
(*   switching  inside switch_server: not watched                          *)
(*   farewell   the 150 ms sleep after the disconnect packet was sent      *)
(***************************************************************************)
EXTENDS Integers, FiniteSets

CONSTANTS
  Clients,       \* connections that clients open
  max_players    \* config.max_players, an i32

ASSUME ClientsAssumption == IsFiniteSet(Clients)
ASSUME MaxPlayersAssumption == max_players \in Int

VARIABLES
  stage,         \* where each connection is
  permits,       \* connection_semaphore
  accepting,     \* start_listener_with_state_on is in its loop
  shutdown,      \* the shutdown watch channel
  running        \* the process is there

vars == <<stage, permits, accepting, shutdown, running>>

Joined == {"watching", "switching"}
Served == {"greeting", "farewell"} \cup Joined
Stages == {"away", "backlog", "rejected", "over", "cut"} \cup Served

(* max_conns: a negative max_players stands for 1000. *)
max_conns == IF max_players >= 0 THEN max_players ELSE 1000

TypeOK ==
  /\ stage \in [Clients -> Stages]
  /\ permits \in 0 .. max_conns
  /\ accepting \in BOOLEAN
  /\ shutdown \in BOOLEAN
  /\ running \in BOOLEAN

Init ==
  /\ stage = [c \in Clients |-> "away"]
  /\ permits = max_conns
  /\ accepting = TRUE /\ shutdown = FALSE /\ running = TRUE

ServedNow == {c \in Clients : stage[c] \in Served}

-----------------------------------------------------------------------------
(* A client connects, for the first time or again: the kernel completes the TCP
   handshake while the listening socket is open. *)
Arrive(c) ==
  /\ accepting /\ running /\ stage[c] \in {"away", "rejected", "over"}
  /\ stage' = [stage EXCEPT ![c] = "backlog"]
  /\ UNCHANGED <<permits, accepting, shutdown, running>>

(* Mutant of Accept: the last permit is never given out. *)
AcceptKeepsReserve(c) ==
  /\ accepting /\ running /\ stage[c] = "backlog"
  /\ \/ /\ permits > 1
        /\ permits' = permits - 1
        /\ stage' = [stage EXCEPT ![c] = "greeting"]
     \/ /\ permits <= 1
        /\ stage' = [stage EXCEPT ![c] = "rejected"]
        /\ UNCHANGED permits
  /\ UNCHANGED <<accepting, shutdown, running>>

(* The accept arm: try_acquire_owned, then a task that owns the permit; without a
   permit the stream is dropped. *)
Accept(c) ==
  /\ accepting /\ running /\ stage[c] = "backlog"
  /\ \/ /\ permits > 0
        /\ permits' = permits - 1
        /\ stage' = [stage EXCEPT ![c] = "greeting"]
     \/ /\ permits = 0
        /\ stage' = [stage EXCEPT ![c] = "rejected"]
        /\ UNCHANGED permits
  /\ UNCHANGED <<accepting, shutdown, running>>

(* Mutant of StopAccepting: the loop waits for its tasks before it ends. *)
StopAcceptingWhenIdle ==
  /\ accepting /\ running /\ shutdown /\ ServedNow = {}
  /\ accepting' = FALSE
  /\ stage' = [c \in Clients |-> IF stage[c] = "backlog" THEN "rejected" ELSE stage[c]]
  /\ UNCHANGED <<permits, shutdown, running>>

(* The shutdown arm ends the loop; the listening socket closes with it and the
   connections in its backlog are reset. *)
StopAccepting ==
  /\ accepting /\ running /\ shutdown
  /\ accepting' = FALSE
  /\ stage' = [c \in Clients |-> IF stage[c] = "backlog" THEN "rejected" ELSE stage[c]]
  /\ UNCHANGED <<permits, shutdown, running>>

(* main returns as soon as start_listener does: the runtime is dropped with the
   tasks that are still in it.  A player who has joined and has not been told is
   cut off; the other sockets just close. *)
Exit ==
  /\ ~accepting /\ running
  /\ running' = FALSE
  /\ stage' = [c \in Clients |->
                 CASE stage[c] \in Joined             -> "cut"
                   [] stage[c] \in Served \ Joined   -> "over"
                   [] OTHER                          -> stage[c]]
  /\ UNCHANGED <<permits, accepting, shutdown>>

-----------------------------------------------------------------------------
(* process_connection gets past the backend's LoginSuccess. *)
Join(c) ==
  /\ running /\ stage[c] = "greeting"
  /\ stage' = [stage EXCEPT ![c] = "watching"]
  /\ UNCHANGED <<permits, accepting, shutdown, running>>

(* run() enters switch_server, and comes back. *)
Switch(c) ==
  /\ running
  /\ \/ stage[c] = "watching" /\ stage' = [stage EXCEPT ![c] = "switching"]
     \/ stage[c] = "switching" /\ stage' = [stage EXCEPT ![c] = "watching"]
  /\ UNCHANGED <<permits, accepting, shutdown, running>>

(* The shutdown arm of a session: the disconnect packet, then the sleep. *)
SayGoodbye(c) ==
  /\ running /\ shutdown /\ stage[c] = "watching"
  /\ stage' = [stage EXCEPT ![c] = "farewell"]
  /\ UNCHANGED <<permits, accepting, shutdown, running>>

(* The task returns, with or without an error, and drops its permit. *)
ReturnAs(c, n) ==
  /\ running /\ stage[c] \in Served
  /\ permits' = permits + n
  /\ stage' = [stage EXCEPT ![c] = "over"]
  /\ UNCHANGED <<accepting, shutdown, running>>

(* Mutants of Return: the permit is forgotten, or given back twice. *)
ReturnKeepsPermit(c) == ReturnAs(c, 0)
ReturnGivesTwo(c)    == ReturnAs(c, 2)

Return(c) == ReturnAs(c, 1)

(* SIGINT or SIGTERM, sent on to the watch channel. *)
Signal ==
  /\ running /\ ~shutdown
  /\ shutdown' = TRUE
  /\ UNCHANGED <<stage, permits, accepting, running>>

(* The process is gone. *)
Gone == ~running /\ UNCHANGED vars

Next ==
  \/ \E c \in Clients :
       Arrive(c) \/ Accept(c) \/ Join(c) \/ Switch(c) \/ SayGoodbye(c) \/ Return(c)
  \/ StopAccepting \/ Exit \/ Signal \/ Gone

(* The select's random choice does not pass over the shutdown arm for ever, and
   main goes on once the loop has ended.  Nothing is assumed of the clients. *)
Fairness == SF_vars(StopAccepting) /\ WF_vars(Exit)

Spec     == Init /\ [][Next]_vars
FairSpec == Spec /\ Fairness

-----------------------------------------------------------------------------
(* Permits and served connections balance as long as the process runs: no way out
   of a task keeps a permit or gives one back twice. *)
PermitsBalance == running => permits + Cardinality(ServedNow) = max_conns

(* The accept loop turns a client away only when max_conns others are served, or
   when it is over. *)
RejectedOnlyWhenFull ==
  [][\A c \in Clients : stage[c] # "rejected" /\ stage'[c] = "rejected" =>
       Cardinality(ServedNow) = max_conns \/ ~accepting']_vars

(* A signal ends the process, whatever the sessions do. *)
SignalEndsProcess == shutdown ~> ~running
=============================================================================
