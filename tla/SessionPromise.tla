--------------------------- MODULE SessionPromise ---------------------------
(***************************************************************************)
(* What the proxy promises a player in the Play state, without streams,    *)
(* stages, packets or timers: the player is on one server; may set out for *)
(* another; arrives there, with nothing of the old server left on screen,  *)
(* or stays.  Only a player who lost the server he was on can lose the     *)
(* session by a transfer, and such a transfer goes to the default server.  *)
(***************************************************************************)
CONSTANTS Servers, Default, Nowhere, Widgets

VARIABLES
  alive,    \* the session goes on
  on,       \* the server the player is on
  aim,      \* the server he sets out for, Nowhere when he does not travel
  forced,   \* he travels because his server is lost
  seen,     \* he is in the world of the server he is on
  dressed   \* the widgets on his screen

vars == <<alive, on, aim, forced, seen, dressed>>

Init ==
  /\ alive = TRUE /\ on \in Servers /\ aim = Nowhere /\ forced = FALSE
  /\ seen = FALSE /\ dressed = {}

(* A command takes the player anywhere, also to the server he is on. *)
SetOut ==
  /\ alive /\ aim = Nowhere
  /\ aim' \in Servers
  /\ UNCHANGED <<alive, on, forced, seen, dressed>>

(* A lost server leaves only the default one to go to. *)
FallBack ==
  /\ alive /\ aim = Nowhere /\ on # Default /\ Default \in Servers
  /\ aim' = Default /\ forced' = TRUE
  /\ UNCHANGED <<alive, on, seen, dressed>>

Arrive ==
  /\ alive /\ aim # Nowhere
  /\ on' = aim /\ aim' = Nowhere /\ forced' = FALSE
  /\ seen' = FALSE /\ dressed' = {}
  /\ UNCHANGED alive

(* A chosen transfer that fails changes nothing for the player. *)
Stay ==
  /\ alive /\ aim # Nowhere /\ ~forced
  /\ aim' = Nowhere
  /\ UNCHANGED <<alive, on, forced, seen, dressed>>

Enter ==
  /\ alive /\ aim = Nowhere /\ ~seen
  /\ seen' = TRUE
  /\ UNCHANGED <<alive, on, aim, forced, dressed>>

(* Only the server whose world he sees puts things on his screen. *)
Dress ==
  /\ alive /\ aim = Nowhere /\ seen
  /\ dressed' \in SUBSET Widgets
  /\ UNCHANGED <<alive, on, aim, forced, seen>>

(* A chosen transfer under way is never the end. *)
End ==
  /\ alive /\ (aim # Nowhere => forced)
  /\ alive' = FALSE
  /\ aim' = Nowhere /\ forced' = FALSE /\ seen' = FALSE /\ dressed' = {}
  /\ UNCHANGED on

Next == SetOut \/ FallBack \/ Arrive \/ Stay \/ Enter \/ Dress \/ End

Spec == Init /\ [][Next]_vars
=============================================================================
