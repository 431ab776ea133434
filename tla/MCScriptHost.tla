---------------------------- MODULE MCScriptHost ----------------------------
(* Scripts for TLC: each says something about one kind of hook that another one may
   contradict, and one loops. *)
EXTENDS ScriptHost

Bool(b) == [bool |-> b]
Text(s) == [text |-> s]
Other   == [other |-> 0]

(* Routes a player, or refuses. *)
Gate ==
  [join    |-> {[map |-> [allow |-> Bool(FALSE), disconnect_reason |-> Text("closed")]],
                [map |-> [target_server |-> Text("arena")]]},
   command |-> {},
   tab     |-> {[array |-> <<Text("hub"), Other, Text("hub")>>]}]

(* Routes a player elsewhere or loops, and handles commands; a flag of the wrong type
   counts as not set. *)
Switcher ==
  [join    |-> {[loop |-> TRUE], [map |-> [target_server |-> Text("lobby")]]},
   command |-> {[map |-> [cancel |-> Bool(FALSE), send_message |-> Text("hello")]],
                [map |-> [cancel |-> Other, reroute_server |-> Text("lobby")]]},
   tab     |-> {[array |-> <<Text("lobby"), Text("hub")>>]}]

MCPluginFiles == <<"auth.rhai", "switcher.rhai">>

MCScripts ==
  [file \in {"auth.rhai", "switcher.rhai", "main.rhai"} |->
     CASE file = "auth.rhai"     -> {Gate}
       [] file = "switcher.rhai" -> {Gate, Switcher}
       [] file = "main.rhai"     -> {Switcher}]
=============================================================================
