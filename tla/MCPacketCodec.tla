---------------------------- MODULE MCPacketCodec ----------------------------
(* The supported versions up to one past the last boundary, and one on each side of
   the boundaries below; every packet id that some version gives a meaning. *)
EXTENDS PacketCodec

MCVersions  == {706, 758, 763} \cup 764 .. 777
MCPacketIds == 0 .. 127

(* Both sides of each length of a VarInt, and of zero. *)
MCNumbers == {-2147483647 - 1, -1, 0, 127, 128, 268435455, 268435456, 2147483647}

(* A name that is as short, and one that is as long as names may be. *)
MCNames == {<<65>>, [i \in 1 .. 16 |-> 48 + (i % 10)]}
MCUuids == {[i \in 1 .. 16 |-> i]}

MCThresholds == {<<>>, <<0>>, <<3>>, <<18>>}

MCWord ==
  [server |-> <<115, 101, 114, 118, 101, 114>>, hub |-> <<104, 117, 98>>,
   lobby |-> <<108, 111, 98, 98, 121>>, steel |-> <<115, 116, 101, 101, 108>>,
   name |-> <<110, 97, 109, 101>>, text |-> <<116, 101, 120, 116>>,
   ask_server |-> [i \in 1 .. 20 |-> 97 + (i % 20)], overworld |-> [i \in 1 .. 19 |-> 97 + (i % 19)],
   json_open |-> <<123, 34, 116, 101, 120, 116, 34, 58, 34>>, json_close |-> <<34, 125>>]

(* Configured servers: " Arena", "LOBBY", "server" and one of blanks only. *)
MCCustomServers ==
  <<<<32>>, <<32, 65, 114, 101, 110, 97>>, <<76, 79, 66, 66, 89>>, MCWord.server>>

Root(children) ==
  [flags |-> 0, children |-> children, redirect |-> <<>>, name |-> <<>>, parser |-> <<>>,
   property |-> <<>>, suggestions |-> <<>>]
Literal(text, children) == [Root(children) EXCEPT !.flags = 5, !.name = text]

MCTrees ==
  {[nodes |-> <<Root(<<>>)>>, root |-> 0],
   \* an argument, a redirection, and a name that ends in a byte above 127
   [nodes |-> <<Root(<<1, 3>>), Literal(<<116, 112>>, <<2>>),
                [Root(<<>>) EXCEPT !.flags = 22, !.name = <<116>>, !.parser = 5, !.property = 2,
                                   !.suggestions = MCWord.ask_server],
                [Root(<<>>) EXCEPT !.flags = 9, !.name = <<195, 169>>, !.redirect = 0]>>,
    root |-> 0],
   \* the root is the last node
   [nodes |-> <<Literal(<<116>>, <<>>), Root(<<0>>)>>, root |-> 1],
   \* indices of two bytes, and new ones next to them
   [nodes |-> <<Root([i \in 1 .. 127 |-> i])>> \o [i \in 1 .. 127 |-> Literal(<<97>>, <<>>)],
    root |-> 0]}
=============================================================================
