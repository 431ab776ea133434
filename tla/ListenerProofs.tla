--------------------------- MODULE ListenerProofs ---------------------------
(***************************************************************************)
(* The semaphore of the accept loop for every max_players and every finite *)
(* set of clients, which may connect again and again.                      *)
(***************************************************************************)
EXTENDS Listener, FiniteSetTheorems, TLAPS

(* The inductive invariant: the counter is in range because it balances. *)
Inv == TypeOK /\ PermitsBalance

(* max_conns is a natural number also when max_players is negative. *)
LEMMA LimitType == max_conns \in Nat
BY MaxPlayersAssumption DEF max_conns

(* There are finitely many served connections. *)
LEMMA ServedFinite == IsFiniteSet(ServedNow) /\ Cardinality(ServedNow) \in Nat
<1>1. ServedNow \subseteq Clients
  BY DEF ServedNow
<1> QED
  BY <1>1, ClientsAssumption, FS_Subset, FS_CardinalityType

(* The invariant holds when the listener starts: every permit is free. *)
LEMMA InitInv == Init => Inv
<1> SUFFICES ASSUME Init PROVE Inv
  OBVIOUS
<1>1. ServedNow = {}
  BY DEF Init, ServedNow, Served, Joined
<1>2. TypeOK
  <2>1. permits \in 0 .. max_conns
    BY LimitType DEF Init
  <2>2. stage \in [Clients -> Stages]
    BY DEF Init, Stages
  <2> QED
    BY <2>1, <2>2 DEF Init, TypeOK
<1>3. PermitsBalance
  <2>1. Cardinality(ServedNow) = 0
    BY <1>1, FS_EmptySet
  <2> QED
    BY <2>1, LimitType DEF Init, PermitsBalance
<1> QED
  BY <1>2, <1>3 DEF Inv

(* A step that moves connections about without serving more or fewer of them. *)
LEMMA SameServed ==
  ASSUME Inv, stage' \in [Clients -> Stages], ServedNow' = ServedNow, permits' = permits,
         accepting' \in BOOLEAN, shutdown' \in BOOLEAN, running' = running
  PROVE  Inv'
BY DEF Inv, TypeOK, PermitsBalance

(* The accept arm moves one permit to one more served connection. *)
LEMMA AcceptStep ==
  ASSUME Inv, NEW c \in Clients, Accept(c)
  PROVE  Inv'
<1>1. CASE permits > 0
  <2>1. stage' = [stage EXCEPT ![c] = "greeting"] /\ permits' = permits - 1
    BY <1>1 DEF Accept, Inv, TypeOK
  <2>2. ServedNow' = ServedNow \cup {c} /\ c \notin ServedNow
    BY <2>1 DEF Accept, ServedNow, Served, Joined, Inv, TypeOK
  <2>3. Cardinality(ServedNow') = Cardinality(ServedNow) + 1
    BY <2>2, ServedFinite, FS_AddElement
  <2>4. stage' \in [Clients -> Stages]
    BY <2>1 DEF Inv, TypeOK, Stages, Served
  <2> QED
    BY <1>1, <2>1, <2>3, <2>4, ServedFinite, LimitType
       DEF Accept, Inv, TypeOK, PermitsBalance
<1>2. CASE permits = 0
  <2>1. stage' = [stage EXCEPT ![c] = "rejected"] /\ permits' = permits
    BY <1>2 DEF Accept
  <2>2. ServedNow' = ServedNow
    BY <2>1 DEF Accept, ServedNow, Served, Joined, Inv, TypeOK
  <2>3. stage' \in [Clients -> Stages]
    BY <2>1 DEF Inv, TypeOK, Stages
  <2> QED
    BY <2>1, <2>2, <2>3, SameServed DEF Accept, Inv, TypeOK
<1> QED
  BY <1>1, <1>2, LimitType DEF Inv, TypeOK

(* A task that returns gives back the permit of the connection it served. *)
LEMMA ReturnStep ==
  ASSUME Inv, NEW c \in Clients, Return(c)
  PROVE  Inv'
<1>1. stage' = [stage EXCEPT ![c] = "over"] /\ permits' = permits + 1
  BY DEF Return, ReturnAs
<1>2. ServedNow' = ServedNow \ {c} /\ c \in ServedNow
  BY <1>1 DEF Return, ReturnAs, ServedNow, Served, Joined, Inv, TypeOK
<1>3. Cardinality(ServedNow') = Cardinality(ServedNow) - 1 /\ Cardinality(ServedNow') \in Nat
  BY <1>2, ServedFinite, FS_RemoveElement, FS_CardinalityType
<1>4. stage' \in [Clients -> Stages]
  BY <1>1 DEF Inv, TypeOK, Stages
<1> QED
  BY <1>1, <1>3, <1>4, ServedFinite, LimitType DEF Return, ReturnAs, Inv, TypeOK, PermitsBalance

(* Every step of the listener, its tasks and the process preserves the balance. *)
LEMMA NextInv == Inv /\ [Next]_vars => Inv'
<1> SUFFICES ASSUME Inv, [Next]_vars PROVE Inv'
  OBVIOUS
<1>1. ASSUME NEW c \in Clients, Accept(c) PROVE Inv'
  BY <1>1, AcceptStep
<1>2. ASSUME NEW c \in Clients, Return(c) PROVE Inv'
  BY <1>2, ReturnStep
<1>3. ASSUME NEW c \in Clients, Arrive(c) \/ Join(c) \/ Switch(c) \/ SayGoodbye(c)
      PROVE  Inv'
  <2>1. stage' \in [Clients -> Stages]
    BY <1>3 DEF Arrive, Join, Switch, SayGoodbye, Inv, TypeOK, Stages, Served, Joined
  <2>2. ServedNow' = ServedNow
    BY <1>3 DEF Arrive, Join, Switch, SayGoodbye, Inv, TypeOK, ServedNow, Served, Joined
  <2> QED
    BY <1>3, <2>1, <2>2, SameServed DEF Arrive, Join, Switch, SayGoodbye, Inv, TypeOK
<1>4. CASE StopAccepting
  <2>1. stage' \in [Clients -> Stages]
    BY <1>4 DEF StopAccepting, Inv, TypeOK, Stages
  <2>2. ServedNow' = ServedNow
    BY <1>4 DEF StopAccepting, Inv, TypeOK, ServedNow, Served, Joined
  <2> QED
    BY <1>4, <2>1, <2>2, SameServed DEF StopAccepting, Inv, TypeOK
<1>5. CASE Exit
  <2>1. \A c \in Clients : stage'[c] \in Stages
    BY <1>5 DEF Exit, Inv, TypeOK, Stages
  <2>2. stage' \in [Clients -> Stages]
    BY <1>5, <2>1 DEF Exit
  <2> QED
    BY <1>5, <2>2 DEF Exit, Inv, TypeOK, PermitsBalance
<1>6. CASE Signal \/ Gone \/ UNCHANGED vars
  BY <1>6, SameServed DEF Signal, Gone, vars, Inv, TypeOK, ServedNow
<1> QED
  BY <1>1, <1>2, <1>3, <1>4, <1>5, <1>6 DEF Next

(* Permits and served connections balance: no path out of a client's task leaks a
   permit or returns one twice, and max_conns is never exceeded. *)
THEOREM PermitsAccountedFor == Spec => []PermitsBalance
BY InitInv, NextInv, PTL DEF Spec, Inv

(* The semaphore never holds more than max_conns permits nor fewer than none, and
   every connection is in one of its stages. *)
THEOREM TypeCorrect == Spec => []TypeOK
BY InitInv, NextInv, PTL DEF Spec, Inv

(* The accept loop turns a client away only when max_conns others are served or
   when it is over. *)
THEOREM RejectsOnlyWhenFull == Spec => RejectedOnlyWhenFull
<1>1. Inv /\ [Next]_vars =>
        [\A c \in Clients : stage[c] # "rejected" /\ stage'[c] = "rejected" =>
           Cardinality(ServedNow) = max_conns \/ ~accepting']_vars
  <2> SUFFICES ASSUME Inv, Next, NEW c \in Clients, stage[c] # "rejected",
                      stage'[c] = "rejected"
               PROVE  Cardinality(ServedNow) = max_conns \/ ~accepting'
    BY DEF vars
  <2>1. ASSUME NEW d \in Clients, Accept(d)
        PROVE  Cardinality(ServedNow) = max_conns
    <3>1. permits = 0
      BY <2>1 DEF Accept, Inv, TypeOK
    <3> QED
      BY <2>1, <3>1, ServedFinite DEF Accept, Inv, PermitsBalance
  <2>2. ASSUME NEW d \in Clients,
               Arrive(d) \/ Join(d) \/ Switch(d) \/ SayGoodbye(d) \/ Return(d)
        PROVE  FALSE
    BY <2>2 DEF Arrive, Join, Switch, SayGoodbye, Return, ReturnAs, Inv, TypeOK
  <2>3. CASE StopAccepting \/ Exit
    BY <2>3 DEF StopAccepting, Exit
  <2>4. CASE Signal \/ Gone
    BY <2>4 DEF Signal, Gone, vars
  <2> QED
    BY <2>1, <2>2, <2>3, <2>4 DEF Next
<1> QED
  BY <1>1, InitInv, NextInv, PTL DEF Spec, RejectedOnlyWhenFull
=============================================================================
