--------------------------- MODULE ScriptHostProofs ---------------------------
(***************************************************************************)
(* The script host for any number of sessions and loaders, any files and   *)
(* any scripts.  SeesOneVersion rests on the guard on the plugins, which   *)
(* an evaluation keeps until it has its answer; so the invariant follows   *)
(* the two locks: who holds or awaits them is who the state of the         *)
(* evaluations and of the loads says, and a writer holds them alone.       *)
(***************************************************************************)
EXTENDS ScriptHost, SequenceTheorems, WellFoundedInduction, TLAPS

Tasks      == Players \cup Writers
Hooks      == {"join", "command", "tab"}
AllScripts == UNION {Scripts[f] : f \in Files}
AllResults == UNION {Outcomes(s, h) : s \in AllScripts, h \in Hooks}

Plugin == [name : ToSet(PluginFiles), ast : AllScripts]
Entry  == [nth : Nat, ast : AllScripts, outcome : AllResults]

TypeInv ==
  /\ plugins \in Seq(Plugin)
  /\ \A i \in DOMAIN plugins : plugins[i].ast \in Scripts[plugins[i].name]
  /\ ast \in Scripts[MainFile] \cup {NoScript}
  /\ job \in [Writers -> [file : Files, script : AllScripts \cup {NoScript}]]
  /\ \A l \in Writers : job[l] = NoJob \/ job[l].script \in Scripts[job[l].file]
  /\ todo \in Seq(Files)
  /\ DOMAIN eval = Players

(* What belongs to one evaluation. *)
EvalType(e) ==
  /\ e = [at |-> e.at, hook |-> e.hook, asked |-> e.asked, trace |-> e.trace,
          result |-> e.result]
  /\ e.at \in {"idle", "plugins", "main", "answered"} /\ e.hook \in Hooks
  /\ e.asked \in Nat /\ e.trace \in Seq(Entry)

DistinctNames == \A i, j \in DOMAIN plugins : plugins[i].name = plugins[j].name => i = j

-----------------------------------------------------------------------------
(* A lock: who holds it, h, and who awaits it, q. *)
In(x, h, q) == x \in h \/ \E i \in DOMAIN q : q[i] = x

LockOK(h, q) ==
  /\ h \subseteq Tasks /\ q \in Seq(Tasks)
  /\ \A i, j \in DOMAIN q : q[i] = q[j] => i = j
  /\ \A i \in DOMAIN q : q[i] \notin h
  /\ \A w \in Writers : w \in h => h = {w}

At(x, lock) == In(x, held[lock], queue[lock])

LocksOK ==
  /\ held \in [Locks -> SUBSET Tasks] /\ DOMAIN queue = Locks
  /\ \A lock \in Locks : LockOK(held[lock], queue[lock])

(* Who holds or awaits which lock. *)
WritersPlaced ==
  \A w \in Writers, lock \in Locks : At(w, lock) => job[w] # NoJob /\ lock = LockOf(job[w].file)

PlayersPlaced ==
  \A p \in Players :
    /\ At(p, "plugins") <=> eval[p].at \in {"plugins", "main"}
    /\ At(p, "ast") <=> eval[p].at = "main"
    /\ eval[p].at = "main" => p \in held["plugins"]

(* Who awaits the plugins has not begun. *)
Waiting ==
  \A p \in Players : eval[p].at = "plugins" /\ p \notin held["plugins"] =>
    eval[p].asked = 0 /\ eval[p].trace = <<>>

(* What SeesOneVersion says of one evaluation and the list of plugins. *)
Seen(e, list) ==
  /\ e.asked <= Len(list)
  /\ \A i \in DOMAIN e.trace : /\ e.trace[i].nth \in 1 .. e.asked
                               /\ e.trace[i].ast = list[e.trace[i].nth].ast
  /\ \A i, j \in DOMAIN e.trace : i < j => e.trace[i].nth < e.trace[j].nth
  /\ \A n \in 1 .. e.asked :
       Defines(list[n].ast, e.hook) <=> \E i \in DOMAIN e.trace : e.trace[i].nth = n

(* Suggestions are a list of any values, of which none is there twice. *)
IsList(s)   == s \in Seq(ToSet(s))
Distinct(s) == \A i, j \in DOMAIN s : s[i] = s[j] => i = j
Keeps(r, s) == \A i \in DOMAIN r : i \in DOMAIN s /\ s[i] = r[i]
TabShape(r) == r = [results |-> r.results] /\ IsList(r.results)

(* What an evaluation has so far: it follows the rule of its hook, and before the answer
   nothing that was said has decided it. *)
JoinShape(r) == r = [allow |-> r.allow, disconnect_reason |-> r.disconnect_reason,
                     target_server |-> r.target_server]
Undecided(e) == \A i \in DOMAIN e.trace : ~Decides(e.hook, e.trace[i].outcome)
Ruled(e) ==
  /\ e.hook = "join" => JoinShape(e.result) /\ JoinRule(e.trace, e.result)
  /\ e.hook = "command" => CommandRule(e.trace, e.result)
  /\ e.hook = "tab" => TabShape(e.result) /\ TabRule(e.trace, e.result)

EvalInv(e, list) ==
  /\ EvalType(e) /\ Ruled(e)
  /\ e.at \in {"plugins", "main"} => Seen(e, list)
  /\ e.at # "answered" => Undecided(e)

Inv ==
  /\ TypeInv /\ DistinctNames /\ LocksOK /\ WritersPlaced /\ PlayersPlaced /\ Waiting
  /\ \A p \in Players : EvalInv(eval[p], plugins)

-----------------------------------------------------------------------------
LEMMA TasksDisjoint == Players \cap Writers = {}
BY TasksAssumption DEF Players, Writers

LEMMA LeastElement ==
  ASSUME NEW S, S \subseteq Nat, S # {}
  PROVE  \E n \in S : \A m \in S : n <= m
<1>1. PICK n \in S : \A m \in S : ~(<<m, n>> \in OpToRel(<, Nat))
  BY WFMin, NatLessThanWellFounded, Zenon
<1>2. \A m \in S : ~(m < n)
  BY <1>1 DEF OpToRel
<1>3. QED
  BY <1>2

(* tokio's RwLock, as Wait and Release have it.  Who is let in: the waiters up to the
   first writer if there is no writer inside, or a writer alone. *)
LEMMA AdmittedShape ==
  ASSUME NEW q \in Seq(Tasks), NEW h
  PROVE  LET n == Admitted(q, h)
         IN /\ n \in 0 .. Len(q)
            /\ \/ n = 1 /\ q[1] \in Writers /\ h = {}
               \/ n = 0
               \/ h \cap Writers = {} /\ \A i \in 1 .. n : q[i] \in Players
<1> DEFINE Readers(n) == /\ \A i \in 1 .. n : q[i] \in Players
                         /\ n = Len(q) \/ q[n + 1] \in Writers
           S          == {k \in Nat : k = Len(q) \/ (k < Len(q) /\ q[k + 1] \in Writers)}
<1>1. Len(q) \in Nat /\ Len(q) \in S /\ \A i \in 1 .. Len(q) : q[i] \in Tasks
  BY LenProperties, ElementOfSeq
<1>2. PICK n \in S : \A m \in S : n <= m
  <2>1. S # {} /\ S \subseteq Nat
    BY <1>1
  <2> HIDE DEF S
  <2>2. QED
    BY <2>1, LeastElement
<1>3. n \in 0 .. Len(q)
  BY <1>1, <1>2
<1>4. Readers(n)
  <2>1. n = Len(q) \/ q[n + 1] \in Writers
    BY <1>2
  <2>2. ASSUME NEW i \in 1 .. n PROVE q[i] \in Players
    <3>1. i - 1 \in Nat /\ i - 1 < n /\ i - 1 < Len(q) /\ (i - 1) + 1 = i /\ i \in 1 .. Len(q)
      BY <1>1, <1>3
    <3>2. i - 1 \notin S
      BY <1>2, <1>3, <3>1
    <3>3. q[i] \notin Writers
      BY <3>1, <3>2
    <3>4. QED
      BY <1>1, <3>1, <3>3 DEF Tasks
  <2>3. QED
    BY <2>1, <2>2
<1> DEFINE readers == CHOOSE k \in 0 .. Len(q) : Readers(k)
<1>5. readers \in 0 .. Len(q) /\ Readers(readers)
  BY <1>3, <1>4
<1>6. Admitted(q, h) = IF h = {} /\ q # <<>> /\ readers = 0 THEN 1
                       ELSE IF h \cap Writers = {} THEN readers ELSE 0
  BY DEF Admitted
<1> HIDE DEF readers
<1>7. CASE h = {} /\ q # <<>> /\ readers = 0
  <2>1. Len(q) > 0
    BY <1>1, <1>7, EmptySeq
  <2>2. q[0 + 1] \in Writers
    BY <1>5, <1>7, <2>1
  <2>3. QED
    BY <1>1, <1>6, <1>7, <2>1, <2>2
<1>8. CASE ~(h = {} /\ q # <<>> /\ readers = 0)
  <2>1. CASE h \cap Writers = {}
    BY <1>5, <1>6, <1>8, <2>1
  <2>2. CASE h \cap Writers # {}
    BY <1>1, <1>6, <1>8, <2>2
  <2>3. QED
    BY <2>1, <2>2
<1>9. QED
  BY <1>7, <1>8

(* Who may come in at once. *)
LEMMA Enters ==
  ASSUME NEW h, NEW q, LockOK(h, q), q = <<>>, NEW x \in Tasks, Compatible(x, h)
  PROVE  /\ LockOK(h \cup {x}, q)
         /\ \A y : In(y, h \cup {x}, q) <=> In(y, h, q) \/ y = x
<1>1. DOMAIN q = {}
  BY EmptySeq, LenProperties
<1>2. ASSUME NEW w \in Writers, w \in h \cup {x} PROVE h \cup {x} = {w}
  <2>1. CASE x \in Writers
    BY <1>2, <2>1 DEF Compatible
  <2>2. CASE x \notin Writers
    BY <1>2, <2>2 DEF Compatible
  <2>3. QED
    BY <2>1, <2>2
<1>3. LockOK(h \cup {x}, q)
  BY <1>1, <1>2 DEF LockOK
<1>4. QED
  BY <1>1, <1>3 DEF In

(* Who has to wait. *)
LEMMA Queues ==
  ASSUME NEW h, NEW q, LockOK(h, q), NEW x \in Tasks, ~In(x, h, q)
  PROVE  /\ LockOK(h, Append(q, x))
         /\ \A y : In(y, h, Append(q, x)) <=> In(y, h, q) \/ y = x
<1> DEFINE r == Append(q, x)
<1>1. /\ q \in Seq(Tasks) /\ Len(q) \in Nat /\ DOMAIN q = 1 .. Len(q)
      /\ \A i, j \in DOMAIN q : q[i] = q[j] => i = j
      /\ \A i \in DOMAIN q : q[i] \notin h
  BY LenProperties DEF LockOK
<1>2. /\ r \in Seq(Tasks) /\ Len(r) = Len(q) + 1 /\ DOMAIN r = 1 .. Len(q) + 1
      /\ \A i \in 1 .. Len(q) : r[i] = q[i]
      /\ r[Len(q) + 1] = x
  <2>1. /\ r \in Seq(Tasks) /\ Len(r) = Len(q) + 1
        /\ \A i \in 1 .. Len(q) : r[i] = q[i]
        /\ r[Len(q) + 1] = x
    BY <1>1, AppendProperties
  <2>2. QED
    BY <2>1, LenProperties
<1> HIDE DEF r
<1>3. \A i \in DOMAIN r : (i \in DOMAIN q /\ r[i] = q[i]) \/ (i = Len(q) + 1 /\ r[i] = x)
  BY <1>1, <1>2
<1>4. \A i \in DOMAIN q : i \in DOMAIN r /\ r[i] = q[i]
  BY <1>1, <1>2
<1>5. Len(q) + 1 \in DOMAIN r
  BY <1>1, <1>2
<1>6. \A i \in DOMAIN q : q[i] # x
  BY DEF In
<1>7. \A i, j \in DOMAIN r : r[i] = r[j] => i = j
  BY <1>1, <1>3, <1>6
<1>8. \A i \in DOMAIN r : r[i] \notin h
  BY <1>1, <1>3 DEF In
<1>9. LockOK(h, r)
  BY <1>2, <1>7, <1>8 DEF LockOK
<1>10. \A y : In(y, h, r) <=> In(y, h, q) \/ y = x
  BY <1>2, <1>3, <1>4, <1>5 DEF In
<1>11. QED
  BY <1>9, <1>10 DEF r

(* Who leaves, and who comes in then. *)
LEMMA Leaves ==
  ASSUME NEW h, NEW q, LockOK(h, q), NEW x \in h
  PROVE  LET n  == Admitted(q, h \ {x})
             h2 == (h \ {x}) \cup {q[i] : i \in 1 .. n}
             q2 == SubSeq(q, n + 1, Len(q))
         IN /\ LockOK(h2, q2)
            /\ \A y : In(y, h2, q2) <=> In(y, h, q) /\ y # x
<1> DEFINE n  == Admitted(q, h \ {x})
           h2 == (h \ {x}) \cup {q[i] : i \in 1 .. n}
           q2 == SubSeq(q, n + 1, Len(q))
<1>1. /\ q \in Seq(Tasks) /\ h \subseteq Tasks /\ Len(q) \in Nat /\ DOMAIN q = 1 .. Len(q)
      /\ \A i, j \in DOMAIN q : q[i] = q[j] => i = j
      /\ \A i \in DOMAIN q : q[i] \notin h
      /\ \A w \in Writers : w \in h => h = {w}
      /\ \A i \in DOMAIN q : q[i] \in Tasks
  BY LenProperties, ElementOfSeq DEF LockOK
<1>2. /\ n \in 0 .. Len(q)
      /\ \/ n = 1 /\ q[1] \in Writers /\ h \ {x} = {}
         \/ n = 0
         \/ (h \ {x}) \cap Writers = {} /\ \A i \in 1 .. n : q[i] \in Players
  BY <1>1, AdmittedShape
<1> HIDE DEF n
<1>3. /\ q2 \in Seq(Tasks) /\ Len(q2) = Len(q) - n /\ DOMAIN q2 = 1 .. Len(q) - n
      /\ \A i \in 1 .. Len(q) - n : q2[i] = q[n + i] /\ n + i \in DOMAIN q
  <2>1. n + 1 \in Int /\ Len(q) \in Int /\ \A i \in n + 1 .. Len(q) : q[i] \in Tasks
    BY <1>1, <1>2
  <2>2. /\ q2 \in Seq(Tasks) /\ Len(q2) = IF n + 1 <= Len(q) THEN Len(q) - (n + 1) + 1 ELSE 0
        /\ \A i \in 1 .. Len(q) - (n + 1) + 1 : q2[i] = q[(n + 1) + i - 1]
    BY <2>1, SubSeqProperties
  <2> HIDE DEF q2
  <2>3. Len(q2) = Len(q) - n
    <3>1. n \in Int /\ n <= Len(q) /\ Len(q) \in Int
      BY <1>1, <1>2
    <3>2. CASE n + 1 <= Len(q)
      BY <2>2, <3>1, <3>2
    <3>3. CASE ~(n + 1 <= Len(q))
      BY <2>2, <3>1, <3>3
    <3>4. QED
      BY <3>2, <3>3
  <2>4. ASSUME NEW i \in 1 .. Len(q) - n PROVE q2[i] = q[n + i] /\ n + i \in DOMAIN q
    <3>1. i \in 1 .. Len(q) - (n + 1) + 1 /\ (n + 1) + i - 1 = n + i /\ n + i \in 1 .. Len(q)
      BY <1>1, <1>2
    <3>2. QED
      BY <1>1, <2>2, <3>1
  <2>5. DOMAIN q2 = 1 .. Len(q) - n
    BY <2>2, <2>3, LenProperties
  <2>6. QED
    BY <2>2, <2>3, <2>4, <2>5
<1> HIDE DEF q2
<1>4. \A i \in 1 .. n : i \in DOMAIN q
  BY <1>1, <1>2
<1>5. \A i \in DOMAIN q : i \in 1 .. n \/ (i - n \in DOMAIN q2 /\ q2[i - n] = q[i])
  <2> SUFFICES ASSUME NEW i \in DOMAIN q, i \notin 1 .. n
               PROVE  i - n \in DOMAIN q2 /\ q2[i - n] = q[i]
    OBVIOUS
  <2>1. i - n \in 1 .. Len(q) - n /\ n + (i - n) = i
    BY <1>1, <1>2
  <2>2. QED
    BY <1>3, <2>1
<1>6. \A i, j \in DOMAIN q2 : q2[i] = q2[j] => i = j
  <2> SUFFICES ASSUME NEW i \in DOMAIN q2, NEW j \in DOMAIN q2, q2[i] = q2[j] PROVE i = j
    OBVIOUS
  <2>1. n + i = n + j
    BY <1>1, <1>3
  <2>2. QED
    BY <1>2, <1>3, <2>1
<1>7. \A i \in DOMAIN q2 : q2[i] \notin h2
  <2> SUFFICES ASSUME NEW i \in DOMAIN q2, NEW k \in 1 .. n, q2[i] = q[k] PROVE FALSE
    BY <1>1, <1>3
  <2>1. n + i = k
    BY <1>1, <1>3, <1>4
  <2>2. QED
    BY <1>2, <1>3, <2>1
<1>8. ASSUME NEW w \in Writers, w \in h2 PROVE h2 = {w}
  <2>1. CASE n = 1 /\ q[1] \in Writers /\ h \ {x} = {}
    BY <1>8, <2>1
  <2>2. CASE n = 0
    BY <1>1, <1>8, <2>2
  <2>3. CASE (h \ {x}) \cap Writers = {} /\ \A i \in 1 .. n : q[i] \in Players
    BY <1>8, <2>3, TasksDisjoint
  <2>4. QED
    BY <1>2, <2>1, <2>2, <2>3
<1>9. h2 \subseteq Tasks
  BY <1>1, <1>4
<1>10. LockOK(h2, q2)
  BY <1>3, <1>6, <1>7, <1>8, <1>9 DEF LockOK
<1>11. ASSUME NEW y PROVE In(y, h2, q2) <=> In(y, h, q) /\ y # x
  <2>1. ASSUME In(y, h2, q2) PROVE In(y, h, q) /\ y # x
    <3>1. CASE y \in h \ {x}
      BY <3>1 DEF In
    <3>2. CASE \E i \in 1 .. n : y = q[i]
      <4>1. PICK i \in DOMAIN q : q[i] = y
        BY <1>4, <3>2
      <4>2. y \notin h
        BY <1>1, <4>1
      <4>3. QED
        BY <4>1, <4>2 DEF In
    <3>3. CASE \E i \in DOMAIN q2 : q2[i] = y
      <4>1. PICK i \in DOMAIN q2 : q2[i] = y
        BY <3>3
      <4>2. n + i \in DOMAIN q /\ q[n + i] = y
        BY <1>3, <4>1
      <4>3. y \notin h
        BY <1>1, <4>2
      <4>4. QED
        BY <4>2, <4>3 DEF In
    <3>4. QED
      BY <2>1, <3>1, <3>2, <3>3 DEF In
  <2>2. ASSUME In(y, h, q), y # x PROVE In(y, h2, q2)
    BY <1>5, <2>2 DEF In
  <2>3. QED
    BY <2>1, <2>2
<1>12. QED
  BY <1>10, <1>11 DEF q2, n

-----------------------------------------------------------------------------
(* The same of the two locks. *)
LEMMA WaitStep ==
  ASSUME LocksOK, NEW x \in Tasks, NEW lock \in Locks, ~At(x, lock), Wait(x, lock)
  PROVE  /\ LocksOK'
         /\ \A y \in Tasks, l \in Locks : In(y, held'[l], queue'[l]) <=> At(y, l) \/ (y = x /\ l = lock)
         /\ \A l \in Locks : held[l] \subseteq held'[l]
<1>1. ~In(x, held[lock], queue[lock]) /\ LockOK(held[lock], queue[lock])
  BY DEF At, LocksOK
<1>2. CASE queue[lock] = <<>> /\ Compatible(x, held[lock])
  <2>1. held' = [held EXCEPT ![lock] = @ \cup {x}] /\ queue' = queue
    BY <1>2 DEF Wait
  <2>2. /\ LockOK(held[lock] \cup {x}, queue[lock])
        /\ \A y : In(y, held[lock] \cup {x}, queue[lock]) <=> In(y, held[lock], queue[lock]) \/ y = x
    BY <1>1, <1>2, Enters
  <2>3. /\ DOMAIN held' = Locks /\ DOMAIN queue' = Locks
        /\ held' \in [Locks -> SUBSET Tasks]
        /\ held'[lock] = held[lock] \cup {x}
        /\ \A l \in Locks : queue'[l] = queue[l] /\ (l # lock => held'[l] = held[l])
    BY <2>1 DEF LocksOK
  <2>4. \A l \in Locks : LockOK(held'[l], queue'[l])
    BY <2>2, <2>3 DEF LocksOK
  <2>5. ASSUME NEW y, NEW l \in Locks
        PROVE  In(y, held'[l], queue'[l]) <=> At(y, l) \/ (y = x /\ l = lock)
    BY <2>2, <2>3 DEF At
  <2>6. \A l \in Locks : held[l] \subseteq held'[l]
    BY <2>3
  <2>7. QED
    BY <2>3, <2>4, <2>5, <2>6 DEF LocksOK
<1>3. CASE ~(queue[lock] = <<>> /\ Compatible(x, held[lock]))
  <2>1. queue' = [queue EXCEPT ![lock] = Append(@, x)] /\ held' = held
    BY <1>3 DEF Wait
  <2>2. /\ LockOK(held[lock], Append(queue[lock], x))
        /\ \A y : In(y, held[lock], Append(queue[lock], x)) <=> In(y, held[lock], queue[lock]) \/ y = x
    BY <1>1, Queues
  <2>3. /\ DOMAIN held' = Locks /\ DOMAIN queue' = Locks
        /\ held' \in [Locks -> SUBSET Tasks]
        /\ queue'[lock] = Append(queue[lock], x)
        /\ \A l \in Locks : held'[l] = held[l] /\ (l # lock => queue'[l] = queue[l])
    BY <2>1 DEF LocksOK
  <2>4. \A l \in Locks : LockOK(held'[l], queue'[l])
    BY <2>2, <2>3 DEF LocksOK
  <2>5. ASSUME NEW y, NEW l \in Locks
        PROVE  In(y, held'[l], queue'[l]) <=> At(y, l) \/ (y = x /\ l = lock)
    BY <2>2, <2>3 DEF At
  <2>6. \A l \in Locks : held[l] \subseteq held'[l]
    BY <2>3
  <2>7. QED
    BY <2>3, <2>4, <2>5, <2>6 DEF LocksOK
<1>4. QED
  BY <1>2, <1>3

LEMMA ReleaseStep ==
  ASSUME LocksOK, NEW x, Release(x)
  PROVE  /\ LocksOK'
         /\ \A y \in Tasks, l \in Locks :
              In(y, held'[l], queue'[l]) <=> At(y, l) /\ ~(y = x /\ x \in held[l])
         /\ \A l \in Locks : held[l] \ {x} \subseteq held'[l]
<1>1. DOMAIN held' = Locks /\ DOMAIN queue' = Locks
  BY DEF Release
<1>2. ASSUME NEW l \in Locks
      PROVE  /\ LockOK(held'[l], queue'[l])
             /\ \A y : In(y, held'[l], queue'[l]) <=> At(y, l) /\ ~(y = x /\ x \in held[l])
             /\ held[l] \ {x} \subseteq held'[l]
  <2>1. LockOK(held[l], queue[l])
    BY DEF LocksOK
  <2>2. CASE x \in held[l]
    <3> DEFINE n  == Admitted(queue[l], held[l] \ {x})
               h2 == (held[l] \ {x}) \cup {queue[l][i] : i \in 1 .. n}
               q2 == SubSeq(queue[l], n + 1, Len(queue[l]))
    <3>1. held'[l] = h2 /\ queue'[l] = q2
      BY <2>2 DEF Release
    <3>2. LockOK(h2, q2) /\ \A y : In(y, h2, q2) <=> In(y, held[l], queue[l]) /\ y # x
      BY <2>1, <2>2, Leaves
    <3>3. held[l] \ {x} \subseteq h2
      OBVIOUS
    <3> HIDE DEF h2, q2
    <3>4. QED
      BY <2>2, <3>1, <3>2, <3>3 DEF At
  <2>3. CASE x \notin held[l]
    <3>1. /\ held'[l] = (held[l] \ {x}) \cup {queue[l][i] : i \in 1 .. 0}
          /\ queue'[l] = SubSeq(queue[l], 0 + 1, Len(queue[l]))
      BY <2>3 DEF Release
    <3>2. held'[l] = held[l]
      BY <2>3, <3>1
    <3>3. queue[l] \in Seq(Tasks)
      BY <2>1 DEF LockOK
    <3>4. SubSeq(queue[l], 1, Len(queue[l])) = queue[l]
      BY <3>3, SubSeqFull
    <3>5. queue'[l] = queue[l]
      BY <3>1, <3>4
    <3>6. QED
      BY <2>1, <2>3, <3>2, <3>5 DEF At
  <2>4. QED
    BY <2>2, <2>3
<1>3. held' \in [Locks -> SUBSET Tasks]
  <2>1. \A l \in Locks : held'[l] \subseteq Tasks
    BY <1>2 DEF LockOK
  <2>2. held' = [l \in Locks |-> held'[l]]
    BY DEF Release
  <2>3. QED
    BY <2>1, <2>2
<1>4. QED
  BY <1>1, <1>2, <1>3 DEF LocksOK

-----------------------------------------------------------------------------
(* A load gives a plugin its place or keeps it there. *)
LEMMA RegisteredShape ==
  ASSUME NEW list \in Seq(Plugin), NEW file \in ToSet(PluginFiles), NEW script \in Scripts[file],
         \A i \in DOMAIN list : list[i].ast \in Scripts[list[i].name],
         \A i, j \in DOMAIN list : list[i].name = list[j].name => i = j
  PROVE  LET list2 == Registered(list, file, script)
         IN /\ list2 \in Seq(Plugin) /\ Len(list) <= Len(list2)
            /\ \A i \in DOMAIN list : list2[i].name = list[i].name
            /\ \A i \in DOMAIN list2 : list2[i].ast \in Scripts[list2[i].name]
            /\ \A i, j \in DOMAIN list2 : list2[i].name = list2[j].name => i = j
<1> DEFINE new   == [name |-> file, ast |-> script]
           list2 == Registered(list, file, script)
<1>1. new \in Plugin /\ new.name = file /\ new.ast = script
  BY DEF Plugin, AllScripts, Files
<1>2. Len(list) \in Nat /\ DOMAIN list = 1 .. Len(list) /\ \A i \in DOMAIN list : list[i] \in Plugin
  BY LenProperties, ElementOfSeq
<1> HIDE DEF new
<1>3. CASE \E i \in DOMAIN list : list[i].name = file
  <2>1. list2 = [i \in DOMAIN list |-> IF list[i].name = file THEN new ELSE list[i]]
    BY <1>3 DEF Registered, new
  <2>2. DOMAIN list2 = 1 .. Len(list) /\ \A i \in 1 .. Len(list) : list2[i] \in Plugin
    BY <1>1, <1>2, <2>1
  <2>3. list2 \in [1 .. Len(list) -> Plugin]
    BY <1>1, <1>2, <2>1
  <2>4. list2 \in Seq(Plugin)
    BY <1>2, <2>3, IsASeq
  <2>5. Len(list2) = Len(list)
    BY <1>2, <2>2, <2>4, LenProperties
  <2>6. \A i \in DOMAIN list : list2[i].name = list[i].name
    BY <1>1, <2>1
  <2>7. \A i \in DOMAIN list : list2[i].ast \in Scripts[list2[i].name]
    BY <1>1, <2>1
  <2> HIDE DEF list2
  <2>8. QED
    BY <1>2, <2>2, <2>4, <2>5, <2>6, <2>7 DEF list2
<1>4. CASE ~\E i \in DOMAIN list : list[i].name = file
  <2>1. list2 = Append(list, new)
    BY <1>4 DEF Registered, new
  <2>2. /\ list2 \in Seq(Plugin) /\ Len(list2) = Len(list) + 1
        /\ \A i \in 1 .. Len(list) : list2[i] = list[i]
        /\ list2[Len(list) + 1] = new
    BY <1>1, <2>1, AppendProperties
  <2>3. DOMAIN list2 = 1 .. Len(list) + 1
    BY <2>2, LenProperties
  <2> HIDE DEF list2
  <2>4. \A i \in DOMAIN list2 : (i \in DOMAIN list /\ list2[i] = list[i]) \/ (i = Len(list) + 1 /\ list2[i] = new)
    BY <1>2, <2>2, <2>3
  <2>5. \A i \in DOMAIN list : list2[i].name = list[i].name
    BY <1>2, <2>2
  <2>6. \A i \in DOMAIN list2 : list2[i].ast \in Scripts[list2[i].name]
    BY <1>1, <2>4
  <2>7. \A i, j \in DOMAIN list2 : list2[i].name = list2[j].name => i = j
    BY <1>1, <1>4, <2>4
  <2>8. Len(list) <= Len(list2)
    BY <1>2, <2>2
  <2>9. QED
    BY <2>2, <2>5, <2>6, <2>7, <2>8 DEF list2
<1>5. QED
  BY <1>3, <1>4

-----------------------------------------------------------------------------
(* One evaluation. *)
LEMMA TraceGrows ==
  ASSUME NEW t \in Seq(Entry), NEW x \in Entry
  PROVE  /\ Append(t, x) \in Seq(Entry) /\ Len(t) \in Nat /\ DOMAIN t = 1 .. Len(t)
         /\ DOMAIN Append(t, x) = 1 .. Len(t) + 1 /\ Len(Append(t, x)) = Len(t) + 1
         /\ \A i \in DOMAIN t : Append(t, x)[i] = t[i]
         /\ Append(t, x)[Len(t) + 1] = x
<1>1. Len(t) \in Nat /\ DOMAIN t = 1 .. Len(t)
  BY LenProperties
<1>2. /\ Append(t, x) \in Seq(Entry) /\ Len(Append(t, x)) = Len(t) + 1
      /\ \A i \in 1 .. Len(t) : Append(t, x)[i] = t[i]
      /\ Append(t, x)[Len(t) + 1] = x
  BY AppendProperties
<1>3. DOMAIN Append(t, x) = 1 .. Len(t) + 1
  BY <1>2, LenProperties
<1>4. QED
  BY <1>1, <1>2, <1>3

(* Before the first plugin. *)
LEMMA SeenAtFirst ==
  ASSUME NEW e, NEW list \in Seq(Plugin), e.asked = 0, e.trace = <<>>
  PROVE  Seen(e, list)
<1>1. DOMAIN e.trace = {} /\ Len(list) \in Nat
  BY EmptySeq, LenProperties
<1>2. QED
  BY <1>1 DEF Seen

(* A plugin without the hook. *)
LEMMA SeenSkip ==
  ASSUME NEW e, NEW e2, NEW list \in Seq(Plugin), EvalType(e), Seen(e, list),
         e.asked < Len(list), ~Defines(list[e.asked + 1].ast, e.hook),
         e2.asked = e.asked + 1, e2.trace = e.trace, e2.hook = e.hook
  PROVE  Seen(e2, list)
<1>1. e.asked \in Nat /\ Len(list) \in Nat
  BY LenProperties DEF EvalType
<1>2. ASSUME NEW n \in 1 .. e2.asked
      PROVE  Defines(list[n].ast, e.hook) <=> \E i \in DOMAIN e.trace : e.trace[i].nth = n
  <2>1. CASE n \in 1 .. e.asked
    BY <2>1 DEF Seen
  <2>2. CASE n = e.asked + 1
    BY <1>1, <2>2 DEF Seen
  <2>3. QED
    BY <1>1, <2>1, <2>2
<1>3. \A i \in DOMAIN e.trace : e.trace[i].nth \in 1 .. e2.asked
  BY <1>1 DEF Seen
<1>4. QED
  BY <1>1, <1>2, <1>3 DEF Seen

(* A plugin whose hook has run. *)
LEMMA SeenRun ==
  ASSUME NEW e, NEW e2, NEW list \in Seq(Plugin), NEW x \in Entry, EvalType(e), Seen(e, list),
         e.asked < Len(list), Defines(list[e.asked + 1].ast, e.hook),
         x.nth = e.asked + 1, x.ast = list[e.asked + 1].ast,
         e2.asked = e.asked + 1, e2.trace = Append(e.trace, x), e2.hook = e.hook
  PROVE  Seen(e2, list)
<1> DEFINE t == e.trace
<1>1. e.asked \in Nat /\ Len(list) \in Nat /\ t \in Seq(Entry)
  BY LenProperties DEF EvalType
<1>2. /\ Len(t) \in Nat /\ DOMAIN t = 1 .. Len(t) /\ DOMAIN e2.trace = 1 .. Len(t) + 1
      /\ \A i \in DOMAIN t : e2.trace[i] = t[i]
      /\ e2.trace[Len(t) + 1] = x
  BY <1>1, TraceGrows
<1>3. /\ \A i \in DOMAIN t : i \in DOMAIN e2.trace /\ e2.trace[i] = t[i]
      /\ Len(t) + 1 \in DOMAIN e2.trace
      /\ \A i \in DOMAIN e2.trace : (i \in DOMAIN t /\ e2.trace[i] = t[i]) \/ (i = Len(t) + 1 /\ e2.trace[i] = x)
  BY <1>2
<1>4. /\ \A i \in DOMAIN t : t[i].nth \in 1 .. e.asked /\ t[i].ast = list[t[i].nth].ast
      /\ \A i, j \in DOMAIN t : i < j => t[i].nth < t[j].nth
      /\ \A n \in 1 .. e.asked : Defines(list[n].ast, e.hook) <=> \E i \in DOMAIN t : t[i].nth = n
  BY DEF Seen
<1> HIDE DEF t
<1>5. ASSUME NEW i \in DOMAIN e2.trace
      PROVE  e2.trace[i].nth \in 1 .. e2.asked /\ e2.trace[i].ast = list[e2.trace[i].nth].ast
  <2>1. CASE i \in DOMAIN t /\ e2.trace[i] = t[i]
    BY <1>1, <1>4, <2>1
  <2>2. CASE e2.trace[i] = x
    BY <1>1, <2>2
  <2>3. QED
    BY <1>3, <2>1, <2>2
<1>6. ASSUME NEW i \in DOMAIN e2.trace, NEW j \in DOMAIN e2.trace, i < j
      PROVE  e2.trace[i].nth < e2.trace[j].nth
  <2>1. i \in DOMAIN t /\ e2.trace[i] = t[i]
    BY <1>2, <1>3, <1>6
  <2>2. CASE j \in DOMAIN t /\ e2.trace[j] = t[j]
    BY <1>4, <1>6, <2>1, <2>2
  <2>3. CASE e2.trace[j] = x
    BY <1>1, <1>4, <2>1, <2>3
  <2>4. QED
    BY <1>3, <2>2, <2>3
<1>7. ASSUME NEW n \in 1 .. e2.asked
      PROVE  Defines(list[n].ast, e2.hook) <=> \E i \in DOMAIN e2.trace : e2.trace[i].nth = n
  <2>1. CASE n \in 1 .. e.asked
    <3>1. x.nth # n
      BY <1>1, <2>1
    <3>2. (\E i \in DOMAIN e2.trace : e2.trace[i].nth = n) <=> \E i \in DOMAIN t : t[i].nth = n
      BY <1>3, <3>1
    <3>3. QED
      BY <1>4, <2>1, <3>2
  <2>2. CASE n = e.asked + 1
    BY <1>3, <2>2
  <2>3. QED
    BY <1>1, <2>1, <2>2
<1>8. e2.asked <= Len(list)
  BY <1>1
<1>9. QED
  BY <1>5, <1>6, <1>7, <1>8, Zenon DEF Seen

-----------------------------------------------------------------------------
(* The texts among the items of an array. *)
Texts(items) == {x.text : x \in {y \in items : "text" \in DOMAIN y}}

LEMMA ListShape ==
  ASSUME NEW s, IsList(s)
  PROVE  /\ Len(s) \in Nat /\ DOMAIN s = 1 .. Len(s)
         /\ \A y : y \in ToSet(s) <=> \E i \in 1 .. Len(s) : s[i] = y
<1>1. Len(s) \in Nat /\ DOMAIN s = 1 .. Len(s)
  BY LenProperties DEF IsList
<1>2. \A y : y \in ToSet(s) <=> \E i \in DOMAIN s : s[i] = y
  BY Zenon DEF ToSet
<1>3. QED
  BY <1>1, <1>2, Zenon

LEMMA ListGrows ==
  ASSUME NEW s, IsList(s), NEW y
  PROVE  /\ IsList(Append(s, y)) /\ ToSet(Append(s, y)) = ToSet(s) \cup {y}
         /\ y \notin ToSet(s) /\ Distinct(s) => Distinct(Append(s, y))
         /\ Keeps(s, Append(s, y))
<1> DEFINE u == Append(s, y)
           T == ToSet(s) \cup {y}
<1>1. Len(s) \in Nat /\ DOMAIN s = 1 .. Len(s)
  BY ListShape
<1>2. s \in Seq(T)
  <2>1. s \in [1 .. Len(s) -> T]
    <3>1. s \in Seq(ToSet(s))
      BY DEF IsList
    <3>2. s \in [1 .. Len(s) -> ToSet(s)]
      BY <3>1, LenProperties
    <3>3. QED
      BY <3>2
  <2>2. QED
    BY <1>1, <2>1, SeqDef
<1>3. /\ u \in Seq(T) /\ Len(u) = Len(s) + 1 /\ u[Len(s) + 1] = y
      /\ \A i \in 1 .. Len(s) : u[i] = s[i]
  BY <1>2, AppendProperties
<1>4. DOMAIN u = 1 .. Len(s) + 1
  BY <1>3, LenProperties
<1> HIDE DEF u
<1>5. \A i \in DOMAIN u : (i \in DOMAIN s /\ u[i] = s[i]) \/ (i = Len(s) + 1 /\ u[i] = y)
  BY <1>1, <1>3, <1>4
<1>6. ToSet(u) = T
  <2>1. \A z \in ToSet(u) : z \in T
    BY <1>5 DEF ToSet
  <2>2. \A z \in ToSet(s) : z \in ToSet(u)
    BY <1>1, <1>3, <1>4 DEF ToSet
  <2>3. y \in ToSet(u)
    BY <1>1, <1>3, <1>4 DEF ToSet
  <2>4. QED
    BY <2>1, <2>2, <2>3
<1>7. IsList(u)
  BY <1>3, <1>6 DEF IsList
<1>8. ASSUME y \notin ToSet(s), Distinct(s) PROVE Distinct(u)
  <2>1. \A i \in DOMAIN s : s[i] # y
    BY <1>8 DEF ToSet
  <2>2. QED
    BY <1>5, <1>8, <2>1 DEF Distinct
<1>9. Keeps(s, u)
  BY <1>1, <1>3, <1>4 DEF Keeps
<1>10. QED
  BY <1>6, <1>7, <1>8, <1>9 DEF u

LEMMA KeepsSelf == ASSUME NEW r PROVE Keeps(r, r)
BY Zenon DEF Keeps

LEMMA KeepsOn == ASSUME NEW r, NEW s, NEW t, Keeps(r, s), Keeps(s, t) PROVE Keeps(r, t)
BY Zenon DEF Keeps

(* One more item. *)
LEMMA SuggestShape ==
  ASSUME NEW r, IsList(r), Distinct(r), NEW item
  PROVE  LET s == Suggest(r, item)
         IN IsList(s) /\ Distinct(s) /\ Keeps(r, s) /\ ToSet(s) = ToSet(r) \cup Texts({item})
<1>1. \A y : Contains(r, y) <=> y \in ToSet(r)
  BY ListShape DEF Contains
<1>2. CASE "text" \in DOMAIN item /\ ~Contains(r, item.text)
  <2>1. Suggest(r, item) = Append(r, item.text)
    BY <1>2 DEF Suggest
  <2>2. Texts({item}) = {item.text}
    BY <1>2 DEF Texts
  <2>3. item.text \notin ToSet(r)
    BY <1>1, <1>2
  <2>4. LET s == Append(r, item.text)
        IN IsList(s) /\ Distinct(s) /\ Keeps(r, s) /\ ToSet(s) = ToSet(r) \cup {item.text}
    BY <2>3, ListGrows, Zenon
  <2>5. QED
    BY <2>1, <2>2, <2>4, Zenon
<1>3. CASE "text" \in DOMAIN item /\ Contains(r, item.text)
  <2>1. Suggest(r, item) = r
    BY <1>3 DEF Suggest
  <2>2. Texts({item}) = {item.text}
    BY <1>3 DEF Texts
  <2>3. item.text \in ToSet(r)
    BY <1>1, <1>3
  <2>4. QED
    BY <2>1, <2>2, <2>3, KeepsSelf
<1>4. CASE "text" \notin DOMAIN item
  <2>1. Suggest(r, item) = r
    BY <1>4 DEF Suggest
  <2>2. Texts({item}) = {}
    BY <1>4 DEF Texts
  <2>3. QED
    BY <2>1, <2>2, KeepsSelf
<1>5. QED
  BY <1>2, <1>3, <1>4

(* A whole array.  The recursive function exists, and each of its values has the
   property: the least argument of which that is not true would follow one of which it
   is. *)
LEMMA SuggestionsShape ==
  ASSUME NEW results, IsList(results), Distinct(results), NEW array, IsList(array)
  PROVE  LET s == AddSuggestions(results, array)
         IN /\ IsList(s) /\ Distinct(s) /\ Keeps(results, s)
            /\ ToSet(s) = ToSet(results) \cup Texts(ToSet(array))
<1> DEFINE N       == Len(array)
           Is(g, n) == g = [k \in 0 .. n |-> IF k = 0 THEN results
                                             ELSE Suggest(g[k - 1], array[k])]
           after   == CHOOSE g : Is(g, N)
<1>1. N \in Nat /\ DOMAIN array = 1 .. N
  BY ListShape
<1>2. \E g : Is(g, N)
  <2> DEFINE B == {n \in Nat : ~\E g : Is(g, n)}
  <2> SUFFICES ASSUME B # {} PROVE FALSE
    BY <1>1
  <2>1. PICK n \in B : \A m \in B : n <= m
    <3>1. B \subseteq Nat
      OBVIOUS
    <3> HIDE DEF B
    <3>2. QED
      BY <3>1, LeastElement
  <2>2. n # 0
    <3> DEFINE g == [k \in 0 .. 0 |-> results]
    <3>1. Is(g, 0)
      OBVIOUS
    <3>2. QED
      BY <2>1, <3>1
  <2>3. n - 1 \in Nat /\ n - 1 \notin B
    BY <2>1, <2>2
  <2>4. PICK g : Is(g, n - 1)
    BY <2>3
  <2> DEFINE h == [k \in 0 .. n |-> IF k <= n - 1 THEN g[k] ELSE Suggest(g[n - 1], array[n])]
  <2>5. ASSUME NEW k \in 0 .. n
        PROVE  h[k] = IF k = 0 THEN results ELSE Suggest(h[k - 1], array[k])
    <3>1. CASE k = 0
      <4>1. h[k] = g[0]
        BY <2>3, <3>1
      <4>2. g[0] = results
        BY <2>3, <2>4
      <4>3. QED
        BY <3>1, <4>1, <4>2
    <3>2. CASE k # 0 /\ k <= n - 1
      <4>1. h[k] = g[k] /\ h[k - 1] = g[k - 1]
        BY <2>3, <3>2
      <4>2. g[k] = Suggest(g[k - 1], array[k])
        BY <2>3, <2>4, <3>2
      <4>3. QED
        BY <3>2, <4>1, <4>2
    <3>3. CASE k = n
      <4>1. h[n] = Suggest(g[n - 1], array[n]) /\ h[n - 1] = g[n - 1]
        BY <2>3
      <4>2. QED
        BY <2>2, <3>3, <4>1
    <3>4. QED
      BY <2>3, <3>1, <3>2, <3>3
  <2>6. h = [k \in 0 .. n |-> h[k]]
    OBVIOUS
  <2> HIDE DEF h
  <2>7. Is(h, n)
    BY <2>5, <2>6
  <2>8. QED
    BY <2>1, <2>7
<1>3. Is(after, N)
  BY <1>2
<1>4. AddSuggestions(results, array) = after[N]
  BY DEF AddSuggestions
<1> HIDE DEF after
<1>5. /\ after[0] = results
      /\ \A k \in 1 .. N : after[k] = Suggest(after[k - 1], array[k])
  BY <1>1, <1>3
<1> DEFINE First(n) == {array[i] : i \in 1 .. n}
           Good(n)  == /\ IsList(after[n]) /\ Distinct(after[n]) /\ Keeps(results, after[n])
                       /\ ToSet(after[n]) = ToSet(results) \cup Texts(First(n))
           C        == {n \in 0 .. N : ~Good(n)}
<1>6. C = {}
  <2> SUFFICES ASSUME C # {} PROVE FALSE
    OBVIOUS
  <2>1. PICK n \in C : \A m \in C : n <= m
    <3>1. C \subseteq Nat
      BY <1>1
    <3> HIDE DEF C
    <3>2. QED
      BY <3>1, LeastElement
  <2>2. n \in 0 .. N /\ ~Good(n)
    BY <2>1
  <2>3. Good(0)
    <3>1. First(0) = {}
      OBVIOUS
    <3>2. Texts({}) = {}
      BY DEF Texts
    <3>3. QED
      BY <1>5, <3>1, <3>2, KeepsSelf
  <2>4. n # 0
    BY <2>2, <2>3, Zenon
  <2>5. n - 1 \in 0 .. N /\ n \in 1 .. N /\ ~(n <= n - 1)
    BY <1>1, <2>2, <2>4
  <2>6. Good(n - 1)
    BY <2>1, <2>5
  <2>7. after[n] = Suggest(after[n - 1], array[n])
    BY <1>5, <2>5
  <2>8. /\ IsList(after[n]) /\ Distinct(after[n]) /\ Keeps(after[n - 1], after[n])
        /\ ToSet(after[n]) = ToSet(after[n - 1]) \cup Texts({array[n]})
    <3> DEFINE r == after[n - 1]
    <3>1. LET s == Suggest(r, array[n])
          IN IsList(s) /\ Distinct(s) /\ Keeps(r, s) /\ ToSet(s) = ToSet(r) \cup Texts({array[n]})
      BY <2>6, SuggestShape, Zenon
    <3>2. QED
      BY <2>7, <3>1, Zenon
  <2>9. First(n) = First(n - 1) \cup {array[n]}
    BY <1>1, <2>5
  <2>10. Texts(First(n)) = Texts(First(n - 1)) \cup Texts({array[n]})
    BY <2>9 DEF Texts
  <2>11. Keeps(results, after[n])
    BY <2>6, <2>8, KeepsOn, Zenon
  <2>12. QED
    BY <2>2, <2>6, <2>8, <2>10, <2>11
<1>7. Good(N)
  BY <1>1, <1>6
<1>8. First(N) = ToSet(array)
  BY <1>1 DEF ToSet
<1>9. QED
  BY <1>4, <1>7, <1>8

-----------------------------------------------------------------------------
(* Before the first hook. *)
LEMMA EmptyMap ==
  /\ \A key, default : BoolAt(<<>>, key, default) = default
  /\ \A key : TextAt(<<>>, key) = ""
<1>1. DOMAIN <<>> = {}
  BY EmptySeq
<1>2. \A key : key \notin DOMAIN <<>>
  BY <1>1, Zenon
<1>3. ASSUME NEW key, NEW default PROVE BoolAt(<<>>, key, default) = default
  BY <1>2, Zenon DEF BoolAt
<1>4. ASSUME NEW key PROVE TextAt(<<>>, key) = ""
  BY <1>2, Zenon DEF TextAt
<1>5. QED
  BY <1>3, <1>4

LEMMA JoinAtFirst ==
  ASSUME NEW r, r = JoinResult(<<>>)
  PROVE  JoinShape(r) /\ JoinRule(<<>>, r)
<1>1. BoolAt(<<>>, "allow", TRUE)
  BY EmptyMap
<1>2. TextAt(<<>>, "disconnect_reason") = "" /\ TextAt(<<>>, "target_server") = ""
  BY EmptyMap
<1>3. r.allow /\ r.disconnect_reason = "" /\ r.target_server = "" /\ JoinShape(r)
  BY <1>1, <1>2 DEF JoinResult, JoinShape
<1>4. Said("join", <<>>) = {}
  BY EmptySeq DEF Said
<1>5. QED
  BY <1>3, <1>4 DEF JoinRule

LEMMA CommandAtFirst ==
  ASSUME NEW r, r = CommandResult(<<>>)
  PROVE  CommandRule(<<>>, r)
<1>1. ~BoolAt(<<>>, "cancel", FALSE)
  BY EmptyMap
<1>2. TextAt(<<>>, "reroute_server") = "" /\ TextAt(<<>>, "send_message") = ""
  BY EmptyMap
<1>3. ~r.cancel /\ r.reroute_server = "" /\ r.send_message = ""
  BY <1>1, <1>2 DEF CommandResult
<1>4. Said("command", <<>>) = {}
  BY EmptySeq DEF Said
<1>5. QED
  BY <1>3, <1>4 DEF CommandRule

LEMMA TabAtFirst ==
  ASSUME NEW r, r = [results |-> <<>>]
  PROVE  TabShape(r) /\ TabRule(<<>>, r)
<1>1. r.results = <<>> /\ DOMAIN <<>> = {}
  BY EmptySeq
<1>2. ToSet(<<>>) = {}
  BY <1>1 DEF ToSet
<1>3. <<>> \in Seq(ToSet(<<>>))
  BY EmptySeq
<1>4. TabShape(r)
  BY <1>1, <1>3 DEF TabShape, IsList
<1>5. Said("tab", <<>>) = {}
  BY <1>1 DEF Said
<1>6. QED
  BY <1>1, <1>2, <1>4, <1>5 DEF TabRule

LEMMA RuledAtFirst ==
  ASSUME NEW e, e.hook \in Hooks, e.trace = <<>>, e.result = Default(e.hook)
  PROVE  Ruled(e) /\ Undecided(e)
<1>1. DOMAIN e.trace = {}
  BY EmptySeq
<1>2. ASSUME e.hook = "join" PROVE JoinShape(e.result) /\ JoinRule(e.trace, e.result)
  <2>1. e.result = JoinResult(<<>>)
    BY <1>2 DEF Default
  <2>2. QED
    BY <2>1, JoinAtFirst, Zenon
<1>3. ASSUME e.hook = "command" PROVE CommandRule(e.trace, e.result)
  <2>1. e.result = CommandResult(<<>>)
    BY <1>3 DEF Default
  <2>2. QED
    BY <2>1, CommandAtFirst, Zenon
<1>4. ASSUME e.hook = "tab" PROVE TabShape(e.result) /\ TabRule(e.trace, e.result)
  <2>1. e.result = [results |-> <<>>]
    BY <1>4 DEF Default
  <2>2. QED
    BY <2>1, TabAtFirst, Zenon
<1>5. QED
  BY <1>1, <1>2, <1>3, <1>4, Zenon DEF Ruled, Undecided

(* After one more. *)
LEMMA SaidGrows ==
  ASSUME NEW t \in Seq(Entry), NEW x \in Entry, NEW hook
  PROVE  /\ \A i \in Said(hook, t) : i \in DOMAIN t /\ i \in Said(hook, Append(t, x))
         /\ \A i \in Said(hook, Append(t, x)) :
              \/ i \in Said(hook, t) /\ Append(t, x)[i] = t[i]
              \/ i = Len(t) + 1 /\ Append(t, x)[i] = x /\ Typed(hook, x.outcome)
         /\ Typed(hook, x.outcome) => Len(t) + 1 \in Said(hook, Append(t, x))
<1> DEFINE u == Append(t, x)
<1>1. /\ Len(t) \in Nat /\ DOMAIN t = 1 .. Len(t) /\ DOMAIN u = 1 .. Len(t) + 1
      /\ \A i \in DOMAIN t : u[i] = t[i]
      /\ u[Len(t) + 1] = x
  BY TraceGrows
<1> HIDE DEF u
<1>2. /\ \A i \in DOMAIN t : i \in DOMAIN u /\ u[i] = t[i]
      /\ Len(t) + 1 \in DOMAIN u /\ u[Len(t) + 1] = x
      /\ \A i \in DOMAIN u : (i \in DOMAIN t /\ u[i] = t[i]) \/ (i = Len(t) + 1 /\ u[i] = x)
  BY <1>1
<1>3. /\ \A i \in Said(hook, t) : i \in DOMAIN t /\ i \in Said(hook, u)
      /\ \A i \in Said(hook, u) : \/ i \in Said(hook, t) /\ u[i] = t[i]
                                  \/ i = Len(t) + 1 /\ u[i] = x /\ Typed(hook, x.outcome)
      /\ Typed(hook, x.outcome) => Len(t) + 1 \in Said(hook, u)
  BY <1>2 DEF Said
<1>4. QED
  BY <1>3 DEF u

LEMMA UndecidedRun ==
  ASSUME NEW e, NEW e2, NEW x \in Entry, EvalType(e), Undecided(e), ~Decides(e.hook, x.outcome),
         e2.trace = Append(e.trace, x), e2.hook = e.hook
  PROVE  Undecided(e2)
<1>1. e.trace \in Seq(Entry)
  BY DEF EvalType
<1>2. /\ Len(e.trace) \in Nat /\ DOMAIN e.trace = 1 .. Len(e.trace)
      /\ DOMAIN e2.trace = 1 .. Len(e.trace) + 1
      /\ \A i \in DOMAIN e.trace : e2.trace[i] = e.trace[i]
      /\ e2.trace[Len(e.trace) + 1] = x
  BY <1>1, TraceGrows
<1>3. ASSUME NEW i \in DOMAIN e2.trace PROVE ~Decides(e2.hook, e2.trace[i].outcome)
  <2>1. CASE i \in DOMAIN e.trace
    BY <1>2, <2>1 DEF Undecided
  <2>2. CASE i = Len(e.trace) + 1
    BY <1>2, <2>2
  <2>3. QED
    BY <1>2, <2>1, <2>2
<1>4. QED
  BY <1>3, Zenon DEF Undecided

LEMMA JoinAllowed ==
  ASSUME NEW t, NEW result,
         \A i \in Said("join", t) : JoinResult(t[i].outcome.map).allow,
         result.allow, result.disconnect_reason = "",
         (\A i \in Said("join", t) : JoinResult(t[i].outcome.map).target_server = "")
           => result.target_server = "",
         \A i \in Said("join", t) :
           /\ JoinResult(t[i].outcome.map).target_server # ""
           /\ \A j \in Said("join", t) : JoinResult(t[j].outcome.map).target_server # "" => j <= i
           => result.target_server = JoinResult(t[i].outcome.map).target_server
  PROVE  JoinRule(t, result)
BY DEF JoinRule

LEMMA JoinRun ==
  ASSUME NEW t \in Seq(Entry), NEW result, NEW x \in Entry, JoinShape(result), JoinRule(t, result),
         \A i \in DOMAIN t : ~Decides("join", t[i].outcome)
  PROVE  /\ JoinShape(Fold("join", result, x.outcome))
         /\ JoinRule(Append(t, x), Fold("join", result, x.outcome))
<1> DEFINE u       == Append(t, x)
           n       == Len(t) + 1
           S       == Said("join", t)
           U       == Said("join", u)
           result2 == Fold("join", result, x.outcome)
           J(i)    == JoinResult(t[i].outcome.map)
           K(i)    == JoinResult(u[i].outcome.map)
           r       == JoinResult(x.outcome.map)
<1>1. n = Len(u) /\ u[n] = x /\ n \in Nat
  BY TraceGrows
<1>2. \A i \in S : i \in Nat /\ i < n /\ i \in U
  BY SaidGrows, TraceGrows
<1>3. \A i \in U : (i \in S /\ u[i] = t[i]) \/ (i = n /\ Typed("join", x.outcome))
  BY SaidGrows
<1>4. Typed("join", x.outcome) => n \in U
  BY SaidGrows
<1> HIDE DEF u, S, U, n
<1>5. K(n) = r /\ \A i \in S : K(i) = J(i)
  BY <1>1, <1>2, <1>3
<1>6. ASSUME NEW i \in S PROVE J(i).allow
  BY DEF S, Said, Decides
<1>7. /\ result.allow /\ result.disconnect_reason = ""
      /\ (\A i \in S : J(i).target_server = "") => result.target_server = ""
      /\ \A i \in S : /\ J(i).target_server # ""
                      /\ \A j \in S : J(j).target_server # "" => j <= i
                      => result.target_server = J(i).target_server
  BY <1>6 DEF S, JoinRule
<1>8. ASSUME \A i \in U : K(i).allow, result2.allow, result2.disconnect_reason = "",
             (\A i \in U : K(i).target_server = "") => result2.target_server = "",
             \A i \in U : /\ K(i).target_server # ""
                          /\ \A j \in U : K(j).target_server # "" => j <= i
                          => result2.target_server = K(i).target_server
      PROVE  JoinRule(u, result2)
  <2> HIDE DEF result2
  <2>1. QED
    BY <1>8, JoinAllowed DEF U
<1>9. CASE ~Typed("join", x.outcome)
  <2>1. result2 = result
    BY <1>9 DEF Fold
  <2>2. U = S
    BY <1>2, <1>3, <1>9
  <2> HIDE DEF result2, J, K
  <2>3. JoinRule(u, result2)
    BY <1>5, <1>6, <1>7, <1>8, <2>1, <2>2
  <2>4. QED
    BY <2>1, <2>3 DEF result2, u
<1>10. CASE Typed("join", x.outcome) /\ ~r.allow
  <2>1. result2 = r
    BY <1>10 DEF Fold
  <2>2. JoinShape(r)
    BY DEF JoinShape, JoinResult
  <2>3. \A i \in U : ~K(i).allow => i = n /\ r = K(i)
    BY <1>3, <1>5, <1>6
  <2>4. ~\A i \in U : K(i).allow
    BY <1>4, <1>5, <1>10
  <2>5. JoinRule(u, r)
    BY <1>1, <2>3, <2>4 DEF U, JoinRule
  <2>6. QED
    BY <2>1, <2>2, <2>5 DEF u
<1>11. CASE Typed("join", x.outcome) /\ r.allow /\ r.target_server = ""
  <2>1. result2 = result
    BY <1>11 DEF Fold
  <2>2. U = S \cup {n}
    BY <1>2, <1>3, <1>4, <1>11
  <2> HIDE DEF result2, J, K, r
  <2>3. JoinRule(u, result2)
    BY <1>5, <1>6, <1>7, <1>8, <1>11, <2>1, <2>2
  <2>4. QED
    BY <2>1, <2>3 DEF result2, u
<1>12. CASE Typed("join", x.outcome) /\ r.allow /\ r.target_server # ""
  <2>1. result2 = [result EXCEPT !.target_server = r.target_server]
    BY <1>12 DEF Fold
  <2> HIDE DEF result2, r
  <2>2. /\ JoinShape(result2) /\ (result.allow => result2.allow)
        /\ result2.disconnect_reason = result.disconnect_reason
        /\ result2.target_server = r.target_server
    BY <2>1 DEF JoinShape
  <2>3. U = S \cup {n}
    BY <1>2, <1>3, <1>4, <1>12
  <2> HIDE DEF J, K
  <2>4. \A i \in U : (\A j \in U : K(j).target_server # "" => j <= i) => i = n
    <3>1. \A i \in S : ~(n <= i)
      BY <1>1, <1>2
    <3>2. \A i \in U : n <= i => i = n
      BY <2>3, <3>1
    <3>3. n \in U /\ K(n).target_server # ""
      BY <1>5, <1>12, <2>3
    <3>4. QED
      BY <3>2, <3>3, Zenon
  <2>5. \A i \in U : K(i).allow
    BY <1>5, <1>6, <1>12, <2>3
  <2>6. K(n) = r /\ n \in U
    BY <1>5, <2>3
  <2>7. JoinRule(u, result2)
    BY <1>7, <1>8, <1>12, <2>2, <2>4, <2>5, <2>6
  <2>8. QED
    BY <2>2, <2>7 DEF result2, u
<1>13. QED
  BY <1>9, <1>10, <1>11, <1>12

LEMMA CommandRun ==
  ASSUME NEW t \in Seq(Entry), NEW result, NEW x \in Entry, CommandRule(t, result),
         \A i \in DOMAIN t : ~Decides("command", t[i].outcome)
  PROVE  CommandRule(Append(t, x), Fold("command", result, x.outcome))
<1> DEFINE u       == Append(t, x)
           n       == Len(t) + 1
           result2 == Fold("command", result, x.outcome)
           C(s, i) == CommandResult(s[i].outcome.map)
           r       == CommandResult(x.outcome.map)
           H(y)    == y.cancel \/ y.reroute_server # ""
<1>1. n = Len(u) /\ u[n] = x
  BY TraceGrows
<1>2. /\ \A i \in Said("command", t) : i < n /\ i \in Said("command", u)
      /\ \A i \in Said("command", u) : \/ i \in Said("command", t) /\ u[i] = t[i]
                                       \/ i = n /\ u[i] = x /\ Typed("command", x.outcome)
      /\ Typed("command", x.outcome) => n \in Said("command", u)
      /\ n \in Nat
  BY SaidGrows, TraceGrows
<1>3. ASSUME NEW i \in Said("command", t) PROVE ~H(C(t, i))
  BY DEF Said, Decides
<1>4. ~H(result) /\ result.send_message = ""
  BY <1>3 DEF CommandRule
<1>5. CASE ~Decides("command", x.outcome)
  <2>1. result2 = result
    BY <1>5 DEF Fold
  <2>2. Typed("command", x.outcome) => ~H(r)
    BY <1>5 DEF Decides
  <2>3. QED
    BY <1>2, <1>3, <1>4, <2>1, <2>2 DEF CommandRule
<1>6. CASE Decides("command", x.outcome)
  <2>1. Typed("command", x.outcome) /\ H(r)
    BY <1>6 DEF Decides
  <2>2. result2 = r
    BY <1>6, <2>1 DEF Fold
  <2>3. QED
    BY <1>1, <1>2, <1>3, <2>1, <2>2 DEF CommandRule
<1>7. QED
  BY <1>5, <1>6

(* No suggestion stands before one that an earlier hook was the first to make. *)
InTurn(t, r) ==
  \A i, j \in DOMAIN r : i < j =>
    \E k \in Offer(t, r[i]) : \A l \in Offer(t, r[j]) : k <= l

LEMMA TurnsKept ==
  ASSUME NEW t, NEW u, NEW n \in Int, NEW r, NEW s, IsList(r), IsList(s), Distinct(s),
         InTurn(t, r), Keeps(r, s),
         \A y : Offer(t, y) \subseteq Offer(u, y) /\ Offer(u, y) \subseteq Offer(t, y) \cup {n},
         \A y : \A k \in Offer(t, y) : k \in Int /\ k < n,
         \A y : y \in ToSet(r) <=> Offer(t, y) # {},
         \A y \in ToSet(s) : Offer(u, y) # {}
  PROVE  InTurn(u, s)
<1> SUFFICES ASSUME NEW i \in DOMAIN s, NEW j \in DOMAIN s, i < j
             PROVE  \E k \in Offer(u, s[i]) : \A l \in Offer(u, s[j]) : k <= l
  BY Zenon DEF InTurn
<1>1. /\ Len(r) \in Nat /\ DOMAIN r = 1 .. Len(r) /\ Len(s) \in Nat /\ DOMAIN s = 1 .. Len(s)
      /\ \A y : y \in ToSet(r) <=> \E k \in 1 .. Len(r) : r[k] = y
      /\ \A y : y \in ToSet(s) <=> \E k \in 1 .. Len(s) : s[k] = y
  BY ListShape
<1>2. ASSUME NEW k \in DOMAIN s, k \notin DOMAIN r PROVE Offer(t, s[k]) = {}
  <2>1. \A m \in DOMAIN r : m # k /\ m \in DOMAIN s /\ s[m] = r[m]
    BY <1>2, Zenon DEF Keeps
  <2>2. \A m \in DOMAIN r : r[m] # s[k]
    BY <1>2, <2>1, Zenon DEF Distinct
  <2>3. s[k] \notin ToSet(r)
    BY <1>1, <2>2, Zenon
  <2>4. QED
    BY <2>3, Zenon
<1>3. CASE j \in DOMAIN r
  <2>1. i \in DOMAIN r
    BY <1>1, <1>3
  <2>2. s[i] = r[i] /\ s[j] = r[j]
    BY <1>3, <2>1, Zenon DEF Keeps
  <2>3. PICK k \in Offer(t, s[i]) : \A l \in Offer(t, s[j]) : k <= l
    BY <1>3, <2>1, <2>2, Zenon DEF InTurn
  <2>4. k \in Offer(u, s[i]) /\ k \in Int /\ k < n
    BY <2>3, Zenon
  <2>5. \A l \in Offer(u, s[j]) : l \in Offer(t, s[j]) \/ l = n
    OBVIOUS
  <2>6. \A l \in Offer(u, s[j]) : k <= l
    BY <2>3, <2>4, <2>5
  <2>7. QED
    BY <2>4, <2>6, Zenon
<1>4. CASE j \notin DOMAIN r
  <2>1. \A l \in Offer(u, s[j]) : l = n
    BY <1>2, <1>4
  <2>2. s[i] \in ToSet(s)
    BY <1>1, Zenon
  <2>3. PICK k \in Offer(u, s[i]) : TRUE
    BY <2>2, Zenon
  <2>4. k \in Int /\ k <= n
    <3>1. k \in Offer(t, s[i]) \/ k = n
      OBVIOUS
    <3>2. QED
      BY <3>1
  <2>5. QED
    BY <2>1, <2>3, <2>4, Zenon
<1>5. QED
  BY <1>3, <1>4

(* The rule of completions, with the shape the results keep. *)
LEMMA TabRun ==
  ASSUME NEW t \in Seq(Entry), NEW result, NEW x \in Entry, TabShape(result), TabRule(t, result),
         "array" \in DOMAIN x.outcome => IsList(x.outcome.array)
  PROVE  /\ TabShape(Fold("tab", result, x.outcome))
         /\ TabRule(Append(t, x), Fold("tab", result, x.outcome))
<1> DEFINE u        == Append(t, x)
           n        == Len(t) + 1
           result2  == Fold("tab", result, x.outcome)
           Items(s) == UNION {ToSet(s[i].outcome.array) : i \in Said("tab", s)}
<1>1. /\ \A i \in Said("tab", t) : i \in Said("tab", u)
      /\ \A i \in Said("tab", u) : \/ i \in Said("tab", t) /\ u[i] = t[i]
                                   \/ i = n /\ u[i] = x /\ Typed("tab", x.outcome)
      /\ Typed("tab", x.outcome) => n \in Said("tab", u)
  BY SaidGrows
<1>2. u[n] = x /\ \A i \in Said("tab", t) : u[i] = t[i]
  BY TraceGrows DEF Said
<1>3. /\ ToSet(result.results) = Texts(Items(t))
      /\ IsList(result.results) /\ Distinct(result.results) /\ InTurn(t, result.results)
  BY DEF TabRule, Texts, Distinct, TabShape, InTurn
<1>a. \A y : (y \in Texts(Items(t)) <=> Offer(t, y) # {}) /\ (y \in Texts(Items(u)) <=> Offer(u, y) # {})
  BY Zenon DEF Texts, Offer
<1>b. n \in Int /\ \A y : \A k \in Offer(t, y) : k \in Int /\ k < n
  BY TraceGrows DEF Offer, Said
<1>c. \A y : Offer(t, y) \subseteq Offer(u, y) /\ Offer(u, y) \subseteq Offer(t, y) \cup {n}
  BY <1>1, <1>2, Zenon DEF Offer
<1>4. ASSUME NEW r, IsList(r), Distinct(r), ToSet(r) = Texts(Items(u)), Keeps(result.results, r),
             result2 = [results |-> r]
      PROVE  TabShape(result2) /\ TabRule(u, result2)
  <2>1. result2.results = r
    BY <1>4
  <2>2. InTurn(u, r)
    <3> HIDE DEF u, n, Items
    <3>1. \A y : y \in ToSet(result.results) <=> Offer(t, y) # {}
      BY <1>3, <1>a, Zenon
    <3>2. \A y \in ToSet(r) : Offer(u, y) # {}
      BY <1>4, <1>a, Zenon
    <3>3. QED
      BY <1>3, <1>4, <1>b, <1>c, <3>1, <3>2, TurnsKept, Zenon
  <2>3. QED
    BY <1>4, <2>1, <2>2 DEF TabRule, Texts, Distinct, TabShape, InTurn
<1> HIDE DEF u, n, result2
<1>5. CASE ~Typed("tab", x.outcome)
  <2>1. result2 = result /\ result = [results |-> result.results]
    BY <1>5 DEF Fold, TabShape, result2
  <2>2. Items(u) = Items(t)
    BY <1>1, <1>2, <1>5
  <2> HIDE DEF Items
  <2>3. TabShape(result2) /\ TabRule(u, result2)
    BY <1>3, <1>4, <2>1, <2>2, KeepsSelf
  <2>4. QED
    BY <2>3 DEF u, result2
<1>6. CASE Typed("tab", x.outcome)
  <2> DEFINE r == AddSuggestions(result.results, x.outcome.array)
  <2>1. result2 = [results |-> r]
    BY <1>6 DEF Fold, result2
  <2>2. IsList(x.outcome.array)
    BY <1>6 DEF Typed
  <2>3. /\ IsList(r) /\ Distinct(r) /\ Keeps(result.results, r)
        /\ ToSet(r) = Texts(Items(t)) \cup Texts(ToSet(x.outcome.array))
    BY <1>3, <2>2, SuggestionsShape, Zenon
  <2> HIDE DEF r
  <2>4. \A y : y \in Items(u) <=> y \in Items(t) \/ y \in ToSet(x.outcome.array)
    <3>1. \A y \in Items(u) : y \in Items(t) \/ y \in ToSet(x.outcome.array)
      BY <1>1
    <3>2. \A y \in Items(t) : y \in Items(u)
      BY <1>1, <1>2
    <3>3. \A y \in ToSet(x.outcome.array) : y \in Items(u)
      BY <1>1, <1>2, <1>6
    <3>4. QED
      BY <3>1, <3>2, <3>3, Zenon
  <2> HIDE DEF Items
  <2>5. Texts(Items(u)) = Texts(Items(t)) \cup Texts(ToSet(x.outcome.array))
    BY <2>4 DEF Texts
  <2>6. TabShape(result2) /\ TabRule(u, result2)
    BY <1>4, <2>1, <2>3, <2>5
  <2>7. QED
    BY <2>6 DEF u, result2
<1>7. QED
  BY <1>5, <1>6

(* What a script hands back for a completion is a list, if it is an array at all. *)
LEMMA ArraysAreLists ==
  ASSUME NEW script \in AllScripts, NEW o \in Outcomes(script, "tab"), "array" \in DOMAIN o
  PROVE  IsList(o.array)
<1>1. PICK f \in Files : script \in Scripts[f]
  BY DEF AllScripts
<1>2. o # Error
  <2>1. DOMAIN Error = {"error"}
    BY DEF Error
  <2>2. "array" \notin DOMAIN Error
    BY <2>1
  <2>3. QED
    BY <2>2
<1>3. o \in script["tab"]
  BY <1>2 DEF Outcomes
<1>4. QED
  BY <1>1, <1>3, ArraysAssumption DEF Files, IsList

-----------------------------------------------------------------------------
(* A step of one player, who goes on as e2. *)
LEMMA PlayerStep ==
  ASSUME Inv, NEW p \in Players, NEW e2, eval' = [eval EXCEPT ![p] = e2],
         EvalInv(e2, plugins), UNCHANGED <<plugins, ast, job, todo>>, LocksOK',
         \A y \in Tasks, l \in Locks : y # p => (In(y, held'[l], queue'[l]) <=> At(y, l)),
         \A l \in Locks : held[l] \ {p} \subseteq held'[l],
         In(p, held'["plugins"], queue'["plugins"]) <=> e2.at \in {"plugins", "main"},
         In(p, held'["ast"], queue'["ast"]) <=> e2.at = "main",
         e2.at = "main" => p \in held'["plugins"],
         e2.at = "plugins" /\ p \notin held'["plugins"] => e2.asked = 0 /\ e2.trace = <<>>
  PROVE  Inv'
<1> USE DEF Inv
<1>1. "plugins" \in Locks /\ "ast" \in Locks
  BY DEF Locks
<1>2. /\ DOMAIN eval' = Players /\ eval'[p] = e2
      /\ \A q \in Players : q # p => eval'[q] = eval[q]
  BY DEF TypeInv
<1>3. TypeInv' /\ DistinctNames'
  BY <1>2 DEF TypeInv, DistinctNames
<1>4. WritersPlaced'
  <2> SUFFICES ASSUME NEW w \in Writers, NEW l \in Locks, In(w, held'[l], queue'[l])
               PROVE  job[w] # NoJob /\ l = LockOf(job[w].file)
    BY DEF WritersPlaced, At
  <2>1. w # p /\ w \in Tasks
    BY TasksDisjoint DEF Tasks
  <2>2. At(w, l)
    BY <2>1
  <2>3. QED
    BY <2>2 DEF WritersPlaced
<1>5. ASSUME NEW q \in Players
      PROVE  /\ In(q, held'["plugins"], queue'["plugins"]) <=> eval'[q].at \in {"plugins", "main"}
             /\ In(q, held'["ast"], queue'["ast"]) <=> eval'[q].at = "main"
             /\ eval'[q].at = "main" => q \in held'["plugins"]
             /\ eval'[q].at = "plugins" /\ q \notin held'["plugins"] =>
                  eval'[q].asked = 0 /\ eval'[q].trace = <<>>
             /\ EvalInv(eval'[q], plugins)
  <2>1. CASE q = p
    <3>1. eval'[q] = e2
      BY <1>2, <2>1
    <3>2. QED
      BY <2>1, <3>1, Zenon
  <2>2. CASE q # p
    <3>1. eval'[q] = eval[q] /\ (q \in held["plugins"] => q \in held'["plugins"])
      BY <1>1, <1>2, <2>2
    <3>2. /\ In(q, held'["plugins"], queue'["plugins"]) <=> At(q, "plugins")
          /\ In(q, held'["ast"], queue'["ast"]) <=> At(q, "ast")
      BY <1>1, <2>2 DEF Tasks
    <3>3. QED
      BY <3>1, <3>2 DEF PlayersPlaced, Waiting
  <2>3. QED
    BY <2>1, <2>2
<1>6. PlayersPlaced' /\ Waiting'
  BY <1>5 DEF PlayersPlaced, Waiting, At
<1>7. \A q \in Players : EvalInv(eval'[q], plugins')
  BY <1>5
<1>8. QED
  BY <1>3, <1>4, <1>6, <1>7

(* An evaluation in which one more hook has run. *)
LEMMA RunInv ==
  ASSUME NEW e, NEW list \in Seq(Plugin), EvalInv(e, list), e.at # "answered",
         NEW script \in AllScripts, NEW o \in Outcomes(script, e.hook), NEW e2,
         e2 = [at |-> e2.at, hook |-> e.hook, asked |-> e.asked + 1,
               trace |-> Append(e.trace, Ran(e.asked + 1, script, o)),
               result |-> Fold(e.hook, e.result, o)],
         \/ e2.at = "answered"
         \/ /\ e2.at = "plugins" /\ e.at = "plugins" /\ e.asked < Len(list)
            /\ script = list[e.asked + 1].ast /\ Defines(script, e.hook)
            /\ ~Decides(e.hook, o)
  PROVE  EvalInv(e2, list)
<1> DEFINE x == Ran(e.asked + 1, script, o)
<1>1. /\ EvalType(e) /\ Ruled(e) /\ Undecided(e) /\ e.hook \in Hooks /\ e.asked \in Nat
      /\ e.trace \in Seq(Entry)
  BY DEF EvalInv, EvalType
<1>2. o \in AllResults
  BY <1>1 DEF AllResults
<1>3. x \in Entry /\ x.nth = e.asked + 1 /\ x.ast = script /\ x.outcome = o
  BY <1>1, <1>2 DEF Ran, Entry
<1>4. /\ e2.hook = e.hook /\ e2.asked = e.asked + 1 /\ e2.trace = Append(e.trace, x)
      /\ e2.result = Fold(e.hook, e.result, o)
  OBVIOUS
<1>5. Append(e.trace, x) \in Seq(Entry)
  BY <1>1, <1>3, TraceGrows
<1> HIDE DEF x
<1>6. EvalType(e2)
  <2>1. e2 = [at |-> e2.at, hook |-> e2.hook, asked |-> e2.asked, trace |-> e2.trace,
              result |-> e2.result]
    BY <1>4 DEF x
  <2>2. e2.at \in {"idle", "plugins", "main", "answered"}
    OBVIOUS
  <2>3. e2.hook \in Hooks /\ e2.asked \in Nat /\ e2.trace \in Seq(Entry)
    BY <1>1, <1>4, <1>5
  <2>4. QED
    BY <2>1, <2>2, <2>3, Zenon DEF EvalType
<1>7. ASSUME e.hook = "join" PROVE JoinShape(e2.result) /\ JoinRule(e2.trace, e2.result)
  <2>1. JoinShape(e.result) /\ JoinRule(e.trace, e.result)
    BY <1>1, <1>7 DEF Ruled
  <2>2. \A i \in DOMAIN e.trace : ~Decides("join", e.trace[i].outcome)
    BY <1>1, <1>7 DEF Undecided
  <2>3. /\ JoinShape(Fold("join", e.result, x.outcome))
        /\ JoinRule(Append(e.trace, x), Fold("join", e.result, x.outcome))
    BY <1>1, <1>3, <2>1, <2>2, JoinRun
  <2>4. QED
    BY <1>3, <1>4, <1>7, <2>3
<1>8. ASSUME e.hook = "command" PROVE CommandRule(e2.trace, e2.result)
  <2>1. CommandRule(e.trace, e.result)
    BY <1>1, <1>8 DEF Ruled
  <2>2. \A i \in DOMAIN e.trace : ~Decides("command", e.trace[i].outcome)
    BY <1>1, <1>8 DEF Undecided
  <2>3. CommandRule(Append(e.trace, x), Fold("command", e.result, x.outcome))
    BY <1>1, <1>3, <2>1, <2>2, CommandRun
  <2>4. QED
    BY <1>3, <1>4, <1>8, <2>3
<1>9. ASSUME e.hook = "tab" PROVE TabShape(e2.result) /\ TabRule(e2.trace, e2.result)
  <2>1. TabShape(e.result) /\ TabRule(e.trace, e.result)
    BY <1>1, <1>9 DEF Ruled
  <2>2. "array" \in DOMAIN x.outcome => IsList(x.outcome.array)
    BY <1>3, <1>9, ArraysAreLists
  <2>3. /\ TabShape(Fold("tab", e.result, x.outcome))
        /\ TabRule(Append(e.trace, x), Fold("tab", e.result, x.outcome))
    BY <1>1, <1>3, <2>1, <2>2, TabRun
  <2>4. QED
    BY <1>3, <1>4, <1>9, <2>3
<1>10. Ruled(e2)
  BY <1>4, <1>7, <1>8, <1>9, Zenon DEF Ruled
<1>11. CASE e2.at = "answered"
  BY <1>6, <1>10, <1>11 DEF EvalInv
<1>12. CASE /\ e2.at = "plugins" /\ e.at = "plugins" /\ e.asked < Len(list)
            /\ script = list[e.asked + 1].ast /\ Defines(script, e.hook)
            /\ ~Decides(e.hook, o)
  <2>1. Seen(e, list)
    BY <1>12 DEF EvalInv
  <2>2. Seen(e2, list)
    BY <1>1, <1>3, <1>4, <1>12, <2>1, SeenRun
  <2>3. Undecided(e2)
    BY <1>1, <1>3, <1>4, <1>12, UndecidedRun
  <2>4. QED
    BY <1>6, <1>10, <2>2, <2>3, Zenon DEF EvalInv
<1>13. QED
  BY <1>11, <1>12

(* An evaluation that begins, or is over. *)
LEMMA FirstInv ==
  ASSUME NEW e, NEW list \in Seq(Plugin), NEW hook \in Hooks, NEW at \in {"idle", "plugins"},
         e = [at |-> at, hook |-> hook, asked |-> 0, trace |-> <<>>, result |-> Default(hook)]
  PROVE  EvalInv(e, list)
<1>1. e.at = at /\ e.hook = hook /\ e.asked = 0 /\ e.trace = <<>> /\ e.result = Default(e.hook)
  OBVIOUS
<1>2. <<>> \in Seq(Entry)
  BY EmptySeq
<1>3. EvalType(e)
  BY <1>2 DEF EvalType
<1>4. Seen(e, list)
  BY <1>1, SeenAtFirst
<1>5. Ruled(e) /\ Undecided(e)
  BY <1>1, RuledAtFirst, Zenon
<1>6. QED
  BY <1>3, <1>4, <1>5, Zenon DEF EvalInv

-----------------------------------------------------------------------------
(* The actions. *)

(* A player who moves on with the locks as they are. *)
LEMMA PlayerStays ==
  ASSUME Inv, NEW p \in Players, NEW e2, eval' = [eval EXCEPT ![p] = e2],
         EvalInv(e2, plugins), UNCHANGED <<plugins, ast, job, todo, locks>>,
         \/ e2.at = "plugins" /\ InPlugins(p)
         \/ e2.at = "idle" /\ eval[p].at \notin {"plugins", "main"}
  PROVE  Inv'
<1> USE DEF Inv
<1>1. held' = held /\ queue' = queue
  BY DEF locks
<1>2. LocksOK'
  BY <1>1 DEF LocksOK
<1>3. \A y \in Tasks, l \in Locks : In(y, held'[l], queue'[l]) <=> At(y, l)
  BY <1>1 DEF At
<1>4. /\ In(p, held'["plugins"], queue'["plugins"]) <=> e2.at \in {"plugins", "main"}
      /\ In(p, held'["ast"], queue'["ast"]) <=> e2.at = "main"
      /\ e2.at = "main" => p \in held'["plugins"]
      /\ e2.at = "plugins" => p \in held'["plugins"]
  BY <1>1 DEF PlayersPlaced, InPlugins, At
<1>5. \A l \in Locks : held[l] \ {p} \subseteq held'[l]
  BY <1>1
<1>6. QED
  BY <1>2, <1>3, <1>4, <1>5, PlayerStep

(* A player who has the answer and drops the guards. *)
LEMMA PlayerAnswered ==
  ASSUME Inv, NEW p \in Players, NEW e2, eval' = [eval EXCEPT ![p] = e2],
         EvalInv(e2, plugins), UNCHANGED <<plugins, ast, job, todo>>, Release(p),
         e2.at = "answered",
         InPlugins(p) \/ (eval[p].at = "main" /\ p \in held["ast"])
  PROVE  Inv'
<1> USE DEF Inv
<1>1. "plugins" \in Locks /\ "ast" \in Locks /\ p \in Tasks
  BY DEF Locks, Tasks
<1>2. /\ LocksOK'
      /\ \A y \in Tasks, l \in Locks :
           In(y, held'[l], queue'[l]) <=> At(y, l) /\ ~(y = p /\ p \in held[l])
      /\ \A l \in Locks : held[l] \ {p} \subseteq held'[l]
  BY ReleaseStep
<1>3. p \in held["plugins"] /\ (At(p, "ast") => p \in held["ast"])
  BY DEF PlayersPlaced, InPlugins
<1>4. /\ ~In(p, held'["plugins"], queue'["plugins"])
      /\ ~In(p, held'["ast"], queue'["ast"])
  BY <1>1, <1>2, <1>3
<1>5. \A y \in Tasks, l \in Locks : y # p => (In(y, held'[l], queue'[l]) <=> At(y, l))
  BY <1>2
<1>6. QED
  BY <1>2, <1>4, <1>5, PlayerStep

LEMMA AskStep ==
  ASSUME Inv, NEW p \in Players, NEW hook \in HooksOf(p), Ask(p, hook)
  PROVE  Inv'
<1> USE DEF Inv
<1> DEFINE e2 == Fresh("plugins", hook)
<1>1. hook \in Hooks
  BY DEF HooksOf, Hooks
<1>2. e2 = [at |-> "plugins", hook |-> hook, asked |-> 0, trace |-> <<>>, result |-> Default(hook)]
  BY DEF Fresh
<1>3. eval' = [eval EXCEPT ![p] = e2] /\ Wait(p, "plugins") /\ UNCHANGED <<plugins, ast, job, todo>>
  BY DEF Ask
<1> HIDE DEF e2
<1>4. EvalInv(e2, plugins)
  BY <1>1, <1>2, FirstInv DEF TypeInv
<1>5. e2.at = "plugins" /\ e2.asked = 0 /\ e2.trace = <<>>
  BY <1>2
<1>6. "plugins" \in Locks /\ "ast" \in Locks /\ p \in Tasks
  BY DEF Locks, Tasks
<1>7. ~At(p, "plugins") /\ ~At(p, "ast")
  BY DEF Ask, PlayersPlaced
<1>8. /\ LocksOK'
      /\ \A y \in Tasks, l \in Locks :
           In(y, held'[l], queue'[l]) <=> At(y, l) \/ (y = p /\ l = "plugins")
      /\ \A l \in Locks : held[l] \subseteq held'[l]
  BY <1>3, <1>6, <1>7, WaitStep
<1>9. /\ In(p, held'["plugins"], queue'["plugins"])
      /\ ~In(p, held'["ast"], queue'["ast"])
  BY <1>6, <1>7, <1>8
<1>10. /\ \A y \in Tasks, l \in Locks : y # p => (In(y, held'[l], queue'[l]) <=> At(y, l))
       /\ \A l \in Locks : held[l] \ {p} \subseteq held'[l]
  BY <1>8
<1>11. QED
  BY <1>3, <1>4, <1>5, <1>8, <1>9, <1>10, PlayerStep

LEMMA SkipStep ==
  ASSUME Inv, NEW p \in Players, SkipPlugin(p)
  PROVE  Inv'
<1> USE DEF Inv
<1> DEFINE e  == eval[p]
           e2 == [e EXCEPT !.asked = @ + 1]
<1>1. /\ eval' = [eval EXCEPT ![p] = e2] /\ UNCHANGED <<plugins, ast, job, todo, locks>>
      /\ InPlugins(p) /\ e.asked < Len(plugins) /\ ~Defines(plugins[e.asked + 1].ast, e.hook)
      /\ e.at = "plugins"
  BY DEF SkipPlugin, InPlugins, locks
<1>2. EvalInv(e, plugins) /\ EvalType(e) /\ plugins \in Seq(Plugin)
  BY DEF EvalInv, TypeInv
<1> HIDE DEF e
<1>3. e2 = [at |-> e.at, hook |-> e.hook, asked |-> e.asked + 1, trace |-> e.trace,
            result |-> e.result]
  BY <1>2 DEF EvalType
<1> HIDE DEF e2
<1>4. /\ e2.at = e.at /\ e2.hook = e.hook /\ e2.asked = e.asked + 1 /\ e2.trace = e.trace
      /\ e2.result = e.result
  BY <1>3
<1>5. EvalType(e2)
  BY <1>2, <1>3 DEF EvalType
<1>6. Seen(e2, plugins)
  <2>1. Seen(e, plugins)
    BY <1>1, <1>2 DEF EvalInv
  <2>2. QED
    BY <1>1, <1>2, <1>4, <2>1, SeenSkip
<1>7. Ruled(e2) /\ Undecided(e2)
  BY <1>1, <1>2, <1>4 DEF EvalInv, Ruled, Undecided
<1>8. EvalInv(e2, plugins)
  BY <1>5, <1>6, <1>7, Zenon DEF EvalInv
<1>9. QED
  BY <1>1, <1>4, <1>8, PlayerStays

LEMMA AwaitMainStep ==
  ASSUME Inv, NEW p \in Players, AwaitMain(p)
  PROVE  Inv'
<1> USE DEF Inv
<1> DEFINE e  == eval[p]
           e2 == [e EXCEPT !.at = "main"]
<1>1. /\ eval' = [eval EXCEPT ![p] = e2] /\ UNCHANGED <<plugins, ast, job, todo>>
      /\ Wait(p, "ast") /\ e.at = "plugins" /\ p \in held["plugins"]
  BY DEF AwaitMain, InPlugins
<1>2. EvalInv(e, plugins) /\ EvalType(e)
  BY DEF EvalInv
<1>3. At(p, "plugins") /\ ~At(p, "ast")
  BY <1>1 DEF PlayersPlaced
<1> HIDE DEF e
<1>4. e2 = [at |-> "main", hook |-> e.hook, asked |-> e.asked, trace |-> e.trace,
            result |-> e.result]
  BY <1>2 DEF EvalType
<1> HIDE DEF e2
<1>5. /\ e2.at = "main" /\ e2.hook = e.hook /\ e2.asked = e.asked /\ e2.trace = e.trace
      /\ e2.result = e.result
  BY <1>4
<1>6. EvalInv(e2, plugins)
  <2>1. EvalType(e2)
    BY <1>2, <1>4 DEF EvalType
  <2>2. Ruled(e2) /\ Undecided(e2) /\ Seen(e2, plugins)
    BY <1>1, <1>2, <1>5 DEF EvalInv, Ruled, Undecided, Seen
  <2>3. QED
    BY <2>1, <2>2, Zenon DEF EvalInv
<1>7. "plugins" \in Locks /\ "ast" \in Locks /\ p \in Tasks
  BY DEF Locks, Tasks
<1>8. /\ LocksOK'
      /\ \A y \in Tasks, l \in Locks :
           In(y, held'[l], queue'[l]) <=> At(y, l) \/ (y = p /\ l = "ast")
      /\ \A l \in Locks : held[l] \subseteq held'[l]
  BY <1>1, <1>3, <1>7, WaitStep
<1>9. /\ In(p, held'["plugins"], queue'["plugins"]) /\ In(p, held'["ast"], queue'["ast"])
      /\ p \in held'["plugins"]
  BY <1>1, <1>3, <1>7, <1>8
<1>10. /\ \A y \in Tasks, l \in Locks : y # p => (In(y, held'[l], queue'[l]) <=> At(y, l))
       /\ \A l \in Locks : held[l] \ {p} \subseteq held'[l]
  BY <1>8
<1>11. QED
  BY <1>1, <1>5, <1>6, <1>8, <1>9, <1>10, PlayerStep

LEMMA CallPluginStep ==
  ASSUME Inv, NEW p \in Players, CallPlugin(p)
  PROVE  Inv'
<1> USE DEF Inv
<1> DEFINE e      == eval[p]
           script == plugins[e.asked + 1].ast
<1>1. /\ InPlugins(p) /\ e.asked < Len(plugins) /\ Defines(script, e.hook)
      /\ UNCHANGED <<plugins, ast, job, todo>> /\ e.at = "plugins"
      /\ \E o \in Outcomes(script, e.hook) : RunPlugin(p, script, o)
  BY DEF CallPlugin, InPlugins
<1>2. PICK o \in Outcomes(script, e.hook) : RunPlugin(p, script, o)
  BY <1>1
<1>3. EvalInv(e, plugins) /\ EvalType(e) /\ plugins \in Seq(Plugin)
  BY DEF EvalInv, TypeInv
<1>4. script \in AllScripts
  <2>1. e.asked \in Nat /\ Len(plugins) \in Nat
    BY <1>3, LenProperties DEF EvalType
  <2>2. e.asked + 1 \in 1 .. Len(plugins)
    BY <1>1, <2>1
  <2>3. plugins[e.asked + 1] \in Plugin
    BY <1>3, <2>2, ElementOfSeq
  <2>4. QED
    BY <2>3 DEF Plugin
<1>5. CASE Decides(e.hook, o)
  <2> DEFINE e2 == Later(e, "answered", script, o)
  <2>1. eval' = [eval EXCEPT ![p] = e2] /\ Release(p)
    BY <1>2, <1>5 DEF RunPlugin
  <2> HIDE DEF e
  <2>2. e2.at = "answered" /\ e2 = [at |-> e2.at, hook |-> e.hook, asked |-> e.asked + 1,
                                    trace |-> Append(e.trace, Ran(e.asked + 1, script, o)),
                                    result |-> Fold(e.hook, e.result, o)]
    BY DEF Later
  <2> HIDE DEF e2, script
  <2>3. EvalInv(e2, plugins)
    BY <1>1, <1>3, <1>4, <2>2, RunInv
  <2>4. QED
    BY <1>1, <2>1, <2>2, <2>3, PlayerAnswered
<1>6. CASE ~Decides(e.hook, o)
  <2> DEFINE e2 == Later(e, "plugins", script, o)
  <2>1. eval' = [eval EXCEPT ![p] = e2] /\ UNCHANGED locks
    BY <1>2, <1>6 DEF RunPlugin
  <2> HIDE DEF e
  <2>2. e2.at = "plugins" /\ e2 = [at |-> e2.at, hook |-> e.hook, asked |-> e.asked + 1,
                                   trace |-> Append(e.trace, Ran(e.asked + 1, script, o)),
                                   result |-> Fold(e.hook, e.result, o)]
    BY DEF Later
  <2>3. script = plugins[e.asked + 1].ast
    OBVIOUS
  <2> HIDE DEF e2, script
  <2>4. EvalInv(e2, plugins)
    BY <1>1, <1>3, <1>4, <1>6, <2>2, <2>3, RunInv
  <2>5. QED
    BY <1>1, <2>1, <2>2, <2>4, PlayerStays
<1>7. QED
  BY <1>5, <1>6

LEMMA CallMainStep ==
  ASSUME Inv, NEW p \in Players, CallMain(p)
  PROVE  Inv'
<1> USE DEF Inv
<1> DEFINE e == eval[p]
<1>1. /\ e.at = "main" /\ p \in held["ast"] /\ Release(p)
      /\ UNCHANGED <<plugins, ast, job, todo>>
  BY DEF CallMain
<1>2. EvalInv(e, plugins) /\ EvalType(e) /\ plugins \in Seq(Plugin)
  BY DEF EvalInv, TypeInv
<1>3. CASE /\ Defines(ast, e.hook)
           /\ \E o \in Outcomes(ast, e.hook) :
                eval' = [eval EXCEPT ![p] = Later(@, "answered", ast, o)]
  <2>1. PICK o \in Outcomes(ast, e.hook) :
               eval' = [eval EXCEPT ![p] = Later(@, "answered", ast, o)]
    BY <1>3
  <2> DEFINE e2 == Later(e, "answered", ast, o)
  <2>2. eval' = [eval EXCEPT ![p] = e2]
    BY <2>1
  <2>3. ast \in AllScripts
    BY <1>3 DEF Defines, TypeInv, AllScripts, Files
  <2> HIDE DEF e
  <2>4. e2.at = "answered" /\ e2 = [at |-> e2.at, hook |-> e.hook, asked |-> e.asked + 1,
                                    trace |-> Append(e.trace, Ran(e.asked + 1, ast, o)),
                                    result |-> Fold(e.hook, e.result, o)]
    BY DEF Later
  <2> HIDE DEF e2
  <2>5. EvalInv(e2, plugins)
    BY <1>1, <1>2, <2>3, <2>4, RunInv
  <2>6. QED
    BY <1>1, <2>2, <2>4, <2>5, PlayerAnswered DEF e
<1>4. CASE eval' = [eval EXCEPT ![p].at = "answered"]
  <2> DEFINE e2 == [e EXCEPT !.at = "answered"]
  <2>1. eval' = [eval EXCEPT ![p] = e2]
    BY <1>4
  <2> HIDE DEF e
  <2>2. e2 = [at |-> "answered", hook |-> e.hook, asked |-> e.asked, trace |-> e.trace,
              result |-> e.result]
    BY <1>2 DEF EvalType
  <2> HIDE DEF e2
  <2>3. /\ e2.at = "answered" /\ e2.hook = e.hook /\ e2.asked = e.asked /\ e2.trace = e.trace
        /\ e2.result = e.result
    BY <2>2
  <2>4. EvalType(e2)
    BY <1>2, <2>2 DEF EvalType
  <2>5. Ruled(e2)
    BY <1>2, <2>3 DEF EvalInv, Ruled
  <2>6. EvalInv(e2, plugins)
    BY <2>3, <2>4, <2>5 DEF EvalInv
  <2>7. QED
    BY <1>1, <2>1, <2>3, <2>6, PlayerAnswered DEF e
<1>5. QED
  BY <1>3, <1>4 DEF CallMain

LEMMA TakeStep ==
  ASSUME Inv, NEW p \in Players, Take(p)
  PROVE  Inv'
<1> DEFINE e2 == NoEval
<1>1. /\ eval' = [eval EXCEPT ![p] = e2] /\ UNCHANGED <<plugins, ast, job, todo, locks>>
      /\ eval[p].at \notin {"plugins", "main"}
  BY DEF Take, locks
<1>2. e2 = [at |-> "idle", hook |-> "join", asked |-> 0, trace |-> <<>>, result |-> Default("join")]
  BY DEF NoEval, Fresh
<1>3. "join" \in Hooks /\ plugins \in Seq(Plugin)
  BY DEF Hooks, Inv, TypeInv
<1> HIDE DEF e2
<1>4. EvalInv(e2, plugins) /\ e2.at = "idle"
  BY <1>2, <1>3, FirstInv
<1>5. QED
  BY <1>1, <1>4, PlayerStays

(* A writer's step leaves the evaluations alone. *)
LEMMA StartStep ==
  ASSUME Inv, NEW w \in Writers, NEW file \in Files, NEW script \in Scripts[file],
         Start(w, file, script), todo' \in Seq(Files)
  PROVE  Inv'
<1> USE DEF Inv
<1> DEFINE new  == [file |-> file, script |-> script]
           lock == LockOf(file)
<1>1. /\ job[w] = NoJob /\ job' = [job EXCEPT ![w] = new] /\ Wait(w, lock)
      /\ plugins' = plugins /\ ast' = ast /\ eval' = eval
  BY DEF Start
<1>2. new \in [file : Files, script : AllScripts \cup {NoScript}]
  BY DEF AllScripts
<1>3. new.file = file /\ new.script = script /\ new # NoJob
  BY ScriptsAssumption DEF NoJob, Files
<1> HIDE DEF new
<1>4. /\ job' \in [Writers -> [file : Files, script : AllScripts \cup {NoScript}]]
      /\ job'[w] = new /\ \A v \in Writers : v # w => job'[v] = job[v]
  BY <1>1, <1>2 DEF TypeInv
<1>5. TypeInv' /\ DistinctNames'
  <2>1. \A v \in Writers : job'[v] = NoJob \/ job'[v].script \in Scripts[job'[v].file]
    BY <1>3, <1>4 DEF TypeInv
  <2>2. QED
    BY <1>1, <1>4, <2>1 DEF TypeInv, DistinctNames, NoJob
<1>6. w \in Tasks /\ lock \in Locks /\ ~At(w, lock)
  BY <1>1 DEF Tasks, LockOf, Locks, WritersPlaced
<1>7. /\ LocksOK'
      /\ \A y \in Tasks, l \in Locks :
           In(y, held'[l], queue'[l]) <=> At(y, l) \/ (y = w /\ l = lock)
      /\ \A l \in Locks : held[l] \subseteq held'[l]
  BY <1>1, <1>6, WaitStep
<1>8. WritersPlaced'
  <2> SUFFICES ASSUME NEW v \in Writers, NEW l \in Locks, In(v, held'[l], queue'[l])
               PROVE  job'[v] # NoJob /\ l = LockOf(job'[v].file)
    BY DEF WritersPlaced, At, NoJob, LockOf
  <2>1. At(v, l) \/ (v = w /\ l = lock)
    BY <1>7 DEF Tasks
  <2>2. CASE v = w
    <3>1. ~At(v, l)
      BY <1>1, <2>2 DEF WritersPlaced
    <3>2. QED
      BY <1>3, <1>4, <2>1, <2>2, <3>1
  <2>3. CASE v # w
    BY <1>4, <2>1, <2>3 DEF WritersPlaced
  <2>4. QED
    BY <2>2, <2>3
<1>9. ASSUME NEW p \in Players
      PROVE  /\ In(p, held'["plugins"], queue'["plugins"]) <=> At(p, "plugins")
             /\ In(p, held'["ast"], queue'["ast"]) <=> At(p, "ast")
             /\ p \in held["plugins"] => p \in held'["plugins"]
  <2>1. p # w /\ p \in Tasks /\ "plugins" \in Locks /\ "ast" \in Locks
    BY TasksDisjoint DEF Tasks, Locks
  <2>2. QED
    BY <1>7, <2>1
<1>10. PlayersPlaced' /\ Waiting'
  BY <1>1, <1>9 DEF PlayersPlaced, Waiting, At
<1>11. \A p \in Players : EvalInv(eval'[p], plugins')
  BY <1>1
<1>12. QED
  BY <1>5, <1>7, <1>8, <1>10, <1>11

LEMMA InstallStep ==
  ASSUME Inv, NEW w \in Writers, Install(w)
  PROVE  Inv' /\ Len(plugins) <= Len(plugins')
              /\ \A i \in DOMAIN plugins : plugins'[i].name = plugins[i].name
<1> USE DEF Inv
<1> DEFINE file   == job[w].file
           script == job[w].script
           lock   == LockOf(file)
<1>1. /\ job[w] # NoJob /\ w \in held[lock] /\ job' = [job EXCEPT ![w] = NoJob] /\ Release(w)
      /\ eval' = eval /\ todo' = todo
      /\ file = MainFile => ast' = script /\ plugins' = plugins
      /\ file # MainFile => plugins' = Registered(plugins, file, script) /\ ast' = ast
  BY DEF Install
<1>2. file \in Files /\ script \in Scripts[file] /\ lock \in Locks /\ w \in Tasks
  BY <1>1 DEF TypeInv, Tasks, LockOf, Locks
<1>3. /\ plugins' \in Seq(Plugin) /\ Len(plugins) <= Len(plugins')
      /\ \A i \in DOMAIN plugins : plugins'[i].name = plugins[i].name
      /\ \A i \in DOMAIN plugins' : plugins'[i].ast \in Scripts[plugins'[i].name]
      /\ DistinctNames'
  <2>1. plugins \in Seq(Plugin) /\ Len(plugins) \in Nat
    BY LenProperties DEF TypeInv
  <2>2. CASE file = MainFile
    BY <1>1, <2>1, <2>2 DEF TypeInv, DistinctNames
  <2>3. CASE file # MainFile
    <3>1. file \in ToSet(PluginFiles)
      BY <1>2, <2>3 DEF Files
    <3>2. /\ \A i \in DOMAIN plugins : plugins[i].ast \in Scripts[plugins[i].name]
          /\ \A i, j \in DOMAIN plugins : plugins[i].name = plugins[j].name => i = j
      BY DEF TypeInv, DistinctNames
    <3> HIDE DEF file, script
    <3>3. QED
      BY <1>1, <1>2, <2>1, <2>3, <3>1, <3>2, RegisteredShape DEF DistinctNames
  <2>4. QED
    BY <2>2, <2>3
<1>4. NoJob \in [file : Files, script : AllScripts \cup {NoScript}]
  BY DEF NoJob, Files
<1>5. /\ job' \in [Writers -> [file : Files, script : AllScripts \cup {NoScript}]]
      /\ job'[w] = NoJob /\ \A v \in Writers : v # w => job'[v] = job[v]
  BY <1>1, <1>4 DEF TypeInv
<1>6. ast' \in Scripts[MainFile] \cup {NoScript}
  BY <1>1, <1>2 DEF TypeInv
<1>7. TypeInv'
  <2>1. \A v \in Writers : job'[v] = NoJob \/ job'[v].script \in Scripts[job'[v].file]
    BY <1>5 DEF TypeInv
  <2>2. QED
    BY <1>1, <1>3, <1>5, <1>6, <2>1 DEF TypeInv, NoJob
<1>8. /\ LocksOK'
      /\ \A y \in Tasks, l \in Locks :
           In(y, held'[l], queue'[l]) <=> At(y, l) /\ ~(y = w /\ w \in held[l])
      /\ \A l \in Locks : held[l] \ {w} \subseteq held'[l]
  BY <1>1, ReleaseStep
<1>9. WritersPlaced'
  <2> SUFFICES ASSUME NEW v \in Writers, NEW l \in Locks, In(v, held'[l], queue'[l])
               PROVE  job'[v] # NoJob /\ l = LockOf(job'[v].file)
    BY DEF WritersPlaced, At, NoJob, LockOf
  <2>1. At(v, l) /\ ~(v = w /\ w \in held[l])
    BY <1>8 DEF Tasks
  <2>2. v # w
    BY <1>1, <2>1 DEF WritersPlaced
  <2>3. QED
    BY <1>5, <2>1, <2>2 DEF WritersPlaced
<1>10. ASSUME NEW p \in Players
       PROVE  /\ In(p, held'["plugins"], queue'["plugins"]) <=> At(p, "plugins")
              /\ In(p, held'["ast"], queue'["ast"]) <=> At(p, "ast")
              /\ p \in held["plugins"] => p \in held'["plugins"]
  <2>1. p # w /\ p \in Tasks /\ "plugins" \in Locks /\ "ast" \in Locks
    BY TasksDisjoint DEF Tasks, Locks
  <2>2. QED
    BY <1>8, <2>1
<1>11. PlayersPlaced' /\ Waiting'
  BY <1>1, <1>10 DEF PlayersPlaced, Waiting, At
<1>12. ASSUME NEW p \in Players PROVE EvalInv(eval[p], plugins')
  <2>1. EvalInv(eval[p], plugins)
    OBVIOUS
  <2>2. CASE file = MainFile
    BY <1>1, <2>1, <2>2
  <2>3. CASE file # MainFile
    <3>1. held["plugins"] = {w}
      BY <1>1, <2>3 DEF LockOf, LocksOK, LockOK, Locks
    <3>2. p \notin held["plugins"]
      BY <3>1, TasksDisjoint
    <3>3. eval[p].at \in {"plugins", "main"} => eval[p].asked = 0 /\ eval[p].trace = <<>>
      BY <3>2 DEF PlayersPlaced, Waiting
    <3>4. eval[p].at \in {"plugins", "main"} => Seen(eval[p], plugins')
      BY <1>3, <3>3, SeenAtFirst
    <3>5. QED
      BY <2>1, <3>4 DEF EvalInv
  <2>4. QED
    BY <2>2, <2>3
<1>13. \A p \in Players : EvalInv(eval'[p], plugins')
  BY <1>1, <1>12
<1>14. QED
  BY <1>3, <1>7, <1>8, <1>9, <1>11, <1>13

-----------------------------------------------------------------------------
LEMMA InitInv == Init => Inv
<1> SUFFICES ASSUME Init PROVE Inv
  OBVIOUS
<1> USE DEF Init
<1>1. PluginFiles \in Seq(Files) /\ MainFile \in Files
  <2>1. PluginFiles \in Seq(STRING) /\ Len(PluginFiles) \in Nat /\ DOMAIN PluginFiles = 1 .. Len(PluginFiles)
    BY FilesAssumption, LenProperties
  <2>2. \A i \in 1 .. Len(PluginFiles) : PluginFiles[i] \in Files
    BY <2>1 DEF Files, ToSet
  <2>3. PluginFiles = [i \in 1 .. Len(PluginFiles) |-> PluginFiles[i]]
    BY <2>1
  <2>4. PluginFiles \in [1 .. Len(PluginFiles) -> Files]
    BY <2>2, <2>3
  <2>5. QED
    BY <2>1, <2>4, IsASeq DEF Files
<1>2. TypeInv
  <2>1. plugins \in Seq(Plugin) /\ DOMAIN plugins = {}
    BY EmptySeq
  <2>2. todo \in Seq(Files)
    BY <1>1, AppendProperties
  <2>3. job \in [Writers -> [file : Files, script : AllScripts \cup {NoScript}]]
    BY <1>1 DEF NoJob
  <2>4. QED
    BY <2>1, <2>2, <2>3 DEF TypeInv
<1>3. DistinctNames
  BY EmptySeq DEF DistinctNames
<1>4. \A l \in Locks : held[l] = {} /\ queue[l] = <<>> /\ DOMAIN queue[l] = {} /\ queue[l] \in Seq(Tasks)
  BY EmptySeq
<1>5. LocksOK
  BY <1>4 DEF LocksOK, LockOK
<1>6. \A x, l : l \in Locks => ~At(x, l)
  BY <1>4 DEF At, In
<1>7. \A p \in Players : eval[p] = [at |-> "idle", hook |-> "join", asked |-> 0, trace |-> <<>>,
                                    result |-> Default("join")]
  BY DEF NoEval, Fresh
<1>8. WritersPlaced /\ PlayersPlaced /\ Waiting
  BY <1>6, <1>7 DEF WritersPlaced, PlayersPlaced, Waiting, Locks
<1>9. \A p \in Players : EvalInv(eval[p], plugins)
  <2>1. "join" \in Hooks /\ plugins \in Seq(Plugin)
    BY <1>2 DEF Hooks, TypeInv
  <2> SUFFICES ASSUME NEW p \in Players PROVE EvalInv(eval[p], plugins)
    OBVIOUS
  <2>2. QED
    BY <1>7, <2>1, FirstInv
<1>10. QED
  BY <1>2, <1>3, <1>5, <1>8, <1>9 DEF Inv

LEMMA BootSkipStep ==
  ASSUME Inv, BootSkip
  PROVE  Inv'
<1> USE DEF Inv
<1>1. /\ plugins' = plugins /\ ast' = ast /\ held' = held /\ queue' = queue /\ job' = job
      /\ eval' = eval /\ todo # <<>> /\ todo' = Tail(todo)
  BY DEF BootSkip, locks
<1>2. todo' \in Seq(Files)
  BY <1>1, HeadTailProperties DEF TypeInv
<1>3. TypeInv' /\ DistinctNames'
  BY <1>1, <1>2 DEF TypeInv, DistinctNames, NoJob
<1>4. LocksOK' /\ WritersPlaced' /\ PlayersPlaced' /\ Waiting'
  BY <1>1 DEF LocksOK, WritersPlaced, PlayersPlaced, Waiting, At, LockOf, NoJob
<1>5. \A p \in Players : EvalInv(eval'[p], plugins')
  BY <1>1
<1>6. QED
  BY <1>3, <1>4, <1>5

(* What a step does to the list of plugins, as OrderKept has it. *)
Kept ==
  /\ Len(plugins) <= Len(plugins')
  /\ \A i \in DOMAIN plugins : plugins'[i].name = plugins[i].name
  /\ \A i, j \in DOMAIN plugins' : plugins'[i].name = plugins'[j].name => i = j

LEMMA NextInv ==
  ASSUME Inv, [Next]_vars
  PROVE  Inv' /\ Kept
<1>1. ASSUME plugins' = plugins, Inv' PROVE Inv' /\ Kept
  <2>1. Len(plugins) \in Nat
    BY LenProperties DEF Inv, TypeInv
  <2>2. QED
    BY <1>1, <2>1 DEF Kept, Inv, DistinctNames
<1>2. CASE BootSkip
  BY <1>1, <1>2, BootSkipStep DEF BootSkip
<1>3. CASE BootLoad
  <2>1. PICK script \in Scripts[Head(todo)] : Start(Boot, Head(todo), script)
    BY <1>3 DEF BootLoad
  <2>2. Head(todo) \in Files /\ todo' \in Seq(Files) /\ Boot \in Writers
    BY <1>3, HeadTailProperties DEF BootLoad, Inv, TypeInv, Writers
  <2>3. Inv' /\ plugins' = plugins
    BY <2>1, <2>2, StartStep DEF Start
  <2>4. QED
    BY <1>1, <2>3
<1>4. CASE \E l \in Loaders, f \in Files : \E s \in Scripts[f] : Load(l, f, s)
  <2>0. PICK l \in Loaders, f \in Files : \E s \in Scripts[f] : Load(l, f, s)
    BY <1>4
  <2>1. PICK s \in Scripts[f] : Load(l, f, s)
    BY <2>0
  <2>2. Start(l, f, s) /\ todo' \in Seq(Files) /\ l \in Writers
    BY <2>1 DEF Load, Inv, TypeInv, Writers
  <2>3. Inv' /\ plugins' = plugins
    BY <2>2, StartStep DEF Start
  <2>4. QED
    BY <1>1, <2>3
<1>5. CASE \E l \in Writers : Install(l)
  <2>1. /\ Inv' /\ Len(plugins) <= Len(plugins')
        /\ \A i \in DOMAIN plugins : plugins'[i].name = plugins[i].name
    BY <1>5, InstallStep
  <2>2. QED
    BY <2>1 DEF Kept, Inv, DistinctNames
<1>6. CASE \E p \in Players : Evaluate(p) \/ \E h \in HooksOf(p) : Ask(p, h)
  <2>1. PICK p \in Players : Evaluate(p) \/ \E h \in HooksOf(p) : Ask(p, h)
    BY <1>6
  <2>2. CASE \E h \in HooksOf(p) : Ask(p, h)
    BY <1>1, <2>2, AskStep DEF Ask
  <2>3. CASE SkipPlugin(p)
    BY <1>1, <2>3, SkipStep DEF SkipPlugin
  <2>4. CASE CallPlugin(p)
    BY <1>1, <2>4, CallPluginStep DEF CallPlugin
  <2>5. CASE AwaitMain(p)
    BY <1>1, <2>5, AwaitMainStep DEF AwaitMain
  <2>6. CASE CallMain(p)
    BY <1>1, <2>6, CallMainStep DEF CallMain
  <2>7. CASE Take(p)
    BY <1>1, <2>7, TakeStep DEF Take
  <2>8. QED
    BY <2>1, <2>2, <2>3, <2>4, <2>5, <2>6, <2>7 DEF Evaluate
<1>7. CASE UNCHANGED vars
  <2> USE DEF Inv
  <2>1. /\ plugins' = plugins /\ ast' = ast /\ held' = held /\ queue' = queue /\ job' = job
        /\ eval' = eval /\ todo' = todo
    BY <1>7 DEF vars
  <2>2. TypeInv' /\ DistinctNames'
    BY <2>1 DEF TypeInv, DistinctNames, NoJob
  <2>3. LocksOK' /\ WritersPlaced' /\ PlayersPlaced' /\ Waiting'
    BY <2>1 DEF LocksOK, WritersPlaced, PlayersPlaced, Waiting, At, LockOf, NoJob
  <2>4. Inv'
    BY <2>1, <2>2, <2>3
  <2>5. QED
    BY <1>1, <2>1, <2>4
<1>8. QED
  BY <1>2, <1>3, <1>4, <1>5, <1>6, <1>7 DEF Next

LEMMA Invariant == Spec => []Inv
<1>1. Inv /\ [Next]_vars => Inv'
  BY NextInv
<1>2. QED
  BY InitInv, <1>1, PTL DEF Spec

(* The plugins and the main script are scripts of their files, and no task waits for a
   lock it holds. *)
THEOREM TypeCorrect == Spec => []TypeOK
<1>1. Inv => TypeOK
  <2> SUFFICES ASSUME Inv PROVE TypeOK
    OBVIOUS
  <2> USE DEF Inv
  <2>1. \A i \in DOMAIN plugins : /\ plugins[i].name \in ToSet(PluginFiles)
                                  /\ plugins[i].ast \in Scripts[plugins[i].name]
    <3>1. \A i \in DOMAIN plugins : plugins[i] \in Plugin
      BY ElementOfSeq, LenProperties DEF TypeInv
    <3>2. QED
      BY <3>1 DEF TypeInv, Plugin
  <2>2. held \in [Locks -> SUBSET (Players \cup Writers)]
    BY DEF LocksOK, Tasks
  <2>3. ASSUME NEW l \in Locks PROVE ToSet(queue[l]) \subseteq (Players \cup Writers) \ held[l]
    <3>1. queue[l] \in Seq(Tasks) /\ \A i \in DOMAIN queue[l] : queue[l][i] \notin held[l]
      BY DEF LocksOK, LockOK
    <3>2. \A i \in DOMAIN queue[l] : queue[l][i] \in Tasks
      BY <3>1, ElementOfSeq, LenProperties
    <3>3. \A x \in ToSet(queue[l]) : \E i \in DOMAIN queue[l] : x = queue[l][i]
      BY DEF ToSet
    <3>4. QED
      BY <3>1, <3>2, <3>3 DEF Tasks
  <2>4. \A p \in Players : eval[p].at \in {"idle", "plugins", "main", "answered"}
    BY DEF EvalInv, EvalType
  <2>5. ast \in Scripts[MainFile] \cup {NoScript}
        /\ \A l \in Writers : job[l] = NoJob \/ job[l].script \in Scripts[job[l].file]
    BY DEF TypeInv
  <2>6. QED
    BY <2>1, <2>2, <2>3, <2>4, <2>5 DEF TypeOK
<1>2. QED
  BY Invariant, <1>1, PTL

(* The guard that eval_join, eval_command and eval_tab_complete keep on the plugins: an
   evaluation asks the plugins of one list, whatever is loaded meanwhile. *)
THEOREM OneVersionSeen == Spec => []SeesOneVersion
<1>1. Inv => SeesOneVersion
  BY DEF Inv, EvalInv, Seen, SeesOneVersion
<1>2. QED
  BY Invariant, <1>1, PTL

(* A load never takes a plugin away and never gives it another turn. *)
THEOREM OrderOfPluginsKept == Spec => OrderKept
<1>1. Inv /\ [Next]_vars => [Kept]_vars
  BY NextInv
<1>2. QED
  BY Invariant, <1>1, PTL DEF Spec, OrderKept, Kept

(* What a session is told of a join, a command or a completion follows from what the
   hooks handed back, and no hook has run after the one that decided. *)
THEOREM AnswersFollowRules == Spec => []AnswerFollowsRules
<1>1. Inv => AnswerFollowsRules
  BY DEF Inv, EvalInv, EvalType, Hooks, Ruled, FollowsRule, AnswerFollowsRules
<1>2. QED
  BY Invariant, <1>1, PTL
=============================================================================
