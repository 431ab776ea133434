------------------------------ MODULE ScriptHost ------------------------------
(***************************************************************************)
(* The Rhai script host (src/src/script/engine.rs, src/src/script/         *)
(* events.rs): the plugins and the main script, the tasks that load them,  *)
(* and the sessions that run their hooks.                                  *)
(*                                                                         *)
(* Both are behind tokio RwLocks, which serve their waiters in order: an   *)
(* evaluation holds the plugins while it waits for the main script, and a  *)
(* load holds nothing while it reads and compiles its file.  The files may *)
(* change at any time, so a load finds any script in its file, or none     *)
(* that compiles.  What a hook returns depends on the event, the key-value *)
(* store and the clock: a script is, for each hook, the set of outcomes it *)
(* may have.                                                               *)
(***************************************************************************)
EXTENDS Integers, Sequences, SequencesExt

CONSTANTS
  Joining,      \* tasks of clients that are logging in
  Playing,      \* tasks of clients in the Play state
  Boot,         \* main, which loads scripts before it starts the listener
  Loaders,      \* tasks that load scripts later
  PluginFiles,  \* the plugin files, in the order of their paths
  MainFile,     \* script_path
  Scripts,      \* for each file, the scripts it may hold: for each hook its outcomes,
                \* {} if it does not define the hook
  NoScript      \* AST::default(), which defines no function

ASSUME TasksAssumption ==
  Joining \cap Playing = {} /\ (Joining \cup Playing) \cap (Loaders \cup {Boot}) = {}
ASSUME FilesAssumption == PluginFiles \in Seq(STRING) /\ MainFile \notin ToSet(PluginFiles)
ASSUME ScriptsAssumption ==
  \A file \in ToSet(PluginFiles) \cup {MainFile} : NoScript \notin Scripts[file]
(* A rhai::Array is a list. *)
ASSUME ArraysAssumption ==
  \A file \in ToSet(PluginFiles) \cup {MainFile} : \A script \in Scripts[file] :
    \A o \in script["tab"] : "array" \in DOMAIN o => o.array \in Seq(ToSet(o.array))

Locks   == {"plugins", "ast"}
Players == Joining \cup Playing
Writers == Loaders \cup {Boot}
Files   == ToSet(PluginFiles) \cup {MainFile}

(* The listener evaluates joins, a session commands and completions. *)
HooksOf(p) == IF p \in Joining THEN {"join"} ELSE {"command", "tab"}

VARIABLES
  plugins,   \* the loaded plugins, in the order they are asked
  ast,       \* the main script
  held,      \* for each lock, who holds it
  queue,     \* for each lock, who waits for it
  job,       \* for each loader, the script it waits to install, and its file
  eval,      \* for each player, the evaluation under way
  todo       \* the files that main has yet to load

locks == <<held, queue>>
vars  == <<plugins, ast, held, queue, job, eval, todo>>

-----------------------------------------------------------------------------
(* What a hook hands back: a map or an array of Rhai values, or an error.  A value
   is a record that carries the field of its type. *)
Error == [error |-> TRUE]

(* A loop is stopped after 50,000 operations, which is an error of the call. *)
Outcomes(script, hook) ==
  {IF o = [loop |-> TRUE] THEN Error ELSE o : o \in script[hook]}

Defines(script, hook) == script # NoScript /\ script[hook] # {}

BoolAt(map, key, default) ==
  IF key \in DOMAIN map /\ "bool" \in DOMAIN map[key] THEN map[key].bool ELSE default

TextAt(map, key) ==
  IF key \in DOMAIN map /\ "text" \in DOMAIN map[key] THEN map[key].text ELSE ""

JoinResult(map) ==
  [allow             |-> BoolAt(map, "allow", TRUE),
   disconnect_reason |-> TextAt(map, "disconnect_reason"),
   target_server     |-> TextAt(map, "target_server")]

CommandResult(map) ==
  [cancel         |-> BoolAt(map, "cancel", FALSE),
   reroute_server |-> TextAt(map, "reroute_server"),
   send_message   |-> TextAt(map, "send_message")]

(* A string that is not among the results is added to them. *)
Suggest(results, item) ==
  IF "text" \in DOMAIN item /\ ~Contains(results, item.text)
  THEN Append(results, item.text) ELSE results

(* The strings of an array, each of them once. *)
AddSuggestions(results, array) ==
  LET after[n \in 0 .. Len(array)] ==
        IF n = 0 THEN results ELSE Suggest(after[n - 1], array[n])
  IN after[Len(array)]

(* The result before any hook has run. *)
Default(hook) ==
  CASE hook = "join"    -> JoinResult(<<>>)
    [] hook = "command" -> CommandResult(<<>>)
    [] hook = "tab"     -> [results |-> <<>>]

(* An outcome of the type that call_fn::<T> asks for; any other is an error. *)
Typed(hook, outcome) ==
  CASE hook \in {"join", "command"} -> "map" \in DOMAIN outcome
    [] hook = "tab"                 -> "array" \in DOMAIN outcome

(* Mutant of Decides: the hooks after a refusal run too. *)
DecidesCommands(hook, outcome) ==
  /\ Typed(hook, outcome)
  /\ hook = "command"
  /\ LET r == CommandResult(outcome.map) IN r.cancel \/ r.reroute_server # ""

(* The outcome ends the evaluation: a refusal, or a command that was dealt with. *)
Decides(hook, outcome) ==
  /\ Typed(hook, outcome)
  /\ CASE hook = "join"    -> ~JoinResult(outcome.map).allow
       [] hook = "command" -> LET r == CommandResult(outcome.map)
                              IN r.cancel \/ r.reroute_server # ""
       [] hook = "tab"     -> FALSE

(* The result after one more outcome; errors are logged and change nothing. *)
Fold(hook, result, outcome) ==
  IF ~Typed(hook, outcome) THEN result
  ELSE CASE hook = "join" ->
              LET r == JoinResult(outcome.map)
              IN IF ~r.allow THEN r
                 ELSE IF r.target_server = "" THEN result
                 ELSE [result EXCEPT !.target_server = r.target_server]
         [] hook = "command" ->
              IF Decides(hook, outcome) THEN CommandResult(outcome.map) ELSE result
         [] hook = "tab"  -> [results |-> AddSuggestions(result.results, outcome.array)]

-----------------------------------------------------------------------------
(* tokio::sync::RwLock: a lock that is free is taken at once if nobody waits; one that
   is released goes to those who have waited longest, a writer alone or all the readers
   up to the next writer. *)
Compatible(task, holders) ==
  IF task \in Writers THEN holders = {} ELSE holders \cap Writers = {}

Wait(task, lock) ==
  IF queue[lock] = <<>> /\ Compatible(task, held[lock])
  THEN held' = [held EXCEPT ![lock] = @ \cup {task}] /\ UNCHANGED queue
  ELSE queue' = [queue EXCEPT ![lock] = Append(@, task)] /\ UNCHANGED held

(* How many of the waiters in q are let in next to the given holders. *)
Admitted(q, holders) ==
  LET readers == CHOOSE n \in 0 .. Len(q) :
                   /\ \A i \in 1 .. n : q[i] \in Players
                   /\ n = Len(q) \/ q[n + 1] \in Writers
  IN IF holders = {} /\ q # <<>> /\ readers = 0 THEN 1
     ELSE IF holders \cap Writers = {} THEN readers ELSE 0

Release(task) ==
  LET left(l) == held[l] \ {task}
      n(l)    == IF task \in held[l] THEN Admitted(queue[l], left(l)) ELSE 0
  IN /\ held' = [l \in Locks |-> left(l) \cup {queue[l][i] : i \in 1 .. n(l)}]
     /\ queue' = [l \in Locks |-> SubSeq(queue[l], n(l) + 1, Len(queue[l]))]

-----------------------------------------------------------------------------
(* Loading.  A load reads and compiles its file and then asks for the lock.  Nothing
   of that depends on the host, so it is one step; a file that cannot be read or
   compiled changes nothing. *)
NoJob == [file |-> MainFile, script |-> NoScript]

LockOf(file) == IF file = MainFile THEN "ast" ELSE "plugins"

Start(l, file, script) ==
  /\ job[l] = NoJob
  /\ job' = [job EXCEPT ![l] = [file |-> file, script |-> script]]
  /\ Wait(l, LockOf(file))
  /\ UNCHANGED <<plugins, ast, eval>>

(* load_plugins_dir loads the files it finds in the order of their paths; main then
   loads the main script. *)
BootLoad ==
  /\ todo # <<>>
  /\ \E script \in Scripts[Head(todo)] : Start(Boot, Head(todo), script)
  /\ todo' = Tail(todo)

(* A file that is missing or broken is passed over. *)
BootSkip ==
  /\ todo # <<>> /\ job[Boot] = NoJob
  /\ todo' = Tail(todo)
  /\ UNCHANGED <<plugins, ast, locks, job, eval>>

(* main starts the listener when it has loaded everything. *)
Booted == todo = <<>> /\ job[Boot] = NoJob

(* load_plugin_file, reload or load_script while the proxy runs. *)
Load(l, file, script) ==
  /\ Booted
  /\ Start(l, file, script)
  /\ UNCHANGED todo

(* Mutant of Registered: a plugin that is loaded again moves to the end. *)
RegisteredLast(list, file, script) ==
  Append(SelectSeq(list, LAMBDA p : p.name # file), [name |-> file, ast |-> script])

(* A plugin that is loaded again keeps its place. *)
Registered(list, file, script) ==
  IF \E i \in DOMAIN list : list[i].name = file
  THEN [i \in DOMAIN list |-> IF list[i].name = file THEN [name |-> file, ast |-> script]
                              ELSE list[i]]
  ELSE Append(list, [name |-> file, ast |-> script])

(* Mutant of Install: the guard outlives the load. *)
InstallKeepsGuard(l) ==
  /\ job[l] # NoJob /\ l \in held[LockOf(job[l].file)]
  /\ IF job[l].file = MainFile
     THEN ast' = job[l].script /\ UNCHANGED plugins
     ELSE plugins' = Registered(plugins, job[l].file, job[l].script) /\ UNCHANGED ast
  /\ job' = [job EXCEPT ![l] = NoJob]
  /\ UNCHANGED <<locks, eval, todo>>

Install(l) ==
  /\ job[l] # NoJob /\ l \in held[LockOf(job[l].file)]
  /\ IF job[l].file = MainFile
     THEN ast' = job[l].script /\ UNCHANGED plugins
     ELSE plugins' = Registered(plugins, job[l].file, job[l].script) /\ UNCHANGED ast
  /\ job' = [job EXCEPT ![l] = NoJob]
  /\ Release(l)
  /\ UNCHANGED <<eval, todo>>

-----------------------------------------------------------------------------
(* Evaluating a hook: eval_join, eval_command, eval_tab_complete. *)
Fresh(at, hook) ==
  [at |-> at, hook |-> hook, asked |-> 0, trace |-> <<>>, result |-> Default(hook)]

NoEval == Fresh("idle", "join")

(* An entry of the trace: in which turn whose hook has run, and what it handed back. *)
Ran(nth, script, outcome) == [nth |-> nth, ast |-> script, outcome |-> outcome]

Ask(p, hook) ==
  /\ Booted /\ eval[p].at = "idle"
  /\ eval' = [eval EXCEPT ![p] = Fresh("plugins", hook)]
  /\ Wait(p, "plugins")
  /\ UNCHANGED <<plugins, ast, job, todo>>

InPlugins(p) == eval[p].at = "plugins" /\ p \in held["plugins"]

(* The evaluation after one more hook. *)
Later(e, at, script, outcome) ==
  [at |-> at, hook |-> e.hook, asked |-> e.asked + 1,
   trace |-> Append(e.trace, Ran(e.asked + 1, script, outcome)),
   result |-> Fold(e.hook, e.result, outcome)]

(* The next plugin does not define the hook. *)
SkipPlugin(p) ==
  /\ InPlugins(p) /\ eval[p].asked < Len(plugins)
  /\ ~Defines(plugins[eval[p].asked + 1].ast, eval[p].hook)
  /\ eval' = [eval EXCEPT ![p].asked = @ + 1]
  /\ UNCHANGED <<plugins, ast, locks, job, todo>>

(* A plugin's hook has run; if it decides, the guard is dropped. *)
RunPlugin(p, script, outcome) ==
  IF Decides(eval[p].hook, outcome)
  THEN /\ eval' = [eval EXCEPT ![p] = Later(@, "answered", script, outcome)]
       /\ Release(p)
  ELSE /\ eval' = [eval EXCEPT ![p] = Later(@, "plugins", script, outcome)]
       /\ UNCHANGED locks

(* Mutant of CallPlugin: without the limit on operations a loop never returns. *)
CallPluginUnlimited(p) ==
  /\ InPlugins(p) /\ eval[p].asked < Len(plugins)
  /\ LET script == plugins[eval[p].asked + 1].ast
     IN /\ Defines(script, eval[p].hook)
        /\ IF [loop |-> TRUE] \in script[eval[p].hook] THEN UNCHANGED <<eval, locks>>
           ELSE \E o \in Outcomes(script, eval[p].hook) : RunPlugin(p, script, o)
  /\ UNCHANGED <<plugins, ast, job, todo>>

(* The next plugin defines the hook. *)
CallPlugin(p) ==
  /\ InPlugins(p) /\ eval[p].asked < Len(plugins)
  /\ LET script == plugins[eval[p].asked + 1].ast
     IN /\ Defines(script, eval[p].hook)
        /\ \E o \in Outcomes(script, eval[p].hook) : RunPlugin(p, script, o)
  /\ UNCHANGED <<plugins, ast, job, todo>>

(* Mutant of AwaitMain: the guard on the plugins is dropped before the main script
   is awaited. *)
AwaitMainUnguarded(p) ==
  /\ InPlugins(p) /\ eval[p].asked = Len(plugins)
  /\ eval' = [eval EXCEPT ![p].at = "main"]
  /\ LET n    == Admitted(queue["plugins"], held["plugins"] \ {p})
         free == queue["ast"] = <<>> /\ Compatible(p, held["ast"])
     IN /\ held' = [plugins |-> (held["plugins"] \ {p}) \cup {queue["plugins"][i] : i \in 1 .. n},
                    ast     |-> IF free THEN held["ast"] \cup {p} ELSE held["ast"]]
        /\ queue' = [plugins |-> SubSeq(queue["plugins"], n + 1, Len(queue["plugins"])),
                     ast     |-> IF free THEN <<>> ELSE Append(queue["ast"], p)]
  /\ UNCHANGED <<plugins, ast, job, todo>>

(* All plugins have been asked: the main script is awaited, with the guard on the
   plugins still held. *)
AwaitMain(p) ==
  /\ InPlugins(p) /\ eval[p].asked = Len(plugins)
  /\ eval' = [eval EXCEPT ![p].at = "main"]
  /\ Wait(p, "ast")
  /\ UNCHANGED <<plugins, ast, job, todo>>

(* The main script is the last to run, if it defines the hook; both guards are
   dropped. *)
CallMain(p) ==
  /\ eval[p].at = "main" /\ p \in held["ast"]
  /\ \/ /\ Defines(ast, eval[p].hook)
        /\ \E o \in Outcomes(ast, eval[p].hook) :
             eval' = [eval EXCEPT ![p] = Later(@, "answered", ast, o)]
     \/ /\ ~Defines(ast, eval[p].hook)
        /\ eval' = [eval EXCEPT ![p].at = "answered"]
  /\ Release(p)
  /\ UNCHANGED <<plugins, ast, job, todo>>

(* The session acts on the result. *)
Take(p) ==
  /\ eval[p].at = "answered"
  /\ eval' = [eval EXCEPT ![p] = NoEval]
  /\ UNCHANGED <<plugins, ast, locks, job, todo>>

-----------------------------------------------------------------------------
(* main has set the servers; it loads the plugins it finds and then the main script. *)
Init ==
  /\ plugins = <<>> /\ ast = NoScript
  /\ held = [l \in Locks |-> {}] /\ queue = [l \in Locks |-> <<>>]
  /\ job = [l \in Writers |-> NoJob]
  /\ eval = [p \in Players |-> NoEval]
  /\ todo = Append(PluginFiles, MainFile)

Evaluate(p) == SkipPlugin(p) \/ CallPlugin(p) \/ AwaitMain(p) \/ CallMain(p) \/ Take(p)

Next ==
  \/ BootSkip \/ BootLoad
  \/ \E l \in Loaders, f \in Files : \E s \in Scripts[f] : Load(l, f, s)
  \/ \E l \in Writers : Install(l)
  \/ \E p \in Players : Evaluate(p) \/ \E h \in HooksOf(p) : Ask(p, h)

(* Tasks that can go on do. *)
Fairness ==
  /\ \A l \in Writers : WF_vars(Install(l))
  /\ \A p \in Players : WF_vars(Evaluate(p))

Spec     == Init /\ [][Next]_vars
FairSpec == Spec /\ Fairness

-----------------------------------------------------------------------------
(* Safety. *)
TypeOK ==
  /\ \A i \in DOMAIN plugins :
       /\ plugins[i].name \in ToSet(PluginFiles)
       /\ plugins[i].ast \in Scripts[plugins[i].name]
  /\ ast \in Scripts[MainFile] \cup {NoScript}
  /\ held \in [Locks -> SUBSET (Players \cup Writers)]
  /\ \A l \in Locks : ToSet(queue[l]) \subseteq (Players \cup Writers) \ held[l]
  /\ \A l \in Writers : job[l] = NoJob \/ job[l].script \in Scripts[job[l].file]
  /\ \A p \in Players : eval[p].at \in {"idle", "plugins", "main", "answered"}

(* One evaluation sees one version of the plugins, whatever is loaded meanwhile:
   until it has its answer, the hooks that have run are those of the first plugins
   of the list as it is now, in its order, and it has left none out. *)
SeesOneVersion ==
  \A p \in Players : eval[p].at \in {"plugins", "main"} =>
    LET trace == eval[p].trace
    IN /\ eval[p].asked <= Len(plugins)
       /\ \A i \in DOMAIN trace : /\ trace[i].nth \in 1 .. eval[p].asked
                                  /\ trace[i].ast = plugins[trace[i].nth].ast
       /\ \A i, j \in DOMAIN trace : i < j => trace[i].nth < trace[j].nth
       /\ \A n \in 1 .. eval[p].asked :
            Defines(plugins[n].ast, eval[p].hook) <=> \E i \in DOMAIN trace : trace[i].nth = n

(* The hooks that had a say: a script that fails has none. *)
Said(hook, trace) == {i \in DOMAIN trace : Typed(hook, trace[i].outcome)}

(* "If any script returns allow: false, execution stops immediately and the player is
   disconnected with that script's disconnect_reason"; otherwise the last target that
   was set counts. *)
JoinRule(trace, result) ==
  LET said    == Said("join", trace)
      r(i)    == JoinResult(trace[i].outcome.map)
      targets == {i \in said : r(i).target_server # ""}
  IN /\ \A i \in said : ~r(i).allow => i = Len(trace) /\ result = r(i)
     /\ (\A i \in said : r(i).allow) =>
          /\ result.allow /\ result.disconnect_reason = ""
          /\ targets = {} => result.target_server = ""
          /\ \A i \in targets : (\A j \in targets : j <= i) =>
               result.target_server = r(i).target_server

(* "If a plugin returns cancel: true or sets reroute_server, the command is considered
   handled: subsequent scripts are skipped." *)
CommandRule(trace, result) ==
  LET said       == Said("command", trace)
      r(i)       == CommandResult(trace[i].outcome.map)
      Handled(x) == x.cancel \/ x.reroute_server # ""
  IN /\ \A i \in said : Handled(r(i)) => i = Len(trace) /\ result = r(i)
     /\ (\A i \in said : ~Handled(r(i))) => ~Handled(result) /\ result.send_message = ""

(* The hooks that suggest a text. *)
Offer(trace, text) ==
  {i \in Said("tab", trace) :
     \E x \in ToSet(trace[i].outcome.array) : "text" \in DOMAIN x /\ x.text = text}

(* "Suggestions from all plugins are aggregated": each text that some array holds, once,
   and none before a text that an earlier hook was the first to suggest. *)
TabRule(trace, result) ==
  LET items == UNION {ToSet(trace[i].outcome.array) : i \in Said("tab", trace)}
  IN /\ ToSet(result.results) = {x.text : x \in {y \in items : "text" \in DOMAIN y}}
     /\ \A i, j \in DOMAIN result.results : result.results[i] = result.results[j] => i = j
     /\ \A i, j \in DOMAIN result.results : i < j =>
          \E k \in Offer(trace, result.results[i]) :
            \A l \in Offer(trace, result.results[j]) : k <= l

FollowsRule(e) ==
  CASE e.hook = "join"    -> JoinRule(e.trace, e.result)
    [] e.hook = "command" -> CommandRule(e.trace, e.result)
    [] e.hook = "tab"     -> TabRule(e.trace, e.result)

(* What a session is told follows from what the hooks handed back, by the rules of
   the documentation, and no hook runs after the one that decided. *)
AnswerFollowsRules == \A p \in Players : eval[p].at = "answered" => FollowsRule(eval[p])

(* A load never takes a plugin away, never gives it another turn, and never lists a
   name twice. *)
OrderKept ==
  [][/\ Len(plugins) <= Len(plugins')
     /\ \A i \in DOMAIN plugins : plugins'[i].name = plugins[i].name
     /\ \A i, j \in DOMAIN plugins' : plugins'[i].name = plugins'[j].name => i = j]_vars

-----------------------------------------------------------------------------
(* Liveness. *)

(* Every hook a session waits for comes back, although scripts loop, although loads
   queue between the two locks it needs. *)
EveryAskAnswered == \A p \in Players : eval[p].at = "plugins" ~> eval[p].at = "answered"

(* Every load comes to an end, although sessions never stop asking. *)
EveryLoadEnds == \A l \in Writers : job[l] # NoJob ~> job[l] = NoJob
=============================================================================
