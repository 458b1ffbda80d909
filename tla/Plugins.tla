------------------------------- MODULE Plugins -------------------------------
(***************************************************************************)
(* The plugin SDK (services/integration/plugin_sdk): the registry of one   *)
(* process, its rows in the database, the dispatch of a hook to the        *)
(* enabled plugins, and the sandbox a plugin may run in.                   *)
(*                                                                         *)
(* A plugin is the bundle its author left on disk, which changes at any    *)
(* time: what its manifest declares, whether the manifest validates and    *)
(* whether the entrypoint imports.  The registry keeps the manifest it was *)
(* given; the code that runs is whatever was imported last.                *)
(***************************************************************************)
EXTENDS Naturals

CONSTANTS
  PlPlugins,      \* number of plugins; their ids, in the order of their names
  PlMaxRequests,  \* bound: requests and commands in a behaviour
  PlMaxChanges    \* bound: changes of the bundles on disk

ASSUME PluginsAssumption == {PlPlugins, PlMaxRequests, PlMaxChanges} \subseteq Nat

VARIABLES
  plDisk,        \* what discover_plugins finds of each plugin
  plRegistry,    \* PluginRegistry._plugins: state and manifest of the installed plugins
  plRows,        \* the catalog row of each plugin and its latest installation row
  plWrites,      \* the transactions of requests whose registry change is made
  plHooks,       \* the calls left in the dispatch that runs, one of each plugin
  plHanded,      \* the plugins called and what their code was handed
  plMonitor,     \* SandboxMonitor, as its dashboard summary tells it
  plEnded,       \* whether every sandboxed process ended in time, by itself, with a result
  plValidated,   \* the manifests that were ever found valid
  plReloaded,    \* the manifests a reload from the command line recorded
  plBudget       \* requests and changes made

plVars == <<plDisk, plRegistry, plRows, plWrites, plHooks, plHanded, plMonitor, plEnded,
            plValidated, plReloaded, plBudget>>
plHistory == <<plValidated, plReloaded>>
plCalls == <<plHooks, plHanded, plMonitor, plEnded>>

PluginIds == 1 .. PlPlugins
Capabilities == {"artifacts", "events"}
Bundle(declares, valid, imports) ==
  [found |-> TRUE, declares |-> declares, valid |-> valid, imports |-> imports]
Absent == [Bundle({}, FALSE, FALSE) EXCEPT !.found = FALSE]
Bundles == {Absent} \cup {Bundle(d, v, i) : d \in {{}, {"artifacts"}}, v \in BOOLEAN, i \in BOOLEAN}
Found(p) == plDisk[p].found
Put(f, p, v) == [q \in DOMAIN f \cup {p} |-> IF q = p THEN v ELSE f[q]]
Drop(f, p) == [q \in DOMAIN f \ {p} |-> f[q]]

PlInit ==
  /\ plDisk = [p \in PluginIds |-> Bundle({}, TRUE, TRUE)]
  /\ plRegistry = <<>> /\ plRows = <<>> /\ plWrites = {}
  /\ plHooks = {} /\ plHanded = {}
  /\ plMonitor = [violations |-> FALSE, timeouts |-> FALSE] /\ plEnded = TRUE
  /\ plValidated = {} /\ plReloaded = {}
  /\ plBudget = [requests |-> 0, changes |-> 0]

\* An author upgrades, breaks or deletes a bundle.
ChangeBundle(p) ==
  /\ plBudget.changes < PlMaxChanges
  /\ plBudget' = [plBudget EXCEPT !.changes = @ + 1]
  /\ plDisk' \in {[plDisk EXCEPT ![p] = b] : b \in Bundles}
  /\ UNCHANGED <<plRegistry, plRows, plWrites, plCalls, plHistory>>

Request == /\ plBudget.requests < PlMaxRequests
           /\ plBudget' = [plBudget EXCEPT !.requests = @ + 1]
           /\ UNCHANGED <<plDisk, plCalls>>

\* The write that follows a change of the registry, which is not waited for by others.
Recording(p, kind, state, declares) ==
  plWrites' = plWrites \cup {[plugin |-> p, kind |-> kind, state |-> state, declares |-> declares]}

\* install_plugin: a manifest that is not valid is refused, an installed id conflicts.
Install(p) ==
  /\ Request /\ Found(p) /\ plDisk[p].valid
  /\ plValidated' = plValidated \cup {<<p, plDisk[p].declares>>}
  /\ IF p \in DOMAIN plRegistry THEN UNCHANGED <<plRegistry, plWrites>>
     ELSE /\ plRegistry' = Put(plRegistry, p, [state |-> "installed", declares |-> plDisk[p].declares])
          /\ Recording(p, "record", "installed", plDisk[p].declares)
  /\ UNCHANGED <<plRows, plReloaded>>

\* _toggle: any installed plugin, whatever its state.
Toggle(p, state) ==
  /\ Request /\ p \in DOMAIN plRegistry
  /\ plRegistry' = [plRegistry EXCEPT ![p].state = state]
  /\ Recording(p, "state", state, {})
  /\ UNCHANGED <<plRows, plHistory>>

\* Mutant: a reload takes the manifest it finds beside the entrypoint.
ReloadUpgrades(p) ==
  /\ Request /\ p \in DOMAIN plRegistry /\ Found(p)
  /\ plRegistry' = [plRegistry EXCEPT ![p] =
       IF plDisk[p].imports THEN [state |-> "enabled", declares |-> plDisk[p].declares]
       ELSE [@ EXCEPT !.state = "error"]]
  /\ UNCHANGED <<plRows, plWrites, plHistory>>

\* reload_plugin: enables even what was disabled, keeps the manifest, records nothing.
Reload(p) ==
  /\ Request /\ p \in DOMAIN plRegistry /\ Found(p)
  /\ plRegistry' = [plRegistry EXCEPT ![p].state = IF plDisk[p].imports THEN "enabled" ELSE "error"]
  /\ UNCHANGED <<plRows, plWrites, plHistory>>

\* remove_plugin: records nothing either.
RemovePlugin(p) ==
  /\ Request /\ p \in DOMAIN plRegistry
  /\ plRegistry' = Drop(plRegistry, p)
  /\ UNCHANGED <<plRows, plWrites, plHistory>>

\* record_plugin upserts the catalog row, set_state needs one to refer to; both append
\* an installation row, which is the latest.
Recorded(p, kind, state, declares) ==
  IF kind = "record" THEN Put(plRows, p, [state |-> state, declares |-> declares])
  ELSE [plRows EXCEPT ![p].state = state]

\* A best-effort transaction: writes of one plugin land in any order, or not at all.
Persist(w) ==
  /\ plWrites' = plWrites \ {w}
  /\ \/ /\ w.kind = "record" \/ w.plugin \in DOMAIN plRows
        /\ plRows' = Recorded(w.plugin, w.kind, w.state, w.declares)
     \/ UNCHANGED plRows
  /\ UNCHANGED <<plDisk, plRegistry, plCalls, plHistory, plBudget>>

\* The command line works on the rows; its own registry ends with it.
CommandInstall(p) ==
  /\ Request /\ Found(p) /\ plDisk[p].valid
  /\ plValidated' = plValidated \cup {<<p, plDisk[p].declares>>}
  /\ plRows' = Recorded(p, "record", "installed", plDisk[p].declares)
  /\ UNCHANGED <<plRegistry, plWrites, plReloaded>>

\* enable, disable, and remove, which records a disabled plugin.
CommandSet(p, state) ==
  /\ Request /\ p \in DOMAIN plRows
  /\ plRows' = Recorded(p, "state", state, {})
  /\ UNCHANGED <<plRegistry, plWrites, plHistory>>

\* reload imports the entrypoint and records the manifest it found, without validating it.
CommandReload(p) ==
  /\ Request /\ Found(p) /\ plDisk[p].imports
  /\ plRows' = Recorded(p, "record", "enabled", plDisk[p].declares)
  /\ plReloaded' = plReloaded \cup {<<p, plDisk[p].declares>>}
  /\ UNCHANGED <<plRegistry, plWrites, plValidated>>

PlRestart ==
  /\ Request /\ plRegistry' = <<>> /\ plWrites' = {}
  /\ UNCHANGED <<plRows, plHistory>>

-----------------------------------------------------------------------------
\* list_enabled, in the order of ids: the plugins as they are when a dispatch begins.  One
\* dispatch is followed in a behaviour.
Enabled(p) == p \in DOMAIN plRegistry /\ plRegistry[p].state = "enabled"
BeginDispatch ==
  /\ plHooks = {} /\ plHanded = {}
  /\ \E modes \in [PluginIds -> {"none", "process"}] :
       plHooks' = {[plugin |-> p, mode |-> modes[p], declares |-> plRegistry[p].declares] :
                     p \in {q \in PluginIds : Enabled(q)}}
  /\ UNCHANGED <<plDisk, plRegistry, plRows, plWrites, plHanded, plMonitor, plEnded, plHistory,
                 plBudget>>

\* context_for_plugin: what the manifest declares; no live object crosses to a process.
Handed(call) == IF call.mode = "process" THEN {} ELSE call.declares \cap Capabilities

\* What a sandboxed process can come to: out of time, killed, or ended with a result file.
ChildEnds == {"timed out", "killed", "killed late", "no result", "malformed", "failed", "returned"}

\* Mutant: the result is read whatever the exit code.
ViolatesUnread(end) == end \in {"timed out", "killed", "no result", "malformed"}

\* ProcessSandboxRunner.run: the result file is read only of a process that exited with 0;
\* a file that is missing or does not parse is a violation too.
Violates(end) == end \in {"timed out", "killed", "killed late", "no result", "malformed"}

\* The call of the plugin whose turn it is; a hook that raises fails alone and the
\* dispatch goes on.
RunHook(call) ==
  /\ \A other \in plHooks : call.plugin <= other.plugin
  /\ plHanded' = plHanded \cup {<<call.plugin, Handed(call)>>}
  /\ \/ call.mode = "none" /\ UNCHANGED <<plMonitor, plEnded>>
     \/ /\ call.mode = "process"
        /\ \E end \in ChildEnds :
             /\ plMonitor' = [violations |-> plMonitor.violations \/ Violates(end),
                              timeouts |-> plMonitor.timeouts \/ end = "timed out"]
             /\ plEnded' = (plEnded /\ end \in {"failed", "returned"})
  /\ plHooks' = plHooks \ {call}
  /\ UNCHANGED <<plDisk, plRegistry, plRows, plWrites, plHistory, plBudget>>

\* A request that cannot be written or a process that cannot be spawned raises out of the
\* runner: the dispatch ends with the calls that are left, and nothing is monitored.
SpawnFails(call) ==
  /\ call.mode = "process" /\ \A other \in plHooks : call.plugin <= other.plugin
  /\ plHooks' = {}
  /\ UNCHANGED <<plDisk, plRegistry, plRows, plWrites, plHanded, plMonitor, plEnded, plHistory,
                 plBudget>>

\* dashboard_summary: failed hooks alone leave the sandbox healthy.
SandboxHealthy == ~plMonitor.violations /\ ~plMonitor.timeouts

PlNext ==
  \/ \E p \in PluginIds :
       \/ ChangeBundle(p) \/ Install(p) \/ Reload(p) \/ RemovePlugin(p)
       \/ CommandInstall(p) \/ CommandReload(p)
       \/ \E state \in {"enabled", "disabled"} : Toggle(p, state) \/ CommandSet(p, state)
  \/ \E w \in plWrites : Persist(w)
  \/ \E call \in plHooks : RunHook(call) \/ SpawnFails(call)
  \/ PlRestart \/ BeginDispatch

PlSpec == PlInit /\ [][PlNext]_plVars

-----------------------------------------------------------------------------
\* A plugin's code, which may have been upgraded since, is handed nothing that a manifest
\* of that plugin found valid did not declare, and the catalog lists no other manifest but
\* those that a command reloaded; and the sandbox is reported healthy exactly when every
\* process it started ended in time, by itself and with a readable result.
HandedWasValidated ==
  /\ \A h \in plHanded : \E v \in plValidated : v[1] = h[1] /\ h[2] \subseteq v[2]
  /\ \A p \in DOMAIN plRows : <<p, plRows[p].declares>> \in plValidated \cup plReloaded

PluginsAreContained == HandedWasValidated /\ (SandboxHealthy <=> plEnded)
=============================================================================
