---------------------------- MODULE ConfigManager ----------------------------
(***************************************************************************)
(* The configuration of a node (server/config-manager.ts), what changes it *)
(* through the HTTP API (serveConfig in server/monitor-server.ts) and who  *)
(* edits its files while the process runs, or does not.                    *)
(*                                                                         *)
(* A step of the process is the part of a callback between two accesses to *)
(* the files; the process may be killed between any two.  While an update  *)
(* is served no other callback runs: its awaits only wait for promises     *)
(* that are settled.  Operators, and a git pull, edit the files at any     *)
(* time.  A configuration is a function from the paths of its settings.    *)
(***************************************************************************)
EXTENDS Sequences

CONSTANTS
    Keys,           (* paths of settings, such as utls.concurrency           *)
    Values,         (* values a setting may be given                         *)
    Accepted,       (* key -> the values validateConfig accepts              *)
    Env,            (* key -> value, for the keys the environment sets       *)
    Requests,       (* bodies of POST: sequences of keys and values          *)
    DefaultEdits,   (* what operators write to the default file              *)
    NodeEdits,      (* and to the file of this node                          *)
    Absent,         (* no file                                               *)
    Unreadable      (* no JSON: a torn write, a typing error, or no file     *)

Settings == [Keys -> Values]
Overrides == UNION {[K -> Values] : K \in SUBSET Keys}
NoSettings == [k \in {} |-> k]

ASSUME ConfigAssumption ==
    /\ Accepted \in [Keys -> SUBSET Values]
    /\ Env \in Overrides
    /\ \A r \in Requests : r # <<>> /\ r \in Seq([key : Keys, value : Values])
    /\ DefaultEdits \subseteq Settings
    /\ NodeEdits \subseteq Overrides
    /\ Absent # Unreadable
    /\ {Absent, Unreadable} \cap (Settings \cup Overrides) = {}

VARIABLES
    default,    (* config/default.json                                       *)
    node,       (* config/node-<hostname>.json                               *)
    up,         (* the process runs                                          *)
    config,     (* the configuration in force                                *)
    watching,   (* the files whose watch is still on the file                *)
    changed,    (* the files with a 'change' that is not handled yet         *)
    todo,       (* the updates of the POST being served that are left        *)
    saving      (* set has changed the configuration and will save it        *)

files == <<default, node>>
process == <<up, config, todo, saving>>
vars == <<files, process, watching, changed>>

Files == {"default", "node"}

TypeOK ==
    /\ default \in Settings \cup {Unreadable}
    /\ node \in Overrides \cup {Absent, Unreadable}
    /\ up \in BOOLEAN
    /\ config \in Settings
    /\ watching \in SUBSET Files
    /\ changed \in SUBSET Files
    /\ todo \in Seq([key : Keys, value : Values])
    /\ saving \in BOOLEAN
    /\ saving => todo # <<>>
    /\ ~up => watching = {} /\ changed = {} /\ todo = <<>>

-----------------------------------------------------------------------------
Merge(target, source) ==
    [k \in DOMAIN target |-> IF k \in DOMAIN source THEN source[k] ELSE target[k]]

\* Only what differs from the default file is saved.
Diff(base, current) ==
    [k \in {x \in DOMAIN current : current[x] # base[x]} |-> current[k]]

Valid(c) == \A k \in Keys : c[k] \in Accepted[k]

\* A node file that cannot be read is ignored.
NodeLayer == IF node \in {Absent, Unreadable} THEN NoSettings ELSE node

Loaded == Merge(Merge(default, NodeLayer), Env)

\* Without the default file, or with a setting that is not valid, there is
\* nothing to load.
Loadable == default # Unreadable /\ Valid(Loaded)

Existing == IF node = Absent THEN {"default"} ELSE Files

Init ==
    /\ default \in {d \in DefaultEdits : Valid(d)}
    /\ node \in NodeEdits \cup {Absent}
    /\ up = FALSE
    /\ config = default
    /\ watching = {}
    /\ changed = {}
    /\ todo = <<>>
    /\ saving = FALSE

-----------------------------------------------------------------------------
\* If nothing can be loaded the process exits at once.
Start ==
    /\ ~up
    /\ Loadable
    /\ up' = TRUE
    /\ config' = Loaded
    /\ watching' = Existing
    /\ UNCHANGED <<files, changed, todo, saving>>

\* saveNodeConfig has something to write.
Writing == saving /\ default \notin {Unreadable, config}

\* A kill in a write leaves a file that is no JSON.
Kill ==
    /\ up
    /\ up' = FALSE
    /\ watching' = {}
    /\ changed' = {}
    /\ todo' = <<>>
    /\ saving' = FALSE
    /\ \/ UNCHANGED node
       \/ Writing /\ node' = Unreadable
    /\ UNCHANGED <<default, config>>

\* Mutation of Reload: the node file is merged into what is in force.
ReloadOver(f) ==
    /\ f \in changed
    /\ todo = <<>>
    /\ Loadable
    /\ changed' = changed \ {f}
    /\ config' = Merge(Merge(config, NodeLayer), Env)
    /\ UNCHANGED <<files, up, watching, todo, saving>>

\* Mutation of Reload: what is loaded is not validated.
ReloadUnchecked(f) ==
    /\ f \in changed
    /\ todo = <<>>
    /\ default # Unreadable
    /\ changed' = changed \ {f}
    /\ config' = Loaded
    /\ UNCHANGED <<files, up, watching, todo, saving>>

\* The listener of fs.watch: 'change', not 'rename'.
Reload(f) ==
    /\ f \in changed
    /\ todo = <<>>
    /\ Loadable
    /\ changed' = changed \ {f}
    /\ config' = Loaded
    /\ UNCHANGED <<files, up, watching, todo, saving>>

ReloadFails(f) ==
    /\ f \in changed
    /\ todo = <<>>
    /\ ~Loadable
    /\ changed' = changed \ {f}
    /\ UNCHANGED <<files, process, watching>>

-----------------------------------------------------------------------------
\* POST /api/config: the updates are set one by one.
Post(updates) ==
    /\ up
    /\ todo = <<>>
    /\ todo' = updates
    /\ UNCHANGED <<files, up, config, saving, watching, changed>>

\* The configuration is changed, and then validated.
SetInMemory ==
    /\ todo # <<>>
    /\ ~saving
    /\ config' = [config EXCEPT ![Head(todo).key] = Head(todo).value]

Set ==
    /\ SetInMemory
    /\ Valid(config')
    /\ saving' = TRUE
    /\ UNCHANGED <<files, up, todo, watching, changed>>

\* The POST ends with the first error.
SetRefused ==
    /\ SetInMemory
    /\ ~Valid(config')
    /\ todo' = <<>>
    /\ UNCHANGED <<files, up, saving, watching, changed>>

\* A watched file that is written raises a 'change'.
Touch(f) == changed' = changed \cup (watching \cap {f})

\* Mutation of Save: only the last update is saved.
SaveLastOnly ==
    /\ Writing
    /\ node' = [k \in {Head(todo).key} |-> Head(todo).value]
    /\ Touch("node")
    /\ todo' = Tail(todo)
    /\ saving' = FALSE
    /\ UNCHANGED <<default, up, config, watching>>

Save ==
    /\ Writing
    /\ node' = Diff(default, config)
    /\ Touch("node")
    /\ todo' = Tail(todo)
    /\ saving' = FALSE
    /\ UNCHANGED <<default, up, config, watching>>

\* Without a difference there is no node file; the watch goes with it.
SaveNothing ==
    /\ saving
    /\ config = default
    /\ node' = Absent
    /\ Touch("node")
    /\ watching' = watching \ {"node"}
    /\ todo' = Tail(todo)
    /\ saving' = FALSE
    /\ UNCHANGED <<default, up, config>>

\* Mutation of SaveFails: the state of the update is not reset.
SaveFailsStuck ==
    /\ saving
    /\ todo' = <<>>
    /\ UNCHANGED <<files, up, config, saving, watching, changed>>

\* The default file cannot be read, or the node file cannot be written, or not
\* to its end.
SaveFails ==
    /\ saving
    /\ \/ UNCHANGED <<node, changed>>
       \/ Writing /\ node' = Unreadable /\ Touch("node")
    /\ todo' = <<>>
    /\ saving' = FALSE
    /\ UNCHANGED <<default, up, config, watching>>

-----------------------------------------------------------------------------
\* A file may be written in place, or replaced by another, and then the watch
\* stays with the one that is gone.
Edited(f) ==
    /\ Touch(f)
    /\ watching' \in {watching, watching \ {f}}
    /\ UNCHANGED process

EditDefault(content) ==
    /\ default' = content
    /\ Edited("default")
    /\ UNCHANGED node

EditNode(content) ==
    /\ node' = content
    /\ Edited("node")
    /\ UNCHANGED default

RemoveNode ==
    /\ node # Absent
    /\ node' = Absent
    /\ Touch("node")
    /\ watching' = watching \ {"node"}
    /\ UNCHANGED <<default, process>>

Next ==
    \/ Start \/ Kill
    \/ \E f \in Files : Reload(f) \/ ReloadFails(f)
    \/ \E r \in Requests : Post(r)
    \/ Set \/ SetRefused \/ Save \/ SaveNothing \/ SaveFails
    \/ \E c \in DefaultEdits \cup {Unreadable} : EditDefault(c)
    \/ \E c \in NodeEdits \cup {Unreadable} : EditNode(c)
    \/ RemoveNode

Spec == Init /\ [][Next]_vars
=============================================================================
