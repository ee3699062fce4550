--------------------------- MODULE ConfigHistory ---------------------------
(***************************************************************************)
(* The configuration with history variables: the updates that were saved,  *)
(* what has become of them, the keys that were set and not saved, and      *)
(* whether a file was changed without an event since it was last loaded.   *)
(***************************************************************************)
EXTENDS ConfigManager

VARIABLES
    kept,       (* key -> value of the last update of it that was saved      *)
    uncovered,  (* keys of kept whose value the files do not say any more    *)
    forgotten,  (* keys of kept that were loaded like that                   *)
    unsaved,    (* keys set in memory since the last load or save            *)
    missed      (* a file was changed and the process was not told           *)

fate == <<uncovered, forgotten>>
history == <<kept, fate, unsaved, missed>>
historyVars == <<vars, history>>

HistoryTypeOK ==
    /\ TypeOK
    /\ kept \in Overrides
    /\ uncovered \in SUBSET Keys
    /\ forgotten \in SUBSET Keys
    /\ unsaved \in SUBSET Keys
    /\ missed \in BOOLEAN

Without(f, S) == [k \in DOMAIN f \ S |-> f[k]]

HistoryInit ==
    /\ Init
    /\ kept = NoSettings
    /\ uncovered = {}
    /\ forgotten = {}
    /\ unsaved = {}
    /\ missed = FALSE

\* What the files do not say is not in memory either after a load.
Load ==
    /\ Start \/ \E f \in Files : Reload(f)
    /\ forgotten' = forgotten \cup uncovered
    /\ unsaved' = {}
    /\ missed' = FALSE
    /\ UNCHANGED <<kept, uncovered>>

Nothing ==
    /\ \/ \E f \in Files : ReloadFails(f)
       \/ \E r \in Requests : Post(r)
    /\ UNCHANGED history

Update ==
    /\ Set \/ SetRefused
    /\ kept' = Without(kept, {Head(todo).key})
    /\ unsaved' = unsaved \cup {Head(todo).key}
    /\ UNCHANGED <<fate, missed>>

\* All that is in memory is in the files again.
Saved ==
    /\ Save \/ SaveNothing
    /\ kept' = [k \in DOMAIN kept \cup {Head(todo).key} |->
                  IF k = Head(todo).key THEN Head(todo).value ELSE kept[k]]
    /\ uncovered' = {}
    /\ forgotten' = forgotten \ {Head(todo).key}
    /\ unsaved' = {}
    /\ UNCHANGED missed

\* A torn node file has lost its settings: a kill or a failure in the middle of
\* a write, and only then.
Broken ==
    /\ Kill \/ SaveFails
    /\ uncovered' = IF node' = node THEN uncovered ELSE DOMAIN kept
    /\ missed' = (missed \/ (node' # node /\ "node" \notin watching))
    /\ UNCHANGED <<kept, forgotten, unsaved>>

\* A setting that was that of the default file at the last save is not in the
\* node file (getDiff), and follows the default file to another value.
DefaultEdited ==
    /\ \E c \in DefaultEdits \cup {Unreadable} : EditDefault(c)
    /\ uncovered' = uncovered \cup
                      {k \in DOMAIN kept \ DOMAIN NodeLayer :
                         default' # Unreadable /\ default'[k] # kept[k]}
    /\ missed' = (missed \/ "default" \notin watching)
    /\ UNCHANGED <<kept, forgotten, unsaved>>

NodeEdited ==
    /\ RemoveNode \/ \E c \in NodeEdits \cup {Unreadable} : EditNode(c)
    /\ kept' = NoSettings
    /\ uncovered' = {}
    /\ forgotten' = {}
    /\ missed' = (missed \/ "node" \notin watching)
    /\ UNCHANGED unsaved

HistoryNext ==
    Load \/ Nothing \/ Update \/ Saved \/ Broken \/ DefaultEdited \/ NodeEdited

HistorySpec == HistoryInit /\ [][HistoryNext]_historyVars

-----------------------------------------------------------------------------
\* A value in force that validation does not accept comes from an update that
\* was refused (set changes the configuration first, config-manager.ts:361-364),
\* never from a file, and the next load removes it.
InForceWasChecked ==
    up => \A k \in Keys : config[k] \notin Accepted[k] => k \in unsaved

\* A setting that was saved through the API is what the next start loads, over
\* other updates, saved, refused or failed, reloads, and kills between two
\* writes, as long as the node file is not replaced or removed by hand.  It is
\* lost in two ways: the node file is torn (saveNodeConfig writes in place,
\* config-manager.ts:403), or the setting was that of the default file at the
\* last save, so that the node file does not have it (getDiff, :384), and the
\* default file has got another value for it since.  The next save, of whatever
\* setting, repairs both, unless a load came first.
SavedSettingsSurvive ==
    default # Unreadable =>
        \A k \in DOMAIN kept \ DOMAIN Env :
            Loaded[k] = kept[k] \/ k \in uncovered \cup forgotten

Quiet == up /\ todo = <<>> /\ changed = {} /\ Loadable

\* Once all events are handled the files are in force, but for keys that were
\* set and not saved, keys of the environment, and changes without an event
\* (watchConfig).
FilesInForce ==
    Quiet /\ ~missed =>
        \A k \in Keys \ (unsaved \cup DOMAIN Env) : config[k] = Loaded[k]

\* The inductive invariant.  What set is about to save was validated and is the
\* configuration in force; a setting that was kept is in the node file, or is
\* that of the default file, unless uncovered, and is in force, unless it was
\* loaded like that; the files are in force also while
\* an update is served.
SavingIsChecked ==
    saving => Valid(config) /\ config[Head(todo).key] = Head(todo).value

Remembered == DOMAIN kept \ (DOMAIN Env \cup forgotten)

KeptIsStored ==
    \A k \in Remembered \ uncovered :
        IF k \in DOMAIN NodeLayer THEN NodeLayer[k] = kept[k]
        ELSE default # Unreadable => default[k] = kept[k]

KeptIsInForce == up => \A k \in Remembered : config[k] = kept[k]

FilesAreInForce ==
    up /\ changed = {} /\ ~missed /\ Loadable =>
        \A k \in Keys \ (unsaved \cup DOMAIN Env) : config[k] = Loaded[k]

IInv ==
    /\ HistoryTypeOK
    /\ SavingIsChecked
    /\ InForceWasChecked
    /\ KeptIsStored
    /\ KeptIsInForce
    /\ FilesAreInForce
=============================================================================
