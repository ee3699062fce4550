------------------------- MODULE ConfigHistory_proof -------------------------
(***************************************************************************)
(* Proofs about the configuration, for any keys, values, environment,      *)
(* updates and edits.                                                      *)
(***************************************************************************)
EXTENDS ConfigHistory, SequenceTheorems, TLAPS

-----------------------------------------------------------------------------
\* Overrides are functions on some of the keys.
LEMMA OverridesAreFunctions ==
    ASSUME NEW f
    PROVE  f \in Overrides <=> \E K \in SUBSET Keys : f \in [K -> Values]
BY DEF Overrides

LEMMA OverrideType ==
    ASSUME NEW f \in Overrides
    PROVE  /\ DOMAIN f \subseteq Keys
           /\ \A k \in DOMAIN f : f[k] \in Values
BY OverridesAreFunctions

LEMMA NoSettingsType == NoSettings \in Overrides /\ DOMAIN NoSettings = {}
<1>1. NoSettings \in [{} -> Values]
  BY DEF NoSettings
<1>2. QED
  BY <1>1, OverridesAreFunctions DEF NoSettings

LEMMA EnvType == Env \in Overrides
BY ConfigAssumption DEF ConfigAssumption

\* What Merge and Diff return.
LEMMA MergeType ==
    ASSUME NEW target \in Settings, NEW source \in Overrides
    PROVE  /\ Merge(target, source) \in Settings
           /\ \A k \in Keys :
                Merge(target, source)[k] =
                  IF k \in DOMAIN source THEN source[k] ELSE target[k]
<1>1. DOMAIN target = Keys /\ \A k \in Keys : target[k] \in Values
  BY DEF Settings
<1>2. QED
  BY <1>1, OverrideType DEF Merge, Settings

LEMMA DiffType ==
    ASSUME NEW base \in Settings, NEW current \in Settings
    PROVE  /\ Diff(base, current) \in Overrides
           /\ \A k \in Keys : k \in DOMAIN Diff(base, current) <=> current[k] # base[k]
           /\ \A k \in DOMAIN Diff(base, current) : Diff(base, current)[k] = current[k]
<1>1. DOMAIN current = Keys /\ \A k \in Keys : current[k] \in Values
  BY DEF Settings
<1>2. PICK K : K = {x \in DOMAIN current : current[x] # base[x]}
  OBVIOUS
<1>3. K \in SUBSET Keys /\ \A k \in Keys : k \in K <=> current[k] # base[k]
  BY <1>1, <1>2
<1>4. Diff(base, current) = [k \in K |-> current[k]]
  BY <1>2 DEF Diff
<1>5. Diff(base, current) \in [K -> Values]
  BY <1>1, <1>3, <1>4
<1>6. Diff(base, current) \in Overrides
  BY <1>3, <1>5, OverridesAreFunctions
<1>7. QED
  BY <1>3, <1>4, <1>6

\* What saveNodeConfig saves is what loadConfig loads: merging the difference
\* into the default file gives the configuration that was saved.
THEOREM SaveThenLoad ==
    ASSUME NEW base \in Settings, NEW current \in Settings
    PROVE  Merge(base, Diff(base, current)) = current
<1>1. PICK d : d = Diff(base, current)
  OBVIOUS
<1>2. PICK m : m = Merge(base, d)
  OBVIOUS
<1>3. /\ d \in Overrides
      /\ \A k \in Keys : k \in DOMAIN d <=> current[k] # base[k]
      /\ \A k \in DOMAIN d : d[k] = current[k]
  BY <1>1, DiffType
<1>4. /\ m \in Settings
      /\ \A k \in Keys : m[k] = IF k \in DOMAIN d THEN d[k] ELSE base[k]
  BY <1>2, <1>3, MergeType
<1>5. \A k \in Keys : m[k] = current[k]
  BY <1>3, <1>4
<1>6. m = current
  BY <1>4, <1>5 DEF Settings
<1>7. QED
  BY <1>1, <1>2, <1>6

-----------------------------------------------------------------------------
LEMMA NodeLayerType ==
    ASSUME TypeOK
    PROVE  NodeLayer \in Overrides
BY NoSettingsType DEF TypeOK, NodeLayer

\* What is loaded from a default file and a node file, key by key.
LEMMA LayersValue ==
    ASSUME NEW d \in Settings, NEW l \in Overrides
    PROVE  /\ Merge(Merge(d, l), Env) \in Settings
           /\ \A k \in Keys \ DOMAIN Env :
                Merge(Merge(d, l), Env)[k] = IF k \in DOMAIN l THEN l[k] ELSE d[k]
<1>1. PICK m : m = Merge(d, l)
  OBVIOUS
<1>2. /\ m \in Settings
      /\ \A k \in Keys : m[k] = IF k \in DOMAIN l THEN l[k] ELSE d[k]
  BY <1>1, MergeType
<1>3. PICK n : n = Merge(m, Env)
  OBVIOUS
<1>4. /\ n \in Settings
      /\ \A k \in Keys : n[k] = IF k \in DOMAIN Env THEN Env[k] ELSE m[k]
  BY <1>2, <1>3, EnvType, MergeType
<1>5. n = Merge(Merge(d, l), Env)
  BY <1>1, <1>3
<1>6. QED
  BY <1>2, <1>4, <1>5

LEMMA LoadedValue ==
    ASSUME TypeOK, default # Unreadable
    PROVE  /\ Loaded \in Settings
           /\ \A k \in Keys \ DOMAIN Env :
                Loaded[k] = IF k \in DOMAIN NodeLayer THEN NodeLayer[k] ELSE default[k]
<1>1. default \in Settings
  BY DEF TypeOK
<1>2. QED
  BY <1>1, NodeLayerType, LayersValue DEF Loaded

LEMMA WithoutType ==
    ASSUME NEW f \in Overrides, NEW S
    PROVE  /\ Without(f, S) \in Overrides
           /\ DOMAIN Without(f, S) = DOMAIN f \ S
           /\ \A k \in DOMAIN Without(f, S) : Without(f, S)[k] = f[k]
<1>1. DOMAIN f \ S \in SUBSET Keys
  BY OverrideType
<1>2. Without(f, S) \in [DOMAIN f \ S -> Values]
  BY OverrideType DEF Without
<1>3. QED
  BY <1>1, <1>2, OverridesAreFunctions DEF Without

LEMMA TodoType ==
    ASSUME TypeOK, todo # <<>>
    PROVE  /\ Head(todo).key \in Keys /\ Head(todo).value \in Values
           /\ Tail(todo) \in Seq([key : Keys, value : Values])
<1>1. todo \in Seq([key : Keys, value : Values])
  BY DEF TypeOK
<1>2. Head(todo) \in [key : Keys, value : Values] /\ Tail(todo) \in Seq([key : Keys, value : Values])
  BY <1>1, HeadTailProperties
<1>3. QED
  BY <1>2

-----------------------------------------------------------------------------
\* Steps that leave the files alone.
LEMMA SameFiles ==
    ASSUME UNCHANGED files
    PROVE  /\ default' = default /\ node' = node
           /\ NodeLayer' = NodeLayer /\ Loaded' = Loaded
           /\ Loadable' <=> Loadable
BY DEF files, NodeLayer, Loaded, Loadable, Valid

\* What was kept, and neither uncovered nor forgotten, is what a load finds.
LEMMA KeptIsLoaded ==
    ASSUME IInv, default # Unreadable, NEW k \in Remembered \ uncovered
    PROVE  Loaded[k] = kept[k]
<1>1. k \in Keys \ DOMAIN Env
  BY OverrideType DEF IInv, HistoryTypeOK, Remembered
<1>2. IF k \in DOMAIN NodeLayer THEN NodeLayer[k] = kept[k] ELSE default[k] = kept[k]
  BY DEF IInv, KeptIsStored
<1>3. QED
  BY <1>1, <1>2, LoadedValue DEF IInv, HistoryTypeOK

\* A start or a reload: everything loaded is valid and is what the files say.
LEMMA LoadStep == ASSUME IInv, Load PROVE IInv'
<1>1. TypeOK /\ kept \in Overrides
  BY DEF IInv, HistoryTypeOK
<1>2. /\ Loadable /\ config' = Loaded /\ UNCHANGED <<files, todo, saving, kept, uncovered>>
      /\ forgotten' = forgotten \cup uncovered
      /\ unsaved' = {} /\ missed' = FALSE /\ up' = TRUE /\ ~saving
      /\ watching' \in SUBSET Files /\ changed' \in SUBSET Files
  <2>1. CASE Start
    BY <1>1, <2>1 DEF Load, Start, TypeOK, Existing, Files
  <2>2. ASSUME NEW f \in Files, Reload(f)
        PROVE  /\ Loadable /\ config' = Loaded /\ UNCHANGED <<files, todo, saving>>
               /\ up' = TRUE /\ ~saving
               /\ watching' \in SUBSET Files /\ changed' \in SUBSET Files
    BY <1>1, <2>2 DEF Reload, TypeOK
  <2>q. QED
    BY <2>1, <2>2 DEF Load
<1>3. default # Unreadable /\ Valid(Loaded)
  BY <1>2 DEF Loadable
<1>4. Loaded \in Settings
  BY <1>1, <1>3, LoadedValue
<1>5. HistoryTypeOK'
  <2>1. uncovered \in SUBSET Keys /\ forgotten \in SUBSET Keys
    BY DEF IInv, HistoryTypeOK
  <2>q. QED
    BY <1>1, <1>2, <1>4, <2>1 DEF HistoryTypeOK, TypeOK, files
<1>6. SavingIsChecked' /\ InForceWasChecked'
  BY <1>2, <1>3 DEF SavingIsChecked, InForceWasChecked, Valid
<1>r. Remembered' = Remembered \ uncovered
  BY <1>2 DEF Remembered
<1>7. KeptIsStored'
  BY <1>2, <1>r, SameFiles DEF KeptIsStored, IInv
<1>8. KeptIsInForce'
  BY <1>2, <1>3, <1>r, KeptIsLoaded DEF KeptIsInForce
<1>9. FilesAreInForce'
  BY <1>2, SameFiles DEF FilesAreInForce
<1>q. QED
  BY <1>5, <1>6, <1>7, <1>8, <1>9 DEF IInv

\* An event that cannot be followed, or the arrival of a POST.  The files cannot
\* be loaded then, or no event was consumed.
LEMMA NothingStep == ASSUME IInv, Nothing PROVE IInv'
<1>1. TypeOK /\ kept \in Overrides /\ unsaved \in SUBSET Keys /\ missed \in BOOLEAN
  BY DEF IInv, HistoryTypeOK
<1>2. /\ UNCHANGED <<files, up, config, saving, watching>>
      /\ UNCHANGED <<kept, uncovered, forgotten, unsaved, missed>>
      /\ changed' \in SUBSET changed
      /\ todo' \in Seq([key : Keys, value : Values])
      /\ saving => todo' = todo
      /\ ~up => todo' = <<>>
      /\ Loadable => changed' = changed
  <2>1. ASSUME NEW f \in Files, ReloadFails(f)
        PROVE  /\ UNCHANGED <<files, up, config, saving, watching, todo>>
               /\ changed' \in SUBSET changed /\ ~Loadable
    BY <2>1 DEF ReloadFails, process
  <2>2. ASSUME NEW r \in Requests, Post(r)
        PROVE  /\ UNCHANGED <<files, up, config, saving, watching, changed>>
               /\ todo' \in Seq([key : Keys, value : Values])
               /\ ~saving /\ up
    BY <1>1, <2>2, ConfigAssumption DEF Post, TypeOK, ConfigAssumption
  <2>3. UNCHANGED <<kept, uncovered, forgotten, unsaved, missed>>
    BY DEF Nothing, history, fate
  <2>4. CASE \E f \in Files : ReloadFails(f)
    BY <1>1, <2>1, <2>3, <2>4 DEF TypeOK
  <2>5. CASE \E r \in Requests : Post(r)
    BY <1>1, <2>2, <2>3, <2>5
  <2>q. QED
    BY <2>4, <2>5 DEF Nothing
<1>3. HistoryTypeOK'
  BY <1>1, <1>2 DEF IInv, HistoryTypeOK, TypeOK, files
<1>4. SavingIsChecked' /\ InForceWasChecked' /\ KeptIsInForce'
  BY <1>2 DEF IInv, SavingIsChecked, InForceWasChecked, KeptIsInForce, Remembered, Valid
<1>5. KeptIsStored' /\ FilesAreInForce'
  BY <1>2, SameFiles DEF IInv, KeptIsStored, Remembered, FilesAreInForce
<1>q. QED
  BY <1>3, <1>4, <1>5 DEF IInv

\* set changes one key in memory; a value that is not accepted is not saved.
LEMMA UpdateStep == ASSUME IInv, Update PROVE IInv'
<1>1. /\ TypeOK /\ kept \in Overrides /\ unsaved \in SUBSET Keys /\ missed \in BOOLEAN
      /\ config \in Settings
  BY DEF IInv, HistoryTypeOK, TypeOK
<1>2. /\ todo # <<>> /\ ~saving
      /\ config' = [config EXCEPT ![Head(todo).key] = Head(todo).value]
      /\ kept' = Without(kept, {Head(todo).key})
      /\ unsaved' = unsaved \cup {Head(todo).key}
      /\ UNCHANGED <<files, up, watching, changed, uncovered, forgotten, missed>>
      /\ \/ Valid(config') /\ saving' = TRUE /\ UNCHANGED todo
         \/ ~Valid(config') /\ saving' = FALSE /\ todo' = <<>>
  BY <1>1 DEF Update, Set, SetRefused, SetInMemory, TypeOK, fate
<1>3. PICK k : k = Head(todo).key
  OBVIOUS
<1>4. PICK v : v = Head(todo).value
  OBVIOUS
<1>5. k \in Keys /\ v \in Values
  BY <1>1, <1>2, <1>3, <1>4, TodoType
<1>6. /\ config' \in Settings /\ config'[k] = v
      /\ \A x \in Keys : x # k => config'[x] = config[x]
  BY <1>1, <1>2, <1>3, <1>4, <1>5 DEF Settings
<1>7. /\ kept' \in Overrides
      /\ \A x \in DOMAIN kept' : x \in DOMAIN kept /\ x # k /\ x \in Keys /\ kept'[x] = kept[x]
  <2>1. PICK w : w = Without(kept, {k})
    OBVIOUS
  <2>2. /\ w \in Overrides /\ DOMAIN w = DOMAIN kept \ {k}
        /\ \A x \in DOMAIN w : w[x] = kept[x]
    <3>1. kept \in Overrides
      BY <1>1
    <3>2. /\ Without(kept, {k}) \in Overrides
          /\ DOMAIN Without(kept, {k}) = DOMAIN kept \ {k}
          /\ \A x \in DOMAIN Without(kept, {k}) : Without(kept, {k})[x] = kept[x]
      BY <3>1, WithoutType
    <3>q. QED
      BY <2>1, <3>2
  <2>3. DOMAIN w \subseteq Keys
    BY <2>2, OverrideType
  <2>4. kept' = w
    BY <1>2, <1>3, <2>1
  <2>q. QED
    BY <2>2, <2>3, <2>4
<1>8. unsaved' \in SUBSET Keys /\ unsaved' = unsaved \cup {k}
  BY <1>1, <1>2, <1>3, <1>5
<1>9. HistoryTypeOK'
  <2>1. /\ todo' \in Seq([key : Keys, value : Values])
        /\ saving' \in BOOLEAN /\ (saving' => todo' # <<>>)
        /\ up' = up /\ up
    <3>1. todo \in Seq([key : Keys, value : Values]) /\ up \in BOOLEAN /\ (~up => todo = <<>>)
      BY <1>1 DEF TypeOK
    <3>2. <<>> \in Seq([key : Keys, value : Values])
      BY EmptySeq
    <3>q. QED
      BY <1>2, <3>1, <3>2
  <2>2. UNCHANGED <<default, node, watching, changed, uncovered, forgotten, missed>>
    BY <1>2 DEF files
  <2>3. uncovered \in SUBSET Keys /\ forgotten \in SUBSET Keys
    BY DEF IInv, HistoryTypeOK
  <2>q. QED
    BY <1>1, <1>6, <1>7, <1>8, <2>1, <2>2, <2>3 DEF HistoryTypeOK, TypeOK
<1>10. SavingIsChecked'
  <2>1. CASE Valid(config') /\ todo' = todo
    <3>1. Head(todo').key = k /\ Head(todo').value = v
      BY <1>3, <1>4, <2>1
    <3>q. QED
      BY <1>6, <2>1, <3>1 DEF SavingIsChecked, Valid
  <2>2. CASE saving' = FALSE
    BY <2>2 DEF SavingIsChecked
  <2>q. QED
    BY <1>2, <2>1, <2>2
<1>11. InForceWasChecked'
  BY <1>2, <1>6, <1>8 DEF IInv, InForceWasChecked
<1>12. KeptIsStored'
  BY <1>2, <1>7, SameFiles DEF IInv, KeptIsStored, Remembered
<1>13. KeptIsInForce'
  BY <1>2, <1>6, <1>7 DEF IInv, KeptIsInForce, Remembered
<1>14. FilesAreInForce'
  BY <1>2, <1>6, <1>8, SameFiles DEF IInv, FilesAreInForce
<1>q. QED
  BY <1>9, <1>10, <1>11, <1>12, <1>13, <1>14 DEF IInv

-----------------------------------------------------------------------------
\* A save: what is in force is what will be loaded.
LEMMA SavedStep == ASSUME IInv, Saved PROVE IInv'
<1>1. /\ TypeOK /\ kept \in Overrides /\ unsaved \in SUBSET Keys /\ missed \in BOOLEAN
      /\ config \in Settings /\ up \in BOOLEAN
  BY DEF IInv, HistoryTypeOK, TypeOK
<1>2. /\ saving /\ todo' = Tail(todo) /\ saving' = FALSE
      /\ UNCHANGED <<default, up, config, missed>> /\ unsaved' = {}
      /\ uncovered' = {} /\ forgotten' = forgotten \ {Head(todo).key}
      /\ watching' \in SUBSET watching /\ changed' \in SUBSET (changed \cup watching)
  BY DEF Saved, Save, SaveNothing, Writing, Touch
<1>3. todo # <<>> /\ up
  BY <1>1, <1>2 DEF TypeOK
<1>4. PICK k : k = Head(todo).key
  OBVIOUS
<1>5. PICK v : v = Head(todo).value
  OBVIOUS
<1>6. /\ k \in Keys /\ v \in Values /\ Tail(todo) \in Seq([key : Keys, value : Values])
      /\ config[k] = v /\ Valid(config)
  BY <1>1, <1>2, <1>3, <1>4, <1>5, TodoType DEF IInv, SavingIsChecked
<1>7. /\ default \in Settings /\ default # Unreadable
      /\ node' \in Overrides \cup {Absent} /\ NodeLayer' \in Overrides
      /\ \A x \in Keys : config[x] = IF x \in DOMAIN NodeLayer' THEN NodeLayer'[x] ELSE default[x]
  <2>1. CASE Save
    <3>1. default \in Settings /\ default # Unreadable
      BY <1>1, <2>1 DEF Save, Writing, TypeOK
    <3>2. /\ node' \in Overrides
          /\ \A x \in Keys : x \in DOMAIN node' <=> config[x] # default[x]
          /\ \A x \in DOMAIN node' : node'[x] = config[x]
      BY <1>1, <2>1, <3>1, DiffType DEF Save
    <3>3. node' \notin {Absent, Unreadable}
      BY <3>2, ConfigAssumption DEF ConfigAssumption
    <3>4. NodeLayer' = node'
      BY <3>3 DEF NodeLayer
    <3>q. QED
      BY <3>1, <3>2, <3>4
  <2>2. CASE SaveNothing
    <3>1. config = default /\ node' = Absent
      BY <2>2 DEF SaveNothing
    <3>2. default # Unreadable
      BY <1>1, <3>1, ConfigAssumption DEF ConfigAssumption
    <3>3. NodeLayer' = NoSettings
      BY <3>1 DEF NodeLayer
    <3>q. QED
      BY <1>1, <3>1, <3>2, <3>3, NoSettingsType
  <2>q. QED
    BY <2>1, <2>2 DEF Saved
<1>8. /\ kept' \in Overrides
      /\ \A x \in Remembered' : x \in Keys /\ kept'[x] = config[x]
  <2>1. kept' = [x \in DOMAIN kept \cup {k} |-> IF x = k THEN v ELSE kept[x]]
    BY <1>4, <1>5 DEF Saved
  <2>2. DOMAIN kept \subseteq Keys /\ \A x \in DOMAIN kept : kept[x] \in Values
    BY <1>1, OverrideType
  <2>3. PICK K : K = DOMAIN kept \cup {k}
    OBVIOUS
  <2>4. K \in SUBSET Keys /\ kept' \in [K -> Values]
    BY <1>6, <2>1, <2>2, <2>3
  <2>5. kept' \in Overrides
    BY <2>4, OverridesAreFunctions
  <2>6. \A x \in Remembered : config[x] = kept[x]
    BY <1>3 DEF IInv, KeptIsInForce
  <2>7. \A x \in Remembered' : x \in DOMAIN kept' /\ (x # k => x \in Remembered)
    BY <1>2, <1>4, <2>1 DEF Remembered
  <2>q. QED
    BY <1>6, <2>1, <2>2, <2>5, <2>6, <2>7
<1>9. HistoryTypeOK'
  <2>1. watching' \in SUBSET Files /\ changed' \in SUBSET Files
    BY <1>1, <1>2 DEF TypeOK
  <2>2. uncovered' \in SUBSET Keys /\ forgotten' \in SUBSET Keys
    BY <1>2 DEF IInv, HistoryTypeOK
  <2>q. QED
    BY <1>1, <1>2, <1>3, <1>6, <1>7, <1>8, <2>1, <2>2 DEF HistoryTypeOK, TypeOK
<1>10. SavingIsChecked' /\ InForceWasChecked'
  BY <1>2, <1>6 DEF SavingIsChecked, InForceWasChecked, Valid
<1>11. KeptIsStored'
  BY <1>2, <1>7, <1>8 DEF KeptIsStored
<1>12. KeptIsInForce'
  BY <1>2, <1>8 DEF KeptIsInForce
<1>13. FilesAreInForce'
  <2>1. Loaded' = Merge(Merge(default, NodeLayer'), Env)
    BY <1>2 DEF Loaded
  <2>2. \A x \in Keys \ DOMAIN Env : Loaded'[x] = config[x]
    BY <1>7, <2>1, LayersValue
  <2>q. QED
    BY <1>2, <2>2 DEF FilesAreInForce
<1>q. QED
  BY <1>9, <1>10, <1>11, <1>12, <1>13 DEF IInv

\* A kill or a failed save: the node file is as before, or torn.
LEMMA BrokenStep == ASSUME IInv, Broken PROVE IInv'
<1>1. /\ TypeOK /\ kept \in Overrides /\ unsaved \in SUBSET Keys /\ missed \in BOOLEAN
      /\ config \in Settings /\ up \in BOOLEAN
  BY DEF IInv, HistoryTypeOK, TypeOK
<1>2. /\ node' \in {node, Unreadable} /\ todo' = <<>> /\ saving' = FALSE
      /\ UNCHANGED <<default, config, kept, forgotten, unsaved>>
      /\ uncovered' = IF node' = node THEN uncovered ELSE DOMAIN kept
      /\ missed' = (missed \/ (node' # node /\ "node" \notin watching))
      /\ \/ up' = FALSE /\ watching' = {} /\ changed' = {}
         \/ /\ UNCHANGED <<up, watching>>
            /\ \/ node' = node /\ changed' = changed
               \/ changed' = changed \cup (watching \cap {"node"})
  BY DEF Broken, Kill, SaveFails, Touch
<1>3. HistoryTypeOK'
  <2>1. <<>> \in Seq([key : Keys, value : Values])
    BY EmptySeq
  <2>2. kept' \in Overrides /\ uncovered' \in SUBSET Keys /\ forgotten' \in SUBSET Keys
    BY <1>1, <1>2, OverrideType DEF IInv, HistoryTypeOK
  <2>3. watching' \in SUBSET Files /\ changed' \in SUBSET Files
    BY <1>1, <1>2 DEF TypeOK
  <2>4. node' \in Overrides \cup {Absent, Unreadable}
    BY <1>1, <1>2 DEF TypeOK
  <2>5. up' \in BOOLEAN /\ (~up' => watching' = {} /\ changed' = {})
    <3>1. ~up => watching = {} /\ changed = {}
      BY <1>1 DEF TypeOK
    <3>2. CASE up' = FALSE /\ watching' = {} /\ changed' = {}
      BY <3>2
    <3>3. CASE up' = up /\ watching' = watching /\ changed' \in SUBSET (changed \cup watching)
      BY <1>1, <3>1, <3>3
    <3>q. QED
      BY <1>2, <3>2, <3>3
  <2>6. missed' \in BOOLEAN
    BY <1>2
  <2>q. QED
    BY <1>1, <1>2, <2>1, <2>2, <2>3, <2>4, <2>5, <2>6 DEF HistoryTypeOK, TypeOK
<1>4. SavingIsChecked' /\ InForceWasChecked'
  BY <1>2 DEF IInv, SavingIsChecked, InForceWasChecked
<1>5. CASE node' = node
  <2>1. UNCHANGED files /\ UNCHANGED <<kept, uncovered, forgotten>>
    BY <1>2, <1>5 DEF files
  <2>2. KeptIsStored' /\ KeptIsInForce'
    BY <1>2, <2>1, SameFiles DEF IInv, KeptIsStored, KeptIsInForce, Remembered
  <2>3. FilesAreInForce'
    BY <1>2, <2>1, SameFiles DEF IInv, FilesAreInForce
  <2>q. QED
    BY <1>3, <1>4, <2>2, <2>3 DEF IInv
<1>6. CASE node' # node
  <2>1. Remembered' \ uncovered' = {} /\ Remembered' = Remembered
    BY <1>2, <1>6 DEF Remembered
  <2>2. KeptIsStored' /\ KeptIsInForce'
    BY <1>2, <2>1 DEF IInv, KeptIsStored, KeptIsInForce
  <2>3. up' => missed' \/ changed' # {}
    BY <1>2, <1>6
  <2>4. FilesAreInForce'
    BY <2>3 DEF FilesAreInForce
  <2>q. QED
    BY <1>3, <1>4, <2>2, <2>4 DEF IInv
<1>q. QED
  BY <1>5, <1>6

-----------------------------------------------------------------------------
\* An edit of a file either raises an event or is missed.
LEMMA EditIsSeenOrMissed ==
    ASSUME NEW f \in Files, Touch(f), missed' = (missed \/ f \notin watching)
    PROVE  changed' = {} => missed'
BY DEF Touch

LEMMA TouchType ==
    ASSUME TypeOK, NEW f \in Files, Touch(f), watching' \in SUBSET watching, UNCHANGED up
    PROVE  /\ watching' \in SUBSET Files /\ changed' \in SUBSET Files
           /\ ~up' => watching' = {} /\ changed' = {}
<1>1. watching \in SUBSET Files /\ changed \in SUBSET Files
  BY DEF TypeOK
<1>2. ~up => watching = {} /\ changed = {}
  BY DEF TypeOK
<1>3. QED
  BY <1>1, <1>2 DEF Touch

\* A new default file uncovers what it changes and the node file does not say.
LEMMA DefaultEditedStep == ASSUME IInv, DefaultEdited PROVE IInv'
<1>1. TypeOK /\ kept \in Overrides /\ unsaved \in SUBSET Keys /\ missed \in BOOLEAN
  BY DEF IInv, HistoryTypeOK
<1>2. /\ default' \in Settings \cup {Unreadable}
      /\ Touch("default") /\ watching' \in SUBSET watching
      /\ UNCHANGED <<node, up, config, todo, saving, kept, forgotten, unsaved>>
      /\ uncovered' = uncovered \cup
                        {k \in DOMAIN kept \ DOMAIN NodeLayer :
                           default' # Unreadable /\ default'[k] # kept[k]}
      /\ missed' = (missed \/ "default" \notin watching)
  BY ConfigAssumption
     DEF DefaultEdited, EditDefault, Edited, process, ConfigAssumption
<1>3. NodeLayer' = NodeLayer
  BY <1>2 DEF NodeLayer
<1>4. /\ Remembered' = Remembered
      /\ \A x \in Remembered' \ uncovered' :
           /\ x \in Remembered \ uncovered
           /\ x \notin DOMAIN NodeLayer => default' = Unreadable \/ default'[x] = kept[x]
  BY <1>2 DEF Remembered
<1>5. "default" \in Files
  BY DEF Files
<1>6. HistoryTypeOK'
  <2>1. /\ watching' \in SUBSET Files /\ changed' \in SUBSET Files
        /\ ~up' => watching' = {} /\ changed' = {}
    BY <1>1, <1>2, <1>5, TouchType
  <2>2. missed' \in BOOLEAN
    BY <1>2
  <2>3. uncovered' \in SUBSET Keys /\ forgotten' \in SUBSET Keys
    <3>1. DOMAIN kept \subseteq Keys
      BY <1>1, OverrideType
    <3>q. QED
      BY <1>2, <3>1 DEF IInv, HistoryTypeOK
  <2>q. QED
    BY <1>1, <1>2, <2>1, <2>2, <2>3 DEF HistoryTypeOK, TypeOK
<1>7. SavingIsChecked' /\ InForceWasChecked'
  BY <1>2 DEF IInv, SavingIsChecked, InForceWasChecked, Valid
<1>8. KeptIsStored'
  BY <1>2, <1>3, <1>4 DEF IInv, KeptIsStored
<1>9. KeptIsInForce'
  BY <1>2, <1>4 DEF IInv, KeptIsInForce
<1>10. FilesAreInForce'
  BY <1>2, <1>5, EditIsSeenOrMissed DEF FilesAreInForce
<1>q. QED
  BY <1>6, <1>7, <1>8, <1>9, <1>10 DEF IInv

\* A new node file replaces what was kept.
LEMMA NodeEditedStep == ASSUME IInv, NodeEdited PROVE IInv'
<1>1. TypeOK /\ unsaved \in SUBSET Keys
  BY DEF IInv, HistoryTypeOK
<1>2. /\ node' \in Overrides \cup {Absent, Unreadable}
      /\ Touch("node") /\ watching' \in SUBSET watching
      /\ UNCHANGED <<default, up, config, todo, saving, unsaved>>
      /\ kept' = NoSettings /\ uncovered' = {} /\ forgotten' = {}
      /\ missed' = (missed \/ "node" \notin watching)
  BY ConfigAssumption
     DEF NodeEdited, RemoveNode, EditNode, Edited, process, ConfigAssumption
<1>3. "node" \in Files
  BY DEF Files
<1>4. HistoryTypeOK'
  <2>1. /\ watching' \in SUBSET Files /\ changed' \in SUBSET Files
        /\ ~up' => watching' = {} /\ changed' = {}
    BY <1>1, <1>2, <1>3, TouchType
  <2>2. missed' \in BOOLEAN
    BY <1>2
  <2>q. QED
    BY <1>1, <1>2, <2>1, <2>2, NoSettingsType DEF HistoryTypeOK, TypeOK
<1>5. SavingIsChecked' /\ InForceWasChecked'
  BY <1>2 DEF IInv, SavingIsChecked, InForceWasChecked, Valid
<1>6. DOMAIN kept' = {}
  BY <1>2, NoSettingsType
<1>7. KeptIsStored' /\ KeptIsInForce'
  BY <1>6 DEF KeptIsStored, KeptIsInForce, Remembered
<1>8. FilesAreInForce'
  BY <1>2, <1>3, EditIsSeenOrMissed DEF FilesAreInForce
<1>q. QED
  BY <1>4, <1>5, <1>7, <1>8 DEF IInv

-----------------------------------------------------------------------------
LEMMA InitHolds == ASSUME HistoryInit PROVE IInv
<1>1. default \in Settings /\ node \in Overrides \cup {Absent, Unreadable}
  BY ConfigAssumption DEF HistoryInit, Init, ConfigAssumption
<1>2. <<>> \in Seq([key : Keys, value : Values])
  BY EmptySeq
<1>3. HistoryTypeOK
  BY <1>1, <1>2, NoSettingsType DEF HistoryInit, Init, HistoryTypeOK, TypeOK
<1>4. DOMAIN kept = {} /\ ~up /\ ~saving
  BY NoSettingsType DEF HistoryInit, Init
<1>q. QED
  BY <1>3, <1>4 DEF IInv, SavingIsChecked, InForceWasChecked, KeptIsStored,
                    KeptIsInForce, Remembered, FilesAreInForce

LEMMA StutterStep == ASSUME IInv, UNCHANGED historyVars PROVE IInv'
<1>1. /\ UNCHANGED <<files, up, config, todo, saving, watching, changed>>
      /\ UNCHANGED <<kept, uncovered, forgotten, unsaved, missed>>
  BY DEF historyVars, vars, process, history, fate
<1>2. HistoryTypeOK'
  BY <1>1 DEF IInv, HistoryTypeOK, TypeOK, files
<1>3. SavingIsChecked' /\ InForceWasChecked' /\ KeptIsInForce'
  BY <1>1 DEF IInv, SavingIsChecked, InForceWasChecked, KeptIsInForce, Remembered, Valid
<1>4. KeptIsStored' /\ FilesAreInForce'
  BY <1>1, SameFiles DEF IInv, KeptIsStored, Remembered, FilesAreInForce
<1>q. QED
  BY <1>2, <1>3, <1>4 DEF IInv

\* What is in force and what is in the files agree, in every reachable state, as
\* far as the exceptions of the invariant go.
THEOREM ConfigInvariant == HistorySpec => []IInv
<1>1. HistoryInit => IInv
  BY InitHolds
<1>2. IInv /\ [HistoryNext]_historyVars => IInv'
  BY LoadStep, NothingStep, UpdateStep, SavedStep, BrokenStep, DefaultEditedStep,
     NodeEditedStep, StutterStep
     DEF HistoryNext
<1>q. QED
  BY <1>1, <1>2, PTL DEF HistorySpec

\* Values that validation refuses are in force only after a refused update.
THEOREM InForceCorrect == HistorySpec => []InForceWasChecked
<1>1. IInv => InForceWasChecked
  BY DEF IInv
<1>q. QED
  BY <1>1, ConfigInvariant, PTL

\* A setting that was saved is what the next start loads, unless a torn write or
\* a new default file has uncovered it since.
THEOREM SavedSettingsCorrect == HistorySpec => []SavedSettingsSurvive
<1>1. IInv => SavedSettingsSurvive
  BY KeptIsLoaded DEF SavedSettingsSurvive, Remembered
<1>q. QED
  BY <1>1, ConfigInvariant, PTL

\* Once all events are handled, the files that were watched are in force.
THEOREM FilesInForceCorrect == HistorySpec => []FilesInForce
<1>1. IInv => FilesInForce
  BY DEF IInv, FilesAreInForce, FilesInForce, Quiet
<1>q. QED
  BY <1>1, ConfigInvariant, PTL

\* The history and the configuration keep their types.
THEOREM ConfigTypeCorrect == HistorySpec => []HistoryTypeOK
<1>1. IInv => HistoryTypeOK
  BY DEF IInv
<1>q. QED
  BY <1>1, ConfigInvariant, PTL
==============================================================================
