------------------------- MODULE AutoUpdateHistory --------------------------
(***************************************************************************)
(* AutoUpdate with a history variable: what has gone wrong that the script  *)
(* does not put right.                                                      *)
(***************************************************************************)
EXTENDS AutoUpdate

VARIABLE mishaps

updateHistoryVars == <<updateVars, mishaps>>

Mishaps == {"overlap", "interrupted", "copy", "rollback", "go", "restart"}

\* HEAD is not the commit dist was built from between these commands.
Exposed(i) == pc[i] \in {"install", "compile", "emit", "reset", "restore"}

Failed == failures' # failures
Noted(kind) == mishaps' = mishaps \cup {kind}

UpdateHistoryInit == UpdateInit /\ mishaps = {}

HistoryStart(i) ==
    /\ StartScript(i)
    /\ IF \E j \in Callers : pc[j] # "idle" THEN Noted("overlap") ELSE UNCHANGED mishaps

HistoryStep(i) ==
    \/ /\ ClearBackup(i) \/ CopyBackup(i)
       /\ IF Failed THEN Noted("copy") ELSE UNCHANGED mishaps
    \/ /\ Reset(i) \/ Restore(i)
       /\ IF Failed THEN Noted("rollback") ELSE UNCHANGED mishaps
    \/ BuildProxy(i) /\ IF Failed THEN Noted("go") ELSE mishaps' = mishaps \ {"go"}
    \/ /\ RestartAll(i) \/ Undo(i)
       /\ IF Failed THEN Noted("restart") ELSE mishaps' = mishaps \ {"restart"}
    \/ /\ Fetch(i) \/ Pull(i) \/ Install(i) \/ Compile(i) \/ Emit(i) \/ Clean(i)
       /\ UNCHANGED mishaps

HistoryInterrupt(killed) ==
    /\ Interrupt(killed)
    /\ mishaps' = (mishaps \ {"restart"})
                    \cup (IF \E i \in killed : Exposed(i) THEN {"interrupted"} ELSE {})
                    \cup (IF \E i \in killed : pc[i] = "go" THEN {"go"} ELSE {})

UpdateHistoryNext ==
    \/ PushCommit /\ UNCHANGED mishaps
    \/ \E i \in Callers : \/ HistoryStart(i) \/ HistoryStep(i)
                          \/ RebuildProxy(i) /\ mishaps' = mishaps \ {"go"}
    \/ \E killed \in {{"webhook"}, Callers} : HistoryInterrupt(killed)

UpdateHistorySpec ==
    UpdateHistoryInit /\ [][UpdateHistoryNext]_updateHistoryVars /\ UpdateFairness

-----------------------------------------------------------------------------
\* What takes the sources and dist apart for good.
Derailed == mishaps \cap {"overlap", "interrupted", "copy", "rollback"} # {}

\* An update in which the fetch, the pull, npm install, the build or the restart
\* failed leaves the sources, dist, the service and the proxy of one commit, unless
\* the backup could not be made, the rollback failed itself (its git reset goes
\* unseen, and its rm and cp leave a torn dist), the script was interrupted while HEAD
\* was ahead of dist, or two scripts ran at a time; the service stays behind until the
\* next restart when its own failed, and the proxy when only its build did
\* (auto-update.sh:19-45, 190-302).
OneVersion ==
    (\A i \in Callers : pc[i] = "idle") /\ ~Derailed =>
        /\ dist = head
        /\ service = dist \/ "restart" \in mishaps
        /\ proxy = head \/ "go" \in mishaps

\* Every push is run in the end, because the timer tries an update that failed again
\* and restarts the service even when there is nothing new; not after one of the four
\* mishaps, which can leave HEAD where origin is and dist behind: there is nothing
\* new then, and the old dist is started again and again (auto-update.sh:23, 67).
PushesRun ==
    \A p \in Commits :
        master >= p ~> service \in p .. MaxCommits \/ Derailed
=============================================================================
