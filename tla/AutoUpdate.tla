----------------------------- MODULE AutoUpdate -----------------------------
(***************************************************************************)
(* The update of one node (auto-update.sh), started by its webhook server   *)
(* and by a systemd timer (install-auto-update.sh) with no lock between     *)
(* them.  Most commands are piped into tee, whose status hides theirs: a    *)
(* step that failed is followed by the next as if it had not.               *)
(*                                                                          *)
(* A step is a command of a script.  The script of the webhook server is a  *)
(* child of the service that it restarts, and pm2 kills the children too.   *)
(* From the end of the build on, 'set -e' ends a script at the first command *)
(* that fails outside of a pipe or a condition.                              *)
(* Left out: node_modules, which goes with dist; Caddy; rotation of pm2's    *)
(* logs; a master branch that is rewritten; the tsx mode of pm2; a log file  *)
(* that cannot be written.                                                   *)
(***************************************************************************)
EXTENDS Integers, FiniteSets

CONSTANTS
    MaxCommits,     (* bound: pushes to master                               *)
    MaxFailures,    (* bound: commands that fail, and interruptions          *)
    NoBackup,       (* no backup directory                                   *)
    Empty,          (* a backup directory with nothing in it                 *)
    Torn            (* a dist that was being written when the writer stopped *)

ASSUME UpdateAssumption ==
    /\ MaxCommits \in Nat
    /\ MaxFailures \in Nat
    /\ {NoBackup, Empty, Torn} \cap Int = {}
    /\ Empty # NoBackup

Callers == {"webhook", "timer"}
Commits == 0 .. MaxCommits
Builds == Commits \cup {Torn}

VARIABLES
    master,         (* the branch at GitHub                                  *)
    origin,         (* origin/master, as last fetched                        *)
    head,           (* HEAD, and the work tree                               *)
    dist,           (* the commit dist was built from                        *)
    proxy,          (* the commit the Go binary was built from               *)
    backup,         (* the backup of dist                                    *)
    service,        (* the build the service runs                            *)
    pc,             (* script -> its next command, or "idle"                 *)
    current,        (* script -> CURRENT_COMMIT                              *)
    compiled,       (* script -> the commit whose sources tsc has read, or 0 *)
    strict,         (* the scripts that have come to 'set -e'                *)
    failures

files == <<head, dist, proxy, backup>>
script == <<current, compiled, strict>>
updateVars == <<master, origin, files, service, pc, script, failures>>

Locations == {"idle", "fetch", "again", "backup", "copy", "pull", "install", "compile",
              "emit", "go", "restart", "clean", "reset", "restore", "undo"}

UpdateTypeOK ==
    /\ {master, origin, head, proxy} \subseteq Commits
    /\ {dist, service} \subseteq Builds
    /\ backup \in Builds \cup {NoBackup, Empty}
    /\ pc \in [Callers -> Locations]
    /\ current \in [Callers -> Commits]
    /\ compiled \in [Callers -> Commits]
    /\ strict \subseteq Callers
    /\ failures \in 0 .. MaxFailures

UpdateInit ==
    /\ master = 0
    /\ origin = 0
    /\ head = 0
    /\ dist = 0
    /\ proxy = 0
    /\ backup = NoBackup
    /\ service = 0
    /\ pc = [i \in Callers |-> "idle"]
    /\ current = [i \in Callers |-> 0]
    /\ compiled = [i \in Callers |-> 0]
    /\ strict = {}
    /\ failures = 0

-----------------------------------------------------------------------------
Goto(i, from, to) == pc[i] = from /\ pc' = [pc EXCEPT ![i] = to]

\* The variables of a script are gone with it.
Forget(ended) ==
    /\ current' = [i \in Callers |-> IF i \in ended THEN 0 ELSE current[i]]
    /\ compiled' = [i \in Callers |-> IF i \in ended THEN 0 ELSE compiled[i]]
    /\ strict' = strict \ ended

Works == UNCHANGED failures
Fails == failures < MaxFailures /\ failures' = failures + 1

PushCommit ==
    /\ master < MaxCommits
    /\ master' = master + 1
    /\ UNCHANGED <<origin, files, service, pc, script, failures>>

StartScript(i) ==
    /\ Goto(i, "idle", "fetch")
    /\ current' = [current EXCEPT ![i] = head]
    /\ UNCHANGED <<master, origin, files, service, compiled, strict, failures>>

\* Mutation of Fetch: nothing is done when there is nothing new.
FetchOrLeave(i) ==
    /\ \/ Works /\ origin' = master
       \/ Fails /\ UNCHANGED origin
    /\ Goto(i, "fetch", IF current[i] = origin' THEN "idle" ELSE "backup")
    /\ UNCHANGED <<master, files, service, script>>

\* git fetch, whose failure goes unseen, and the comparison: the services are
\* restarted even when there is nothing new.
Fetch(i) ==
    /\ \/ Works /\ origin' = master
       \/ Fails /\ UNCHANGED origin
    /\ Goto(i, "fetch", IF current[i] = origin' THEN "again" ELSE "backup")
    /\ UNCHANGED <<master, files, service, script>>

\* rm -rf and mkdir of the backup.
ClearBackup(i) ==
    /\ Goto(i, "backup", "copy")
    /\ \/ Works /\ backup' = Empty
       \/ Fails /\ backup' \in {backup, NoBackup, Empty, Torn}
    /\ UNCHANGED <<master, origin, head, dist, proxy, service, script>>

\* cp -r, into a directory that the other script may have removed meanwhile.
CopyBackup(i) ==
    /\ Goto(i, "copy", "pull")
    /\ \/ Works /\ backup' = IF backup = NoBackup THEN NoBackup ELSE dist
       \/ Fails /\ backup' \in {backup, Torn}
    /\ UNCHANGED <<master, origin, head, dist, proxy, service, script>>

\* git pull, which looks at the branch again; its failure goes unseen.
Pull(i) ==
    /\ Goto(i, "pull", "install")
    /\ \/ Works /\ origin' = master /\ head' = master
       \/ Fails /\ origin' \in {origin, master} /\ UNCHANGED head
    /\ UNCHANGED <<master, dist, proxy, backup, service, script>>

\* npm install: its failure is seen when it leaves no compiler.
Install(i) ==
    /\ \/ Goto(i, "install", "compile") /\ Works
       \/ Goto(i, "install", "reset") /\ Fails
    /\ UNCHANGED <<master, origin, files, service, script>>

\* tsc reads the sources.
Compile(i) ==
    /\ Goto(i, "compile", "emit")
    /\ compiled' = [compiled EXCEPT ![i] = head]
    /\ UNCHANGED <<master, origin, files, service, current, strict, failures>>

\* tsc writes dist, even of sources with errors in them: this status is seen.
Emit(i) ==
    /\ \/ Goto(i, "emit", "go") /\ Works /\ dist' = compiled[i]
       \/ Goto(i, "emit", "reset") /\ Fails /\ dist' \in {dist, compiled[i], Torn}
    /\ compiled' = [compiled EXCEPT ![i] = 0]
    /\ strict' = strict \cup {i}
    /\ UNCHANGED <<master, origin, head, proxy, backup, service, current>>

\* build.sh: when it fails, the check that follows finds the old binary.
BuildProxy(i) ==
    /\ Goto(i, "go", "restart")
    /\ \/ Works /\ proxy' = head
       \/ Fails /\ UNCHANGED proxy
    /\ UNCHANGED <<master, origin, head, dist, backup, service, script>>

\* The proxy was restarted more than 20 times: it is built once more.
RebuildProxy(i) ==
    /\ pc[i] \in {"again", "restart"}
    /\ proxy' = head
    /\ UNCHANGED <<master, origin, head, dist, backup, service, pc, script, failures>>

-----------------------------------------------------------------------------
\* What dist is after a process that may be writing it was killed.
Left(killed) ==
    {dist} \cup {b \in {Torn} : \E i \in killed : pc[i] \in {"emit", "restore"}}

\* The service starts anew from dist, and the script that is its child ends.
ServiceRestarts ==
    /\ dist' \in Left({"webhook"})
    /\ service' = dist'

\* pm2 restart all, after an update or without one.  A failure goes unseen, or is
\* one of a command before it, which ends a strict script.
RestartAll(i) ==
    /\ \/ /\ Works
          /\ pc[i] \in {"restart", "again"}
          /\ pc' = [j \in Callers |-> IF j = "webhook" THEN "idle"
                                      ELSE IF j # i THEN pc[j]
                                      ELSE IF pc[i] = "again" THEN "idle" ELSE "clean"]
          /\ ServiceRestarts
       \/ /\ Fails
          /\ Goto(i, "restart", "clean") \/ Goto(i, "restart", "idle")
                \/ Goto(i, "again", "idle")
          /\ UNCHANGED <<dist, service>>
    /\ Forget({j \in Callers : pc'[j] = "idle"})
    /\ UNCHANGED <<master, origin, head, proxy, backup>>

\* The update is complete: rm -rf of the backup, if no command before it failed.
Clean(i) ==
    /\ Goto(i, "clean", "idle")
    /\ \/ Works /\ backup' = NoBackup
       \/ Fails /\ backup' \in {backup, Empty, Torn}
    /\ Forget({i})
    /\ UNCHANGED <<master, origin, head, dist, proxy, service>>

\* rollback(), first command: nothing can be done without a backup, and a git reset
\* that fails goes unseen.
Reset(i) ==
    /\ \/ /\ Goto(i, "reset", "restore") /\ backup # NoBackup
          /\ \/ Works /\ head' = current[i]
             \/ Fails /\ UNCHANGED head
       \/ /\ Goto(i, "reset", "idle") /\ backup = NoBackup
          /\ UNCHANGED <<head, failures>>
    /\ Forget({j \in Callers : pc'[j] = "idle"})
    /\ UNCHANGED <<master, origin, dist, proxy, backup, service>>

\* Mutation of Restore: only the sources go back.
KeepDist(i) ==
    /\ Goto(i, "restore", "undo")
    /\ UNCHANGED <<master, origin, files, service, script, failures>>

\* dist is replaced by the backup, if that has one: rm -rf and cp -r, whose failure
\* ends a strict script.  The binary stays.
Restore(i) ==
    /\ \/ /\ Works /\ Goto(i, "restore", "undo")
          /\ dist' = IF backup \in Builds THEN backup ELSE dist
       \/ /\ Fails /\ Goto(i, "restore", IF i \in strict THEN "idle" ELSE "undo")
          /\ dist' \in {dist, Torn}
    /\ Forget({j \in Callers : pc'[j] = "idle"})
    /\ UNCHANGED <<master, origin, head, proxy, backup, service>>

\* pm2 restart zeromaps-rpc, the end of rollback().
Undo(i) ==
    /\ pc[i] = "undo"
    /\ \/ /\ Works
          /\ pc' = [j \in Callers |-> IF j \in {i, "webhook"} THEN "idle" ELSE pc[j]]
          /\ ServiceRestarts
       \/ /\ Fails
          /\ Goto(i, "undo", "idle")
          /\ UNCHANGED <<dist, service>>
    /\ Forget({j \in Callers : pc'[j] = "idle"})
    /\ UNCHANGED <<master, origin, head, proxy, backup>>

\* The service restarts for a reason of its own, or the whole node does.
Interrupt(killed) ==
    /\ Fails
    /\ \E i \in killed : pc[i] # "idle"
    /\ pc' = [i \in Callers |-> IF i \in killed THEN "idle" ELSE pc[i]]
    /\ dist' \in Left(killed)
    /\ service' = dist'
    /\ Forget(killed)
    /\ UNCHANGED <<master, origin, head, proxy, backup>>

-----------------------------------------------------------------------------
Step(i) ==
    \/ Fetch(i) \/ ClearBackup(i) \/ CopyBackup(i) \/ Pull(i) \/ Install(i) \/ Compile(i)
    \/ Emit(i) \/ BuildProxy(i) \/ RestartAll(i) \/ Clean(i) \/ Reset(i) \/ Restore(i)
    \/ Undo(i)

UpdateNext ==
    \/ PushCommit
    \/ \E i \in Callers : StartScript(i) \/ Step(i) \/ RebuildProxy(i)
    \/ \E killed \in {{"webhook"}, Callers} : Interrupt(killed)

\* The timer fires again and again, and every command ends.
UpdateFairness ==
    /\ WF_updateVars(StartScript("timer"))
    /\ \A i \in Callers : WF_updateVars(Step(i))

UpdateSpec == UpdateInit /\ [][UpdateNext]_updateVars /\ UpdateFairness
=============================================================================
