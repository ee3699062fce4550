------------------------------ MODULE Webhook -------------------------------
(***************************************************************************)
(* Updates of all nodes by webhooks (server/webhook-server.ts).  GitHub     *)
(* tells one node of a push; that node starts its update script and         *)
(* forwards the webhook, once, to every other node of config/nodes.json,    *)
(* which starts its own.  Nothing is retried: a webhook that is lost, or    *)
(* refused for its signature, is gone.                                      *)
(*                                                                          *)
(* A step is the handling of a webhook up to its last synchronous call, a   *)
(* step of a script, a callback of the script's process at the node, or an  *)
(* event of the world.  Other events and other branches are answered 200    *)
(* and ignored: they have no message here.  The script is what the server   *)
(* sees of it: AutoUpdate has its steps.                                    *)
(***************************************************************************)
EXTENDS Integers, FiniteSets

CONSTANTS
    Nodes,          (* config/nodes.json, the same on every node             *)
    Main,           (* the node that GitHub tells of a push                  *)
    Named,          (* nodes whose server.domain or SERVER_DOMAIN is set     *)
    secret,         (* node -> its secret, or None                           *)
    GitHubSecret,   (* what GitHub signs with, or None                       *)
    None,
    MaxPushes,      (* bound: pushes to master                               *)
    MaxScripts      (* bound: script processes of one node at a time         *)

Pushes == 1 .. MaxPushes

ASSUME WebhookAssumption ==
    /\ IsFiniteSet(Nodes)
    /\ Main \in Nodes
    /\ Named \subseteq Nodes
    /\ MaxPushes \in Nat
    /\ MaxScripts \in Nat

VARIABLES
    pushed,         (* origin/master: the number of the last push            *)
    network,        (* webhooks on their way                                 *)
    updating,       (* node -> its flag                                      *)
    scripts,        (* scripts whose process has yet to report its end       *)
    deployed        (* node -> the push its process runs                     *)

vars == <<pushed, network, updating, scripts, deployed>>

Webhooks == [to : Nodes, forwarded : BOOLEAN, push : Pushes]

\* A script has yet to look at origin/master for the last time, or has looked
\* and works on what it saw, or could not be started at all.
Scripts == [node : Nodes, pid : 1 .. MaxScripts, commit : 0 .. MaxPushes,
            phase : {"started", "looked", "failed"}]

TypeOK ==
    /\ pushed \in 0 .. MaxPushes
    /\ network \subseteq Webhooks
    /\ updating \in [Nodes -> BOOLEAN]
    /\ scripts \subseteq Scripts
    /\ deployed \in [Nodes -> 0 .. MaxPushes]

Init ==
    /\ pushed = 0
    /\ network = {}
    /\ updating = [n \in Nodes |-> FALSE]
    /\ scripts = {}
    /\ deployed = [n \in Nodes |-> 0]

-----------------------------------------------------------------------------
\* A push to master; GitHub calls the main node.
Push ==
    /\ pushed < MaxPushes
    /\ pushed' = pushed + 1
    /\ network' = network \cup {[to |-> Main, forwarded |-> FALSE, push |-> pushed']}
    /\ UNCHANGED <<updating, scripts, deployed>>

\* The node is not reached: it is down, the request times out, or the node that
\* forwards it stops before the request is out.
Lose(w) ==
    /\ w \in network
    /\ network' = network \ {w}
    /\ UNCHANGED <<pushed, updating, scripts, deployed>>

\* A forwarded webhook bears GitHub's signature.
Verified(n) == secret[n] \in {None, GitHubSecret}

\* The nodes whose domain is not the current one: a node that was not told its
\* domain does not leave itself out.
OtherNodes(n) == IF n \in Named THEN Nodes \ {n} ELSE Nodes

Forwards(w) ==
    {[to |-> n, forwarded |-> TRUE, push |-> w.push] : n \in OtherNodes(w.to)}

\* A process number that is free: the smallest, since they are all alike.
Start(n) ==
    \E pid \in 1 .. MaxScripts :
        /\ \A q \in 1 .. pid : (\E s \in scripts : s.node = n /\ s.pid = q) <=> q < pid
        /\ scripts' = scripts \cup {[node |-> n, pid |-> pid, commit |-> 0, phase |-> "started"]}
        /\ updating' = [updating EXCEPT ![n] = TRUE]

\* Mutation of TriggerUpdate: the flag is not looked at.
TriggerAlways(n) == Start(n)

\* triggerUpdate: skipped while an update runs.
TriggerUpdate(n) ==
    \/ updating[n] /\ UNCHANGED <<updating, scripts>>
    \/ ~updating[n] /\ Start(n)

\* Mutation of HandleWebhook: what was forwarded is forwarded again.
ForwardAgain(w) ==
    /\ w \in network
    /\ \/ /\ ~Verified(w.to)
          /\ network' = network \ {w}
          /\ UNCHANGED <<updating, scripts>>
       \/ /\ Verified(w.to)
          /\ TriggerUpdate(w.to)
          /\ network' = (network \ {w}) \cup Forwards(w)
    /\ UNCHANGED <<pushed, deployed>>

\* handleWebhook: 401, or an update here and the webhook sent on to the others.
HandleWebhook(w) ==
    /\ w \in network
    /\ \/ /\ ~Verified(w.to)
          /\ network' = network \ {w}
          /\ UNCHANGED <<updating, scripts>>
       \/ /\ Verified(w.to)
          /\ TriggerUpdate(w.to)
          /\ network' = (network \ {w}) \cup (IF w.forwarded THEN {} ELSE Forwards(w))
    /\ UNCHANGED <<pushed, deployed>>

-----------------------------------------------------------------------------
\* The script's last look at origin/master: its fetch, or its pull.
Look(s) ==
    /\ s \in scripts
    /\ s.phase = "started"
    /\ scripts' = (scripts \ {s}) \cup {[s EXCEPT !.phase = "looked", !.commit = pushed]}
    /\ UNCHANGED <<pushed, network, updating, deployed>>

\* 'error': bash could not be started; 'close' is still to come.
SpawnError(s) ==
    /\ s \in scripts
    /\ s.phase = "started"
    /\ scripts' = (scripts \ {s}) \cup {[s EXCEPT !.phase = "failed"]}
    /\ updating' = [updating EXCEPT ![s.node] = FALSE]
    /\ UNCHANGED <<pushed, network, deployed>>

\* Mutation of Close: a script that fails leaves the flag set.
CloseKeepsFlag(s) ==
    /\ s \in scripts
    /\ scripts' = scripts \ {s}
    /\ UNCHANGED <<pushed, network, updating, deployed>>

\* 'close': the script ended, whatever its status, and the node runs on.
Close(s) ==
    /\ s \in scripts
    /\ scripts' = scripts \ {s}
    /\ updating' = [updating EXCEPT ![s.node] = FALSE]
    /\ UNCHANGED <<pushed, network, deployed>>

\* A new process has a new flag, and the scripts of the old one died with it.
Restarted(n) ==
    /\ updating' = [updating EXCEPT ![n] = FALSE]
    /\ scripts' = {s \in scripts : s.node # n}
    /\ UNCHANGED <<pushed, network>>

\* The script restarts the service with what it built.
Deploy(s) ==
    /\ s \in scripts
    /\ s.phase = "looked"
    /\ Restarted(s.node)
    /\ deployed' = [deployed EXCEPT ![s.node] = s.commit]

\* The script rolls back and restarts the service, or it restarts for another
\* reason.
Restart(n) ==
    /\ updating[n]
    /\ Restarted(n)
    /\ UNCHANGED deployed

-----------------------------------------------------------------------------
Next ==
    \/ Push
    \/ \E w \in network : Lose(w) \/ HandleWebhook(w)
    \/ \E s \in scripts : Look(s) \/ SpawnError(s) \/ Close(s) \/ Deploy(s)
    \/ \E n \in Nodes : Restart(n)

\* A request is delivered or given up after its 10 s, and every script ends: it
\* has no time limit, so this is an assumption about git, npm and the builds.
Fairness ==
    \A n \in Nodes :
        /\ WF_vars(\E w \in network : w.to = n /\ (Lose(w) \/ HandleWebhook(w)))
        /\ WF_vars(\E s \in scripts : s.node = n /\ (Look(s) \/ SpawnError(s) \/ Close(s) \/ Deploy(s)))

Spec == Init /\ [][Next]_vars /\ Fairness
=============================================================================
