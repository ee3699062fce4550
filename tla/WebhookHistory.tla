--------------------------- MODULE WebhookHistory ---------------------------
(***************************************************************************)
(* Webhook with history variables: the webhooks each node accepted, the    *)
(* pushes a node is known to miss, and the nodes whose flag was cleared     *)
(* while a script of theirs was running.                                    *)
(***************************************************************************)
EXTENDS Webhook

VARIABLES
    received,       (* node -> push -> webhooks accepted for it              *)
    missed,         (* node and push, where that push is not to come         *)
    overlapped      (* nodes whose flag a script cleared under another       *)

historyVars == <<vars, received, missed, overlapped>>

Of(n) == {s \in scripts : s.node = n}
Live(n) == {s \in Of(n) : s.phase # "failed"}

HistoryInit ==
    /\ Init
    /\ received = [n \in Nodes |-> [p \in Pushes |-> 0]]
    /\ missed = {}
    /\ overlapped = {}

\* A push that GitHub could not tell the main node of reaches nobody.
Unreached(w) == IF w.forwarded THEN {<<w.to, w.push>>} ELSE Nodes \X {w.push}

\* The updates of a node end with a script: what it had accepted and does not
\* run by then is not to come.
Abandoned(n) ==
    {<<n, p>> : p \in {q \in Pushes : received[n][q] > 0 /\ deployed'[n] < q}}

HistoryLose(w) ==
    /\ Lose(w)
    /\ missed' = missed \cup Unreached(w)
    /\ UNCHANGED <<received, overlapped>>

\* A push is skipped for good when the script that runs has looked before it.
HistoryHandle(w) ==
    /\ HandleWebhook(w)
    /\ IF Verified(w.to)
       THEN /\ received' = [received EXCEPT ![w.to][w.push] = @ + 1]
            /\ missed' = missed \cup
                 (IF /\ updating[w.to]
                     /\ \E s \in Of(w.to) : s.phase = "looked" /\ s.commit < w.push
                  THEN {<<w.to, w.push>>} ELSE {})
       ELSE /\ missed' = missed \cup Unreached(w)
            /\ UNCHANGED received
    /\ UNCHANGED overlapped

HistoryEnd(s) ==
    /\ SpawnError(s) \/ Close(s) \/ Deploy(s)
    /\ missed' = missed \cup Abandoned(s.node)
    /\ overlapped' = overlapped \cup
         {n \in {s.node} : s.phase = "failed" /\ Live(n) # {}}
    /\ UNCHANGED received

HistoryRestart(n) ==
    /\ Restart(n)
    /\ missed' = missed \cup Abandoned(n)
    /\ UNCHANGED <<received, overlapped>>

HistoryNext ==
    \/ Push /\ UNCHANGED <<received, missed, overlapped>>
    \/ \E w \in network : HistoryLose(w) \/ HistoryHandle(w)
    \/ \E s \in scripts : Look(s) /\ UNCHANGED <<received, missed, overlapped>>
    \/ \E s \in scripts : HistoryEnd(s)
    \/ \E n \in Nodes : HistoryRestart(n)

HistorySpec == HistoryInit /\ [][HistoryNext]_historyVars /\ Fairness

-----------------------------------------------------------------------------
\* Forwarding does not go round in circles: a node accepts a push at most once,
\* and only a main node that does not know its own domain hears of it twice,
\* from GitHub and from itself (webhook-server.ts:102, 193-204, 213-228).
DeliveredOnce ==
    \A n \in Nodes, p \in Pushes :
        received[n][p] <= (IF n = Main /\ n \notin Named THEN 2 ELSE 1)

\* A server runs one script at a time, unless one that could not be started
\* reported twice, by 'error' and by 'close', and cleared the flag of the next
\* (webhook-server.ts:317-352).
RunsAlone ==
    \A n \in Nodes \ overlapped : \A s1, s2 \in Live(n) : s1 = s2

\* One push updates every node.  Each runs it, or a later one, in the end, except
\* where a webhook was lost or refused, a script failed, or the push came while a
\* script ran that had looked already (README.md:23-48).
PushesSpread ==
    \A n \in Nodes, p \in Pushes :
        pushed >= p ~> deployed[n] >= p \/ <<n, p>> \in missed
=============================================================================
