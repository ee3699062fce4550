------------------------ MODULE WebhookHistory_proof ------------------------
(***************************************************************************)
(* Proofs about the updates of all nodes, for any number of nodes, pushes   *)
(* and scripts: a push is not forwarded in circles, and a server runs one   *)
(* script at a time up to the one exception.  Then about the script itself, *)
(* for any number of pushes and failures: what it leaves is of one commit.  *)
(***************************************************************************)
EXTENDS WebhookHistory, AutoUpdateHistory, TLAPS

\* The two kinds of webhook there are for a push.
Told(p) == [to |-> Main, forwarded |-> FALSE, push |-> p]
Sent(n, p) == [to |-> n, forwarded |-> TRUE, push |-> p]

Limit(n) == IF n = Main /\ n \notin Named THEN 2 ELSE 1

HistoryTypeOK ==
    /\ TypeOK
    /\ received \in [Nodes -> [Pushes -> Nat]]

\* GitHub tells the main node only.
FromGitHub == \A w \in network : w.forwarded \/ w = Told(w.push)

\* A push that was not made, or that the main node is yet to hear of, is known to
\* nobody.
Unknown ==
    \A p \in Pushes :
        Told(p) \in network \/ pushed < p =>
            \A n \in Nodes : received[n][p] = 0 /\ Sent(n, p) \notin network

NotMadeNotTold == \A p \in Pushes : pushed < p => Told(p) \notin network

\* A webhook on its way counts as accepted.
Room ==
    \A n \in Nodes, p \in Pushes :
        /\ received[n][p] <= Limit(n)
        /\ Sent(n, p) \in network => received[n][p] < Limit(n)

\* The script that runs is the one the flag is set for.
Solo ==
    \A n \in Nodes \ overlapped :
        /\ \A s1, s2 \in Live(n) : s1 = s2
        /\ Live(n) # {} => updating[n]

Deliveries == FromGitHub /\ Unknown /\ NotMadeNotTold /\ Room

IInv == HistoryTypeOK /\ Deliveries /\ Solo

-----------------------------------------------------------------------------
LEMMA InitIInv == HistoryInit => IInv
  BY WebhookAssumption
  DEF HistoryInit, Init, IInv, HistoryTypeOK, TypeOK, Deliveries, FromGitHub, Unknown,
      NotMadeNotTold, Room, Limit, Solo, Live, Of, Pushes

\* A script is started under a free number, and is the only one that is new.
LEMMA StartEffect ==
  ASSUME NEW n \in Nodes, Start(n), scripts \subseteq Scripts
  PROVE  /\ updating' = [updating EXCEPT ![n] = TRUE]
         /\ scripts' \subseteq Scripts
         /\ \E s \in scripts' : s.node = n /\ scripts' = scripts \cup {s}
  <1>1. PICK pid \in 1 .. MaxScripts :
          scripts' = scripts \cup {[node |-> n, pid |-> pid, commit |-> 0, phase |-> "started"]}
    BY DEF Start
  <1>2. [node |-> n, pid |-> pid, commit |-> 0, phase |-> "started"] \in Scripts
    BY WebhookAssumption DEF Scripts
  <1>. QED BY <1>1, <1>2 DEF Start

-----------------------------------------------------------------------------
\* Types.
LEMMA TypeStep ==
  ASSUME HistoryTypeOK, HistoryNext
  PROVE  HistoryTypeOK'
  <1>. USE WebhookAssumption DEF HistoryTypeOK, TypeOK
  <1>1. CASE Push /\ UNCHANGED <<received, missed, overlapped>>
    <2>1. pushed' \in 0 .. MaxPushes /\ pushed' \in Pushes
      BY <1>1 DEF Push, Pushes
    <2>2. [to |-> Main, forwarded |-> FALSE, push |-> pushed'] \in Webhooks
      BY <2>1 DEF Webhooks
    <2>3. network' \subseteq Webhooks
      BY <1>1, <2>2 DEF Push
    <2>. QED BY <1>1, <2>1, <2>3 DEF Push
  <1>2. ASSUME NEW w \in network, HistoryLose(w) PROVE HistoryTypeOK'
    BY <1>2 DEF HistoryLose, Lose
  <1>3. ASSUME NEW w \in network, HistoryHandle(w) PROVE HistoryTypeOK'
    <2>. w \in Webhooks OBVIOUS
    <2>0. w.to \in Nodes /\ w.push \in Pushes BY DEF Webhooks
    <2>1. Forwards(w) \subseteq Webhooks
      <3>1. OtherNodes(w.to) \subseteq Nodes
        BY DEF OtherNodes
      <3>2. \A n \in Nodes : [to |-> n, forwarded |-> TRUE, push |-> w.push] \in Webhooks
        BY <2>0 DEF Webhooks
      <3>. QED BY <3>1, <3>2 DEF Forwards
    <2>2. network' \subseteq Webhooks
      BY <1>3, <2>1 DEF HistoryHandle, HandleWebhook
    <2>3. scripts' \subseteq Scripts /\ updating' \in [Nodes -> BOOLEAN]
      <3>1. CASE TriggerUpdate(w.to)
        BY <3>1, <2>0, StartEffect DEF TriggerUpdate
      <3>2. CASE UNCHANGED <<updating, scripts>>
        BY <3>2
      <3>. QED BY <1>3, <3>1, <3>2 DEF HistoryHandle, HandleWebhook
    <2>4. received' \in [Nodes -> [Pushes -> Nat]]
      <3>1. \A k : k \in Nat => k + 1 \in Nat
        OBVIOUS
      <3>2. received[w.to][w.push] + 1 \in Nat
        BY <2>0, <3>1
      <3>. QED BY <1>3, <2>0, <3>2 DEF HistoryHandle
    <2>. QED BY <1>3, <2>2, <2>3, <2>4 DEF HistoryHandle, HandleWebhook
  <1>4. ASSUME NEW s \in scripts, Look(s), UNCHANGED <<received, missed, overlapped>>
        PROVE  HistoryTypeOK'
    <2>1. [s EXCEPT !.phase = "looked", !.commit = pushed] \in Scripts
      BY <1>4 DEF Scripts
    <2>. QED BY <1>4, <2>1 DEF Look
  <1>5. ASSUME NEW s \in scripts, HistoryEnd(s) PROVE HistoryTypeOK'
    <2>. s \in Scripts OBVIOUS
    <2>0. s.node \in Nodes /\ s.commit \in 0 .. MaxPushes BY DEF Scripts
    <2>1. CASE SpawnError(s)
      <3>1. [s EXCEPT !.phase = "failed"] \in Scripts BY DEF Scripts
      <3>. QED BY <1>5, <2>0, <2>1, <3>1 DEF HistoryEnd, SpawnError
    <2>2. CASE Close(s)
      BY <1>5, <2>0, <2>2 DEF HistoryEnd, Close
    <2>3. CASE Deploy(s)
      BY <1>5, <2>0, <2>3 DEF HistoryEnd, Deploy, Restarted
    <2>. QED BY <1>5, <2>1, <2>2, <2>3 DEF HistoryEnd
  <1>6. ASSUME NEW n \in Nodes, HistoryRestart(n) PROVE HistoryTypeOK'
    BY <1>6 DEF HistoryRestart, Restart, Restarted
  <1>. QED BY <1>1, <1>2, <1>3, <1>4, <1>5, <1>6 DEF HistoryNext

-----------------------------------------------------------------------------
\* Deliveries.
LEMMA PushDelivers ==
  ASSUME HistoryTypeOK, Deliveries, Push, received' = received
  PROVE  Deliveries'
  <1>. USE WebhookAssumption DEF HistoryTypeOK, TypeOK, Pushes
  <1>1. network' = network \cup {Told(pushed')} /\ pushed' = pushed + 1 /\ pushed' \in Pushes
    BY DEF Push, Told
  <1>2. \A n, p : Sent(n, p) # Told(pushed')
    BY DEF Sent, Told
  <1>3. \A p \in Pushes : Told(p) = Told(pushed') => p = pushed'
    BY DEF Told
  <1>4. FromGitHub'
    BY <1>1 DEF Deliveries, FromGitHub, Told
  <1>5. Unknown'
    BY <1>1, <1>2, <1>3 DEF Deliveries, Unknown
  <1>6. NotMadeNotTold'
    BY <1>1, <1>3 DEF Deliveries, NotMadeNotTold
  <1>7. Room'
    BY <1>1, <1>2 DEF Deliveries, Room, Limit
  <1>. QED BY <1>4, <1>5, <1>6, <1>7 DEF Deliveries

\* Fewer webhooks on their way disturb nothing.
LEMMA LessDelivers ==
  ASSUME Deliveries, network' \subseteq network, pushed' = pushed, received' = received
  PROVE  Deliveries'
  BY DEF Deliveries, FromGitHub, Unknown, NotMadeNotTold, Room, Limit

LEMMA HandleDelivers ==
  ASSUME HistoryTypeOK, Deliveries, NEW w \in network, HistoryHandle(w)
  PROVE  Deliveries'
  <1>. USE WebhookAssumption DEF HistoryTypeOK
  <1>. w \in Webhooks BY DEF TypeOK
  <1>0. w.to \in Nodes /\ w.push \in Pushes /\ w.forwarded \in BOOLEAN /\ pushed' = pushed
    BY DEF Webhooks, HistoryHandle, HandleWebhook
  <1>1. CASE ~Verified(w.to)
    BY <1>1, <1>0, LessDelivers DEF HistoryHandle, HandleWebhook
  <1>2. CASE Verified(w.to) /\ w.forwarded
    <2>1. w = Sent(w.to, w.push)
      BY <1>2 DEF Webhooks, Sent
    <2>2. network' = network \ {w}
      BY <1>2 DEF HistoryHandle, HandleWebhook
    <2>3. \A n \in Nodes, p \in Pushes :
            received'[n][p] = IF n = w.to /\ p = w.push THEN received[n][p] + 1 ELSE received[n][p]
      BY <1>2, <1>0 DEF HistoryHandle
    <2>4. FromGitHub' /\ NotMadeNotTold'
      BY <2>2, <1>0 DEF Deliveries, FromGitHub, NotMadeNotTold
    <2>5. Unknown'
      <3>1. ~(Told(w.push) \in network \/ pushed < w.push)
        BY <2>1, <1>0 DEF Deliveries, Unknown
      <3>. QED BY <3>1, <2>2, <2>3, <1>0 DEF Deliveries, Unknown
    <2>6. Room'
      <3>. SUFFICES ASSUME NEW n \in Nodes, NEW p \in Pushes
           PROVE  /\ received'[n][p] <= Limit(n)
                  /\ Sent(n, p) \in network' => received'[n][p] < Limit(n)
        BY DEF Room, Limit
      <3>1. received[n][p] \in Nat /\ Limit(n) \in Nat
        BY DEF Limit
      <3>2. received[n][p] <= Limit(n) /\ (Sent(n, p) \in network => received[n][p] < Limit(n))
        BY DEF Deliveries, Room
      <3>3. CASE n = w.to /\ p = w.push
        BY <3>1, <3>2, <3>3, <2>1, <2>2, <2>3
      <3>4. CASE ~(n = w.to /\ p = w.push)
        BY <3>2, <3>4, <2>2, <2>3
      <3>. QED BY <3>3, <3>4
    <2>. QED BY <2>4, <2>5, <2>6 DEF Deliveries
  <1>3. CASE Verified(w.to) /\ ~w.forwarded
    <2>1. w = Told(w.push) /\ w.to = Main
      BY <1>3 DEF Deliveries, FromGitHub, Told
    <2>2. network' = (network \ {w}) \cup Forwards(w)
      BY <1>3 DEF HistoryHandle, HandleWebhook
    <2>3. \A n \in Nodes, p \in Pushes :
            received'[n][p] = IF n = w.to /\ p = w.push THEN received[n][p] + 1 ELSE received[n][p]
      BY <1>3, <1>0 DEF HistoryHandle
    <2>4. \A f \in Forwards(w) : f.forwarded /\ f.push = w.push /\ f = Sent(f.to, w.push)
                                 /\ f.to \in OtherNodes(Main)
      BY <2>1 DEF Forwards, Sent
    <2>5. /\ pushed >= w.push
          /\ \A n \in Nodes : received[n][w.push] = 0 /\ Sent(n, w.push) \notin network
      BY <2>1, <1>0 DEF Deliveries, Unknown, NotMadeNotTold, TypeOK, Pushes
    <2>6. \A p \in Pushes : Told(p) \in network' => Told(p) \in network /\ p # w.push
      BY <2>1, <2>2, <2>4 DEF Told
    <2>7. \A n \in Nodes, p \in Pushes :
            Sent(n, p) \in network' => \/ Sent(n, p) \in network
                                       \/ p = w.push /\ n \in OtherNodes(Main)
      BY <2>2, <2>4 DEF Sent
    <2>8. FromGitHub' /\ NotMadeNotTold'
      <3>1. FromGitHub' BY <2>2, <2>4 DEF Deliveries, FromGitHub
      <3>2. NotMadeNotTold' BY <2>6, <1>0 DEF Deliveries, NotMadeNotTold
      <3>. QED BY <3>1, <3>2
    <2>9. Unknown'
      <3>. SUFFICES ASSUME NEW p \in Pushes, Told(p) \in network' \/ pushed' < p, NEW n \in Nodes
           PROVE  received'[n][p] = 0 /\ Sent(n, p) \notin network'
        BY DEF Unknown
      <3>1. p # w.push /\ (Told(p) \in network \/ pushed < p)
        BY <2>5, <2>6, <1>0 DEF TypeOK, Pushes
      <3>2. received[n][p] = 0 /\ Sent(n, p) \notin network
        BY <3>1 DEF Deliveries, Unknown
      <3>. QED BY <3>1, <3>2, <2>3, <2>7
    <2>10. Room'
      <3>. SUFFICES ASSUME NEW n \in Nodes, NEW p \in Pushes
           PROVE  /\ received'[n][p] <= Limit(n)
                  /\ Sent(n, p) \in network' => received'[n][p] < Limit(n)
        BY DEF Room, Limit
      <3>1. received[n][p] <= Limit(n) /\ (Sent(n, p) \in network => received[n][p] < Limit(n))
        BY DEF Deliveries, Room
      <3>2. CASE p # w.push
        BY <3>1, <3>2, <2>3, <2>7
      <3>3. CASE p = w.push /\ n # Main
        BY <3>3, <2>1, <2>3, <2>5 DEF Limit
      <3>4. CASE p = w.push /\ n = Main
        <4>1. received'[n][p] = 1
          BY <3>4, <2>1, <2>3, <2>5
        <4>2. Main \in Named => Sent(n, p) \notin network'
          BY <3>4, <2>5, <2>7 DEF OtherNodes
        <4>. QED BY <3>4, <4>1, <4>2 DEF Limit
      <3>. QED BY <3>2, <3>3, <3>4
    <2>. QED BY <2>8, <2>9, <2>10 DEF Deliveries
  <1>. QED BY <1>0, <1>1, <1>2, <1>3

LEMMA DeliveriesStep ==
  ASSUME HistoryTypeOK, Deliveries, HistoryNext
  PROVE  Deliveries'
  <1>1. CASE Push /\ UNCHANGED <<received, missed, overlapped>>
    BY <1>1, PushDelivers
  <1>2. ASSUME NEW w \in network, HistoryLose(w) PROVE Deliveries'
    BY <1>2, LessDelivers DEF HistoryLose, Lose
  <1>3. ASSUME NEW w \in network, HistoryHandle(w) PROVE Deliveries'
    BY <1>3, HandleDelivers
  <1>4. ASSUME NEW s \in scripts, Look(s), UNCHANGED <<received, missed, overlapped>>
        PROVE  Deliveries'
    BY <1>4, LessDelivers DEF Look
  <1>5. ASSUME NEW s \in scripts, HistoryEnd(s) PROVE Deliveries'
    BY <1>5, LessDelivers DEF HistoryEnd, SpawnError, Close, Deploy, Restarted
  <1>6. ASSUME NEW n \in Nodes, HistoryRestart(n) PROVE Deliveries'
    BY <1>6, LessDelivers DEF HistoryRestart, Restart, Restarted
  <1>. QED BY <1>1, <1>2, <1>3, <1>4, <1>5, <1>6 DEF HistoryNext

-----------------------------------------------------------------------------
\* Scripts.
LEMMA SoloStep ==
  ASSUME HistoryTypeOK, Solo, HistoryNext
  PROVE  Solo'
  <1>. USE DEF HistoryTypeOK
  <1>0. ASSUME UNCHANGED <<scripts, updating, overlapped>> PROVE Solo'
    BY <1>0 DEF Solo, Live, Of
  <1>1. CASE Push /\ UNCHANGED <<received, missed, overlapped>>
    BY <1>0, <1>1 DEF Push
  <1>2. ASSUME NEW w \in network, HistoryLose(w) PROVE Solo'
    BY <1>0, <1>2 DEF HistoryLose, Lose
  <1>3. ASSUME NEW w \in network, HistoryHandle(w) PROVE Solo'
    <2>1. CASE UNCHANGED <<updating, scripts>>
      BY <1>0, <1>3, <2>1 DEF HistoryHandle
    <2>2. CASE ~updating[w.to] /\ Start(w.to)
      <3>0. w.to \in Nodes /\ overlapped' = overlapped
        BY <1>3 DEF TypeOK, Webhooks, HistoryHandle
      <3>1. PICK s \in scripts' : s.node = w.to /\ scripts' = scripts \cup {s}
        BY <2>2, <3>0, StartEffect DEF TypeOK
      <3>2. updating' = [updating EXCEPT ![w.to] = TRUE]
        BY <2>2, <3>0, StartEffect DEF TypeOK
      <3>3. ASSUME NEW n \in Nodes \ overlapped', n = w.to
            PROVE  (\A s1, s2 \in Live(n)' : s1 = s2) /\ updating'[n]
        <4>1. Live(n) = {}
          BY <2>2, <3>0, <3>3 DEF Solo
        <4>2. Live(n)' \subseteq {s}
          BY <3>1, <4>1 DEF Live, Of
        <4>. QED BY <3>0, <3>2, <3>3, <4>2 DEF TypeOK
      <3>4. ASSUME NEW n \in Nodes \ overlapped', n # w.to
            PROVE  Live(n)' = Live(n) /\ updating'[n] = updating[n]
        <4>1. Live(n)' = Live(n)
          BY <3>1, <3>4 DEF Live, Of
        <4>2. updating'[n] = updating[n]
          BY <3>2, <3>4 DEF TypeOK
        <4>. QED BY <4>1, <4>2
      <3>. QED BY <3>0, <3>3, <3>4 DEF Solo
    <2>. QED BY <1>3, <2>1, <2>2 DEF HistoryHandle, HandleWebhook, TriggerUpdate
  <1>4. ASSUME NEW s \in scripts, Look(s), UNCHANGED <<received, missed, overlapped>>
        PROVE  Solo'
    <2>1. PICK t : t = [s EXCEPT !.phase = "looked", !.commit = pushed]
      OBVIOUS
    <2>2. t.node = s.node /\ t.phase = "looked" /\ s.phase = "started"
      BY <1>4, <2>1 DEF Look, TypeOK, Scripts
    <2>3. scripts' = (scripts \ {s}) \cup {t} /\ updating' = updating
      BY <1>4, <2>1 DEF Look
    <2>4. ASSUME NEW n \in Nodes \ overlapped', n = s.node
          PROVE  (\A s1, s2 \in Live(n)' : s1 = s2) /\ updating'[n]
      <3>1. s \in Live(n) BY <2>2, <2>4 DEF Live, Of
      <3>2. Live(n) = {s} /\ updating[n] BY <3>1, <1>4 DEF Solo
      <3>3. Live(n)' \subseteq {t} BY <2>3, <3>2 DEF Live, Of
      <3>. QED BY <2>3, <3>2, <3>3
    <2>5. ASSUME NEW n \in Nodes \ overlapped', n # s.node
          PROVE  Live(n)' = Live(n)
      BY <2>2, <2>3, <2>5 DEF Live, Of
    <2>. QED BY <1>4, <2>3, <2>4, <2>5 DEF Solo
  <1>5. ASSUME NEW s \in scripts, HistoryEnd(s) PROVE Solo'
    <2>0. s.node \in Nodes BY DEF TypeOK, Scripts
    <2>1. overlapped \subseteq overlapped'
          /\ (s.phase = "failed" /\ Live(s.node) # {} => s.node \in overlapped')
      BY <1>5 DEF HistoryEnd
    <2>2. \A n \in Nodes : n # s.node => updating'[n] = updating[n]
      BY <1>5, <2>0 DEF HistoryEnd, SpawnError, Close, Deploy, Restarted, TypeOK
    <2>3. ASSUME NEW n \in Nodes \ overlapped', n = s.node
          PROVE  Live(n)' = {}
      <3>1. \A s1 \in Live(n) : s.phase # "failed" /\ s1 = s
        <4>1. CASE s.phase = "failed"
          BY <4>1, <2>1, <2>3
        <4>2. CASE s.phase # "failed"
          <5>1. s \in Live(n) BY <4>2, <2>3 DEF Live, Of
          <5>. QED BY <4>2, <5>1, <2>1 DEF Solo
        <4>. QED BY <4>1, <4>2
      <3>2. CASE SpawnError(s)
        <4>1. PICK t : t = [s EXCEPT !.phase = "failed"] OBVIOUS
        <4>2. t.phase = "failed" BY <4>1 DEF TypeOK, Scripts
        <4>3. scripts' = (scripts \ {s}) \cup {t} BY <3>2, <4>1 DEF SpawnError
        <4>. QED BY <3>1, <4>2, <4>3 DEF Live, Of
      <3>3. CASE Close(s)
        BY <3>1, <3>3 DEF Close, Live, Of
      <3>4. CASE Deploy(s)
        BY <2>3, <3>4 DEF Deploy, Restarted, Live, Of
      <3>. QED BY <1>5, <3>2, <3>3, <3>4 DEF HistoryEnd
    <2>4. ASSUME NEW n \in Nodes \ overlapped', n # s.node
          PROVE  Live(n)' = Live(n)
      <3>1. CASE SpawnError(s)
        <4>1. PICK t : t = [s EXCEPT !.phase = "failed"] OBVIOUS
        <4>2. t.node = s.node BY <4>1 DEF TypeOK, Scripts
        <4>3. scripts' = (scripts \ {s}) \cup {t} BY <3>1, <4>1 DEF SpawnError
        <4>. QED BY <2>4, <4>2, <4>3 DEF Live, Of
      <3>2. CASE Close(s)
        BY <2>4, <3>2 DEF Close, Live, Of
      <3>3. CASE Deploy(s)
        BY <2>4, <3>3 DEF Deploy, Restarted, Live, Of
      <3>. QED BY <1>5, <3>1, <3>2, <3>3 DEF HistoryEnd
    <2>. QED BY <2>1, <2>2, <2>3, <2>4 DEF Solo
  <1>6. ASSUME NEW n \in Nodes, HistoryRestart(n) PROVE Solo'
    <2>1. overlapped' = overlapped /\ Live(n)' = {}
      BY <1>6 DEF HistoryRestart, Restart, Restarted, Live, Of
    <2>2. \A m \in Nodes : m # n => Live(m)' = Live(m) /\ updating'[m] = updating[m]
      BY <1>6 DEF HistoryRestart, Restart, Restarted, Live, Of, TypeOK
    <2>. QED BY <2>1, <2>2 DEF Solo
  <1>. QED BY <1>1, <1>2, <1>3, <1>4, <1>5, <1>6 DEF HistoryNext

-----------------------------------------------------------------------------
LEMMA NextIInv == IInv /\ [HistoryNext]_historyVars => IInv'
  <1>. SUFFICES ASSUME IInv, [HistoryNext]_historyVars PROVE IInv'
    OBVIOUS
  <1>1. CASE HistoryNext
    BY <1>1, TypeStep, DeliveriesStep, SoloStep DEF IInv
  <1>2. CASE UNCHANGED historyVars
    BY <1>2 DEF IInv, HistoryTypeOK, TypeOK, Deliveries, FromGitHub, Unknown, NotMadeNotTold,
                Room, Limit, Solo, Live, Of, historyVars, vars
  <1>. QED BY <1>1, <1>2

\* The inductive invariant: types, the count of webhooks for a push, and the flag
\* that goes with the one script that runs (webhook-server.ts:112-356).
THEOREM WebhookInvariant == HistorySpec => []IInv
  BY InitIInv, NextIInv, PTL DEF HistorySpec

\* The webhook servers keep their types (webhook-server.ts:22-27).
THEOREM WebhookTypeCorrect == HistorySpec => []TypeOK
  <1>1. IInv => TypeOK BY DEF IInv, HistoryTypeOK
  <1>. QED BY <1>1, WebhookInvariant, PTL

\* However many nodes there are, a push is accepted at most once by each, and
\* twice only by a main node that does not know its domain
\* (webhook-server.ts:102, 193-204, 213-228).
THEOREM DeliveredOnceCorrect == HistorySpec => []DeliveredOnce
  <1>1. IInv => DeliveredOnce
    BY DEF IInv, Deliveries, Room, Limit, DeliveredOnce
  <1>. QED BY <1>1, WebhookInvariant, PTL

\* A server runs one script at a time, but for a flag cleared by a script that
\* could not be started (webhook-server.ts:317-352).
THEOREM RunsAloneCorrect == HistorySpec => []RunsAlone
  <1>1. IInv => RunsAlone
    BY DEF IInv, Solo, RunsAlone
  <1>. QED BY <1>1, WebhookInvariant, PTL

-----------------------------------------------------------------------------
\* Sources, dist, service and proxy of one commit, but for what is put right later.
Settled ==
    /\ dist = head
    /\ service = dist \/ "restart" \in mishaps
    /\ proxy = head \/ "go" \in mishaps

\* What a script that works alone has made of the commit it started from.
Progress(i) ==
    /\ pc[i] \in {"fetch", "again", "backup", "copy", "pull"} => Settled /\ current[i] = head
    /\ pc[i] = "copy" => backup = Empty
    /\ pc[i] = "pull" => backup = dist
    /\ Exposed(i) =>
         /\ backup = current[i]
         /\ service = current[i] \/ "restart" \in mishaps
         /\ proxy = current[i] \/ "go" \in mishaps
    /\ pc[i] = "emit" => compiled[i] = head
    /\ pc[i] = "restore" => head = current[i]
    /\ pc[i] = "go" => dist = head
    /\ pc[i] = "restart" => dist = head /\ (proxy = head \/ "go" \in mishaps)
    /\ pc[i] \in {"clean", "undo"} => Settled

Alone(i) == \A j \in Callers : j # i => pc[j] = "idle"

OnTrack ==
    /\ \E i \in Callers : Alone(i)
    /\ (\A i \in Callers : pc[i] = "idle") => Settled
    /\ \A i \in Callers : Progress(i)

UpdateInv ==
    /\ UpdateTypeOK
    /\ mishaps \subseteq Mishaps
    /\ ~Derailed => OnTrack

-----------------------------------------------------------------------------
\* The constants: commits are numbers, and the other values are not.
LEMMA UpdateValues ==
  /\ MaxCommits \in Nat /\ MaxFailures \in Nat /\ 0 \in Commits
         /\ \A c \in Commits : c \in Builds \cap Int /\ c # NoBackup /\ c # Empty /\ c # Torn
         /\ Empty # NoBackup /\ Torn \in Builds
  BY UpdateAssumption DEF Commits, Builds

LEMMA InitUpdateInv ==
  ASSUME UpdateHistoryInit
  PROVE  UpdateInv
  <1>1. UpdateTypeOK
    BY UpdateValues DEF UpdateHistoryInit, UpdateInit, UpdateTypeOK, Locations
  <1>2. OnTrack
    BY DEF UpdateHistoryInit, UpdateInit, OnTrack, Alone, Settled, Progress, Exposed,
           Callers
  <1>. QED BY <1>1, <1>2 DEF UpdateHistoryInit, UpdateInv, Mishaps

LEMMA ForgetTyped ==
  ASSUME UpdateTypeOK, NEW ended, Forget(ended)
  PROVE  /\ current' \in [Callers -> Commits] /\ compiled' \in [Callers -> Commits]
         /\ strict' \subseteq Callers
  BY UpdateValues DEF UpdateTypeOK, Forget

LEMMA StepTyped ==
  ASSUME UpdateTypeOK, NEW i \in Callers, Step(i)
  PROVE  UpdateTypeOK'
  <1>. USE UpdateValues DEF UpdateTypeOK, Goto, Works, Fails, files, script, Locations
  <1>1. CASE Fetch(i)
    BY <1>1 DEF Fetch
  <1>2. CASE ClearBackup(i)
    BY <1>2 DEF ClearBackup
  <1>3. CASE CopyBackup(i)
    BY <1>3 DEF CopyBackup
  <1>4. CASE Pull(i)
    BY <1>4 DEF Pull
  <1>5. CASE Install(i)
    BY <1>5 DEF Install
  <1>6. CASE Compile(i)
    BY <1>6 DEF Compile
  <1>7. CASE Emit(i)
    BY <1>7 DEF Emit
  <1>8. CASE BuildProxy(i)
    BY <1>8 DEF BuildProxy
  <1>9. CASE RestartAll(i)
    <2>1. /\ current' \in [Callers -> Commits] /\ compiled' \in [Callers -> Commits]
          /\ strict' \subseteq Callers
      BY <1>9, ForgetTyped DEF RestartAll
    <2>2. pc' \in [Callers -> Locations] /\ failures' \in 0 .. MaxFailures
      BY <1>9 DEF RestartAll
    <2>3. {dist', service'} \subseteq Builds
      BY <1>9 DEF RestartAll, ServiceRestarts, Left
    <2>. QED BY <1>9, <2>1, <2>2, <2>3 DEF RestartAll
  <1>10. CASE Clean(i)
    BY <1>10, ForgetTyped DEF Clean
  <1>11. CASE Reset(i)
    BY <1>11, ForgetTyped DEF Reset
  <1>12. CASE Restore(i)
    BY <1>12, ForgetTyped DEF Restore
  <1>13. CASE Undo(i)
    <2>1. /\ current' \in [Callers -> Commits] /\ compiled' \in [Callers -> Commits]
          /\ strict' \subseteq Callers
      BY <1>13, ForgetTyped DEF Undo
    <2>2. pc' \in [Callers -> Locations] /\ failures' \in 0 .. MaxFailures
      BY <1>13 DEF Undo
    <2>3. {dist', service'} \subseteq Builds
      BY <1>13 DEF Undo, ServiceRestarts, Left
    <2>. QED BY <1>13, <2>1, <2>2, <2>3 DEF Undo
  <1>. QED BY <1>1, <1>2, <1>3, <1>4, <1>5, <1>6, <1>7, <1>8, <1>9, <1>10, <1>11, <1>12, <1>13
           DEF Step

LEMMA UpdateTypeStep ==
  ASSUME UpdateInv, UpdateHistoryNext
  PROVE  UpdateTypeOK' /\ mishaps' \subseteq Mishaps
  <1>1. UpdateTypeOK /\ mishaps \subseteq Mishaps
    BY DEF UpdateInv
  <1>2. mishaps' \subseteq Mishaps
    BY <1>1 DEF UpdateHistoryNext, HistoryStart, HistoryStep, HistoryInterrupt,
                Noted, Mishaps
  <1>3. ASSUME PushCommit PROVE UpdateTypeOK'
    BY <1>1, <1>3, UpdateValues DEF PushCommit, files, script, UpdateTypeOK, Commits
  <1>4. ASSUME NEW i \in Callers, StartScript(i) PROVE UpdateTypeOK'
    BY <1>1, <1>4 DEF StartScript, Goto, files, UpdateTypeOK, Locations
  <1>5. ASSUME NEW i \in Callers, RebuildProxy(i) PROVE UpdateTypeOK'
    BY <1>1, <1>5 DEF RebuildProxy, script, UpdateTypeOK
  <1>6. ASSUME NEW i \in Callers, HistoryStep(i) PROVE Step(i)
    BY <1>6 DEF HistoryStep, Step
  <1>7. ASSUME NEW killed, Interrupt(killed) PROVE UpdateTypeOK'
    <2>1. /\ current' \in [Callers -> Commits] /\ compiled' \in [Callers -> Commits]
          /\ strict' \subseteq Callers
      BY <1>1, <1>7, ForgetTyped DEF Interrupt
    <2>2. pc' \in [Callers -> Locations] /\ failures' \in 0 .. MaxFailures
      BY <1>1, <1>7, UpdateValues DEF Interrupt, Fails, UpdateTypeOK, Locations
    <2>3. {dist', service'} \subseteq Builds
      BY <1>1, <1>7, UpdateValues DEF Interrupt, Left, UpdateTypeOK
    <2>. QED BY <1>1, <1>7, <2>1, <2>2, <2>3 DEF Interrupt, UpdateTypeOK
  <1>. QED BY <1>1, <1>2, <1>3, <1>4, <1>5, <1>6, <1>7, StepTyped
           DEF UpdateHistoryNext, HistoryStart, HistoryInterrupt

-----------------------------------------------------------------------------
\* What is left to show when the other script is idle after the step.
LEMMA OneScript ==
  ASSUME NEW i \in Callers, \A j \in Callers : j # i => pc'[j] = "idle",
         Progress(i)', pc'[i] = "idle" => Settled'
  PROVE  OnTrack'
  <1>1. \A j \in Callers : j # i => Progress(j)'
    BY DEF Progress, Exposed
  <1>2. \A j \in Callers : Progress(j)'
    BY <1>1
  <1>. QED BY <1>2 DEF OnTrack, Alone

\* A script that is under way is alone.
LEMMA WorksAlone ==
  ASSUME OnTrack, NEW i \in Callers, pc[i] # "idle"
  PROVE  Alone(i) /\ Progress(i)
  BY DEF OnTrack, Alone

\* What the actions of a script do to it, the other one being idle.
LEMMA UpdateSteps ==
  ASSUME UpdateTypeOK, OnTrack, NEW i \in Callers,
         \/ Fetch(i) \/ Pull(i) \/ Install(i) \/ Compile(i) \/ Emit(i) \/ Clean(i)
         \/ Works /\ (ClearBackup(i) \/ CopyBackup(i) \/ Reset(i) \/ Restore(i)),
         UNCHANGED mishaps
  PROVE  OnTrack'
  <1>. USE UpdateValues DEF Goto, Works, Fails
  <1>1. pc[i] # "idle"
    BY DEF Fetch, ClearBackup, CopyBackup, Pull, Install, Compile, Emit, Clean,
           Reset, Restore
  <1>2. Alone(i) /\ Progress(i) /\ UpdateTypeOK
    BY <1>1, WorksAlone
  <1>3. \A j \in Callers : j # i => pc'[j] = "idle"
    BY <1>2 DEF Fetch, ClearBackup, CopyBackup, Pull, Install, Compile, Emit, Clean,
                Reset, Restore, Alone, UpdateTypeOK
  <1>4. Progress(i)' /\ (pc'[i] = "idle" => Settled')
    <2>. USE <1>2 DEF UpdateTypeOK, Progress, Exposed, Settled, files, script
    <2>1. CASE Fetch(i)
      BY <2>1 DEF Fetch
    <2>2. CASE Works /\ ClearBackup(i)
      BY <2>2 DEF ClearBackup
    <2>3. CASE Pull(i)
      BY <2>3 DEF Pull
    <2>4. CASE Install(i)
      BY <2>4 DEF Install
    <2>5. CASE Compile(i)
      BY <2>5 DEF Compile
    <2>6. CASE Emit(i)
      BY <2>6 DEF Emit
    <2>7. CASE Clean(i)
      BY <2>7 DEF Clean
    <2>8. CASE Works /\ Reset(i)
      <3>1. /\ pc[i] = "reset" /\ backup = current[i] /\ backup # NoBackup
            /\ pc'[i] = "restore" /\ head' = current[i]
            /\ UNCHANGED <<dist, proxy, backup, service>>
        BY <2>8 DEF Reset
      <3>2. current'[i] = current[i]
        BY <2>8, <3>1 DEF Reset, Forget
      <3>. QED BY <3>1, <3>2
    <2>9. CASE Works /\ Restore(i)
      <3>1. /\ pc[i] = "restore" /\ pc'[i] = "undo"
            /\ dist' = current[i]
            /\ UNCHANGED <<head, proxy, backup, service>>
        BY <2>9 DEF Restore
      <3>. QED BY <3>1
    <2>10. CASE Works /\ CopyBackup(i)
      BY <2>10 DEF CopyBackup
    <2>. QED BY <2>1, <2>2, <2>3, <2>4, <2>5, <2>6, <2>7, <2>8, <2>9, <2>10
  <1>. QED BY <1>3, <1>4, OneScript

LEMMA BuildStep ==
  ASSUME UpdateTypeOK, OnTrack, NEW i \in Callers, BuildProxy(i),
         IF Failed THEN Noted("go") ELSE mishaps' = mishaps \ {"go"}
  PROVE  OnTrack'
  <1>. USE UpdateValues DEF Goto, Works, Fails
  <1>1. Alone(i) /\ Progress(i) /\ UpdateTypeOK /\ pc[i] = "go"
    BY WorksAlone DEF BuildProxy
  <1>2. \A j \in Callers : j # i => pc'[j] = "idle"
    BY <1>1 DEF BuildProxy, Alone, UpdateTypeOK
  <1>3. proxy' = head \/ "go" \in mishaps'
    BY <1>1 DEF BuildProxy, Failed, Noted, UpdateTypeOK
  <1>4. Progress(i)' /\ pc'[i] = "restart"
    BY <1>1, <1>3 DEF BuildProxy, UpdateTypeOK, Progress, Exposed, Settled
  <1>. QED BY <1>2, <1>4, OneScript

\* The services are restarted from a dist that nobody is writing.
LEMMA RestartStep ==
  ASSUME UpdateTypeOK, OnTrack, NEW i \in Callers,
         RestartAll(i) \/ Undo(i),
         IF Failed THEN Noted("restart") ELSE mishaps' = mishaps \ {"restart"}
  PROVE  OnTrack'
  <1>1. pc[i] \in {"again", "restart", "undo"}
    BY DEF RestartAll, Undo, Goto
  <1>2. Alone(i) /\ Progress(i) /\ UpdateTypeOK
    BY <1>1, WorksAlone
  <1>3. /\ dist = head
        /\ proxy = head \/ "go" \in mishaps
        /\ pc[i] # "restart" => Settled
    BY <1>1, <1>2 DEF Progress, Settled
  <1>4. Left({"webhook"}) = {dist}
    BY <1>1, <1>2 DEF Left, Alone, Callers
  <1>5. dist' = dist /\ (service' = dist' \/ "restart" \in mishaps')
    BY <1>4, UpdateValues DEF RestartAll, Undo, ServiceRestarts, Works,
                                    Fails, Failed, Noted, UpdateTypeOK
  <1>6. UNCHANGED <<head, proxy>> /\ ("go" \in mishaps => "go" \in mishaps')
    BY DEF RestartAll, Undo, Noted
  <1>7. Settled'
    BY <1>3, <1>5, <1>6 DEF Settled
  <1>8. pc'[i] \in {"idle", "clean"} /\ \A j \in Callers : j # i => pc'[j] = "idle"
    BY <1>2 DEF RestartAll, Undo, Goto, Alone, UpdateTypeOK
  <1>9. Progress(i)'
    BY <1>7, <1>8 DEF Progress, Exposed
  <1>. QED BY <1>7, <1>8, <1>9, OneScript

LEMMA RebuildStep ==
  ASSUME UpdateTypeOK, OnTrack, NEW i \in Callers, RebuildProxy(i),
         mishaps' = mishaps \ {"go"}
  PROVE  OnTrack'
  <1>1. Alone(i) /\ Progress(i) /\ pc[i] \in {"again", "restart"}
    BY WorksAlone DEF RebuildProxy
  <1>2. \A j \in Callers : j # i => pc'[j] = "idle"
    BY <1>1 DEF RebuildProxy, Alone
  <1>3. Progress(i)'
    BY <1>1 DEF RebuildProxy, script, Progress, Exposed, Settled
  <1>4. pc'[i] # "idle"
    BY <1>1 DEF RebuildProxy
  <1>. QED BY <1>2, <1>3, <1>4, OneScript

LEMMA UpdateStarts ==
  ASSUME UpdateTypeOK, OnTrack, NEW i \in Callers, StartScript(i),
         \A j \in Callers : pc[j] = "idle",
         UNCHANGED mishaps
  PROVE  OnTrack'
  <1>1. Settled
    BY DEF OnTrack
  <1>2. /\ pc'[i] = "fetch" /\ current'[i] = head
        /\ \A j \in Callers : j # i => pc'[j] = "idle"
        /\ UNCHANGED <<head, dist, proxy, service>>
    BY DEF StartScript, Goto, files, UpdateTypeOK
  <1>3. Progress(i)'
    BY <1>1, <1>2 DEF Progress, Exposed, Settled
  <1>. QED BY <1>2, <1>3, OneScript

\* An interruption that spares the commands in which HEAD is ahead of dist.
LEMMA InterruptStep ==
  ASSUME UpdateTypeOK, OnTrack, NEW killed \in {{"webhook"}, Callers},
         HistoryInterrupt(killed),
         ~\E i \in killed : Exposed(i)
  PROVE  OnTrack'
  <1>1. PICK i \in killed : pc[i] # "idle"
    BY DEF HistoryInterrupt, Interrupt
  <1>2. i \in Callers /\ Alone(i) /\ Progress(i) /\ ~Exposed(i)
    BY <1>1, WorksAlone DEF Callers
  <1>3. \A j \in Callers : pc'[j] = "idle"
    BY <1>2 DEF HistoryInterrupt, Interrupt, Alone
  <1>4. pc[i] \in Locations
    BY <1>2 DEF UpdateTypeOK
  <1>5. /\ dist = head
        /\ pc[i] # "go" => proxy = head \/ "go" \in mishaps
    BY <1>1, <1>2, <1>4 DEF Progress, Settled, Exposed, Locations
  <1>6. Left(killed) = {dist}
    BY <1>2 DEF Left, Exposed
  <1>7. dist' = dist /\ service' = dist' /\ UNCHANGED <<head, proxy>>
    BY <1>6 DEF HistoryInterrupt, Interrupt
  <1>8. proxy = head \/ "go" \in mishaps'
    BY <1>2, <1>5 DEF HistoryInterrupt
  <1>9. Settled'
    BY <1>5, <1>7, <1>8 DEF Settled
  <1>10. Progress(i)'
    BY <1>2, <1>3 DEF Progress, Exposed
  <1>. QED BY <1>2, <1>3, <1>9, <1>10, OneScript

-----------------------------------------------------------------------------
LEMMA TrackKept ==
  ASSUME UpdateInv, UpdateHistoryNext, ~Derailed'
  PROVE  OnTrack'
  <1>1. \A k \in {"overlap", "interrupted", "copy", "rollback"} : k \notin mishaps'
    BY DEF Derailed
  <1>2. UpdateTypeOK /\ (~Derailed => OnTrack)
    BY DEF UpdateInv
  <1>3. ~Derailed
    BY <1>1 DEF Derailed, UpdateHistoryNext, HistoryStart, HistoryStep,
                HistoryInterrupt, Noted
  <1>4. OnTrack
    BY <1>2, <1>3
  <1>5. CASE PushCommit /\ UNCHANGED mishaps
    BY <1>4, <1>5 DEF PushCommit, files, script, OnTrack, Alone, Settled, Progress, Exposed
  <1>6. ASSUME NEW i \in Callers, HistoryStart(i) PROVE OnTrack'
    BY <1>1, <1>2, <1>4, <1>6, UpdateStarts DEF HistoryStart, Noted
  <1>7. ASSUME NEW i \in Callers, HistoryStep(i) PROVE OnTrack'
    <2>1. CASE \/ /\ ClearBackup(i) \/ CopyBackup(i)
                  /\ IF Failed THEN Noted("copy") ELSE UNCHANGED mishaps
               \/ /\ Reset(i) \/ Restore(i)
                  /\ IF Failed THEN Noted("rollback") ELSE UNCHANGED mishaps
      <3>1. ~Failed /\ UNCHANGED mishaps
        BY <1>1, <2>1 DEF Noted
      <3>2. Works
        BY <3>1 DEF Failed, Works
      <3>. QED BY <1>2, <1>4, <2>1, <3>1, <3>2, UpdateSteps
    <2>2. CASE /\ BuildProxy(i)
               /\ IF Failed THEN Noted("go") ELSE mishaps' = mishaps \ {"go"}
      BY <1>2, <1>4, <2>2, BuildStep
    <2>3. CASE /\ RestartAll(i) \/ Undo(i)
               /\ IF Failed THEN Noted("restart") ELSE mishaps' = mishaps \ {"restart"}
      BY <1>2, <1>4, <2>3, RestartStep
    <2>4. CASE /\ Fetch(i) \/ Pull(i) \/ Install(i) \/ Compile(i) \/ Emit(i) \/ Clean(i)
               /\ UNCHANGED mishaps
      BY <1>2, <1>4, <2>4, UpdateSteps
    <2>. QED BY <1>7, <2>1, <2>2, <2>3, <2>4 DEF HistoryStep
  <1>8. ASSUME NEW i \in Callers, RebuildProxy(i), mishaps' = mishaps \ {"go"}
        PROVE  OnTrack'
    BY <1>2, <1>4, <1>8, RebuildStep
  <1>9. ASSUME NEW killed \in {{"webhook"}, Callers}, HistoryInterrupt(killed)
        PROVE  OnTrack'
    <2>1. ~\E i \in killed : Exposed(i)
      BY <1>1, <1>9 DEF HistoryInterrupt
    <2>. QED BY <1>2, <1>4, <1>9, <2>1, InterruptStep
  <1>. QED BY <1>5, <1>6, <1>7, <1>8, <1>9 DEF UpdateHistoryNext

LEMMA NextUpdateInv ==
  ASSUME UpdateInv, [UpdateHistoryNext]_updateHistoryVars
  PROVE  UpdateInv'
  <1>1. CASE UpdateHistoryNext
    BY <1>1, UpdateTypeStep, TrackKept DEF UpdateInv
  <1>2. CASE UNCHANGED updateHistoryVars
    BY <1>2 DEF updateHistoryVars, updateVars, files, script, UpdateInv, UpdateTypeOK, Derailed,
                OnTrack, Alone, Settled, Progress, Exposed
  <1>. QED BY <1>1, <1>2

\* The inductive invariant of an update: where a script that works alone stands, its
\* backup, the sources, dist, the proxy and the service are what its commands so far
\* made them, as long as no backup and no rollback failed, none was interrupted in
\* between and no two overlapped (auto-update.sh:19-45, 190-302).
THEOREM UpdateInvariant ==
  UpdateHistorySpec => []UpdateInv
  <1>1. UpdateHistoryInit => UpdateInv
    BY InitUpdateInv
  <1>2. UpdateInv /\ [UpdateHistoryNext]_updateHistoryVars => UpdateInv'
    BY NextUpdateInv
  <1>. QED BY <1>1, <1>2, PTL DEF UpdateHistorySpec

\* An update, failed or not, leaves one commit behind, for any number of pushes,
\* failures and updates, unless its backup or its rollback failed too, it was
\* interrupted in between, or two scripts overlapped.
THEOREM OneVersionCorrect ==
  UpdateHistorySpec => []OneVersion
  <1>1. UpdateInv => OneVersion
    BY DEF UpdateInv, OnTrack, Settled, OneVersion
  <1>. QED BY <1>1, UpdateInvariant, PTL
=============================================================================
