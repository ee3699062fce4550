--------------------------- MODULE WsChannel_proof --------------------------
(***************************************************************************)
(* Proofs about the WebSocket channel, for any number of sockets, requests  *)
(* and logs: an answer settles its own request, what each end believes of   *)
(* its connections is so, and the two logs agree.                           *)
(***************************************************************************)
EXTENDS WsChannel, FiniteSetTheorems, SequenceTheorems, TLAPS

\* Requests are numbered in the order they are made: a request is its number.
Numbered ==
    \A r \in Requests :
        \/ r <= messageId /\ id[r] = r /\ outcome[r] # "unmade"
        \/ r > messageId /\ id[r] = 0 /\ outcome[r] = "unmade"

\* What waits has a timer, and the other way round.
Waits ==
    \A r \in Requests :
        \/ pendingRequests[r] = r /\ r \in timers /\ outcome[r] \in {"waiting", "thrown"}
        \/ pendingRequests[r] = None /\ r \notin timers /\ outcome[r] # "waiting"

\* Messages that carry the number of a request that was made.
Genuine == {m \in Messages : m.id = m.request /\ m.request <= messageId}

Carried ==
    /\ toServer \in [Sockets -> Seq(Genuine)]
    /\ toClient \in [Sockets -> Seq(Genuine)]
    /\ fetching \subseteq Genuine \X Sockets

\* Nothing is on its way on a connection that is not open yet or is broken, and an
\* open connection is broken when the server no longer has it.
Links ==
    \A c \in Sockets :
        /\ c \in broken \/ clientSide[c] \in {"none", "opening"} =>
             toServer[c] = <<>> /\ toClient[c] = <<>>
        /\ clientSide[c] \in {"none", "opening"} => \A m \in Messages : <<m, c>> \notin fetching
        /\ clientSide[c] = "open" /\ c \notin broken => serverSide[c] = "open"

IInv == TypeOK /\ Numbered /\ Waits /\ Carried /\ Links /\ EndsAgree /\ LogsAgree

-----------------------------------------------------------------------------
LEMMA InitIInv == Init => IInv
  <1> SUFFICES ASSUME Init PROVE IInv
    OBVIOUS
  <1>. USE WsAssumption DEF Init
  <1>1. TypeOK
    <2>1. /\ toServer \in [Sockets -> Seq(Messages)] /\ toClient \in [Sockets -> Seq(Messages)]
          /\ requestLogs \in Seq(Logs) /\ Len(requestLogs) = 0
          /\ errorLogs \in Seq(Logs) /\ Len(errorLogs) = 0
      OBVIOUS
    <2>2. /\ Len(requestLogs) <= MaxLogs /\ Len(errorLogs) <= MaxErrorLogs
          /\ messageId \in 0 .. MaxRequests /\ id \in [Requests -> 0 .. MaxRequests]
          /\ pendingRequests \in [1 .. MaxRequests -> Requests \cup {None}]
      BY <2>1
    <2>3. /\ listeners \in [Events -> SUBSET Sockets]
          /\ fetching \subseteq Messages \X Sockets
      OBVIOUS
    <2>. QED BY <2>1, <2>2, <2>3 DEF TypeOK
  <1>2. Numbered /\ Waits
    BY DEF Numbered, Waits, Requests
  <1>3. Carried
    BY DEF Carried
  <1>4. Links /\ EndsAgree
    BY DEF Links, EndsAgree
  <1>5. LogsAgree
    BY DEF LogsAgree
  <1>. QED BY <1>1, <1>2, <1>3, <1>4, <1>5 DEF IInv

\* A log is put first, and the oldest falls out.
LEMMA LoggedEffect ==
  ASSUME NEW logs \in Seq(Logs), NEW log \in Logs, NEW limit \in Nat, Len(logs) <= limit
  PROVE  /\ Logged(logs, log, limit) \in Seq(Logs)
         /\ Len(Logged(logs, log, limit)) = IF Len(logs) < limit THEN Len(logs) + 1 ELSE limit
         /\ \A j \in 1 .. Len(Logged(logs, log, limit)) :
              Logged(logs, log, limit)[j] = IF j = 1 THEN log ELSE logs[j - 1]
  <1>. DEFINE more == <<log>> \o logs
              last == IF Len(logs) < limit THEN Len(logs) + 1 ELSE limit
  <1>1. /\ <<log>> \in Seq(Logs) /\ Len(<<log>>) = 1 /\ <<log>>[1] = log
        /\ Len(logs) \in Nat
    OBVIOUS
  <1>2. /\ more \in Seq(Logs) /\ Len(more) = Len(logs) + 1
        /\ \A j \in 1 .. Len(more) : more[j] = IF j = 1 THEN log ELSE logs[j - 1]
    BY <1>1, ConcatProperties
  <1>3. last \in 0 .. Len(more)
    BY <1>1, <1>2
  <1>. HIDE DEF more
  <1>4. /\ SubSeq(more, 1, last) \in Seq(Logs) /\ Len(SubSeq(more, 1, last)) = last
        /\ \A j \in 1 .. last : SubSeq(more, 1, last)[j] = more[j]
    BY <1>2, <1>3
  <1>5. \A j \in 1 .. last : SubSeq(more, 1, last)[j] = IF j = 1 THEN log ELSE logs[j - 1]
    BY <1>2, <1>3, <1>4
  <1>6. Logged(logs, log, limit) = SubSeq(more, 1, last)
    BY DEF Logged, more
  <1>. QED BY <1>4, <1>5, <1>6

\* The requests of the messages on their way are those that were made.
LEMMA GenuineFacts ==
  ASSUME TypeOK, NEW m \in Genuine
  PROVE  m \in Messages /\ m.request \in Requests /\ m.id = m.request /\ m.request <= messageId
  BY DEF Genuine, Messages

\* What a step does to a sequence on its way.
LEMMA SequenceSteps ==
  ASSUME NEW S, NEW s \in Seq(S)
  PROVE  /\ s # <<>> => Head(s) \in S /\ Tail(s) \in Seq(S) /\ Len(Tail(s)) = Len(s) - 1
         /\ Len(s) \in Nat
         /\ \A e \in S : Append(s, e) \in Seq(S) /\ Len(Append(s, e)) = Len(s) + 1
  BY HeadTailProperties, AppendProperties, LenProperties, EmptySeq

LEMMA Appended ==
  ASSUME NEW S, NEW queues \in [Sockets -> Seq(S)], NEW c \in Sockets, NEW e \in S
  PROVE  [queues EXCEPT ![c] = Append(@, e)] \in [Sockets -> Seq(S)]
  <1>1. Append(queues[c], e) \in Seq(S)
    BY AppendProperties
  <1>. QED BY <1>1

-----------------------------------------------------------------------------
\* The requests and their numbers.
RequestInv == TypeOK /\ Numbered /\ Waits

\* The next request is the next number.
LEMMA NextNumber ==
  ASSUME RequestInv, NEW r \in Requests, FetchData(r)
  PROVE  r = messageId + 1 /\ messageId \in Nat /\ r \in 1 .. MaxRequests
  <1>1. r \in 1 .. MaxRequests /\ messageId \in 0 .. MaxRequests /\ r > messageId
    BY WsAssumption DEF RequestInv, TypeOK, Numbered, FetchData, Requests
  <1>2. messageId + 1 \in Requests /\ outcome[messageId + 1] = "unmade"
    BY <1>1, WsAssumption DEF RequestInv, Numbered, Requests
  <1>3. ~(messageId + 1 < r)
    BY <1>2 DEF FetchData
  <1>. QED BY <1>1, <1>3, WsAssumption

LEMMA ReceiveEffect ==
  ASSUME IInv, NEW c \in Sockets, ClientReceives(c)
  PROVE  \E r \in Requests :
           /\ Head(toClient[c]).request = r /\ r <= messageId
           /\ toClient[c] # <<>> /\ toClient' = [toClient EXCEPT ![c] = Tail(@)]
           /\ UNCHANGED <<messageId, id>>
           /\ \/ /\ pendingRequests[r] = r
                 /\ pendingRequests' = [pendingRequests EXCEPT ![r] = None]
                 /\ timers' = timers \ {r}
                 /\ outcome' = [outcome EXCEPT ![r] = IF @ = "waiting" THEN "answered" ELSE @]
              \/ /\ pendingRequests[r] = None
                 /\ UNCHANGED <<pendingRequests, timers, outcome>>
  <1>. DEFINE m == Head(toClient[c])
  <1>1. m \in Genuine
    BY SequenceSteps DEF IInv, Carried, ClientReceives
  <1>2. m.request \in Requests /\ m.id = m.request /\ m.request <= messageId
    BY <1>1, GenuineFacts DEF IInv
  <1>3. /\ m.request \in Int /\ None \notin Int
        /\ pendingRequests[m.request] \in {m.request, None}
    BY <1>2, WsAssumption DEF IInv, Waits, Requests
  <1>4. /\ toClient[c] # <<>> /\ toClient' = [toClient EXCEPT ![c] = Tail(@)]
        /\ UNCHANGED <<messageId, id>>
        /\ \/ /\ pendingRequests[m.id] # None
              /\ pendingRequests' = [pendingRequests EXCEPT ![m.id] = None]
              /\ timers' = timers \ {pendingRequests[m.id]}
              /\ outcome' = [outcome EXCEPT ![pendingRequests[m.id]] =
                               IF @ = "waiting" THEN "answered" ELSE @]
           \/ /\ pendingRequests[m.id] = None
              /\ UNCHANGED <<pendingRequests, timers, outcome>>
    BY DEF ClientReceives
  <1>. HIDE DEF m
  <1>5. \/ /\ pendingRequests[m.request] = m.request
           /\ pendingRequests' = [pendingRequests EXCEPT ![m.request] = None]
           /\ timers' = timers \ {m.request}
           /\ outcome' = [outcome EXCEPT ![m.request] = IF @ = "waiting" THEN "answered" ELSE @]
        \/ /\ pendingRequests[m.request] = None
           /\ UNCHANGED <<pendingRequests, timers, outcome>>
    BY <1>2, <1>3, <1>4
  <1>6. m = Head(toClient[c])
    BY DEF m
  <1>. QED BY <1>2, <1>4, <1>5, <1>6

LEMMA RequestStep ==
  ASSUME IInv, Next
  PROVE  /\ messageId' \in 0 .. MaxRequests /\ messageId' >= messageId
         /\ id' \in [Requests -> 0 .. MaxRequests]
         /\ pendingRequests' \in [1 .. MaxRequests -> Requests \cup {None}]
         /\ timers' \subseteq Requests
         /\ outcome' \in [Requests -> {"unmade", "waiting", "answered", "timeout", "thrown"}]
         /\ Numbered' /\ Waits'
  <1>. DEFINE Typed ==
                /\ messageId \in 0 .. MaxRequests
                /\ id \in [Requests -> 0 .. MaxRequests]
                /\ pendingRequests \in [1 .. MaxRequests -> Requests \cup {None}]
                /\ timers \subseteq Requests
                /\ outcome \in [Requests -> {"unmade", "waiting", "answered", "timeout", "thrown"}]
              Goal == Typed' /\ messageId' >= messageId /\ Numbered' /\ Waits'
  <1>1. /\ Typed /\ Numbered /\ Waits
        /\ Requests = 1 .. MaxRequests /\ MaxRequests \in Nat /\ None \notin Int
    BY WsAssumption DEF IInv, TypeOK, Requests
  <1>2. ASSUME NEW r \in Requests, FetchData(r) PROVE Goal
    <2>1. r = messageId + 1 /\ messageId \in Nat
      BY <1>2, NextNumber DEF IInv, RequestInv
    <2>2. /\ messageId' = r
          /\ id' = [id EXCEPT ![r] = r]
          /\ pendingRequests' = [pendingRequests EXCEPT ![r] = r]
          /\ timers' = timers \cup {r}
          /\ \/ outcome' = [outcome EXCEPT ![r] = "thrown"]
             \/ outcome' = [outcome EXCEPT ![r] = "waiting"]
      BY <1>2, <2>1 DEF FetchData
    <2>3. Typed' /\ messageId' >= messageId
      <3>1. messageId' \in 0 .. MaxRequests /\ messageId' >= messageId
        BY <1>1, <2>1, <2>2
      <3>2. id' \in [Requests -> 0 .. MaxRequests] /\ timers' \subseteq Requests
        BY <1>1, <2>2
      <3>3. pendingRequests' \in [1 .. MaxRequests -> Requests \cup {None}]
        BY <1>1, <2>2
      <3>4. outcome' \in [Requests -> {"unmade", "waiting", "answered", "timeout", "thrown"}]
        BY <1>1, <2>2
      <3>. QED BY <3>1, <3>2, <3>3, <3>4
    <2>4. Numbered'
      BY <1>1, <2>1, <2>2 DEF Numbered
    <2>5. Waits'
      BY <1>1, <2>1, <2>2 DEF Waits
    <2>. QED BY <2>3, <2>4, <2>5
  <1>3. ASSUME NEW r \in Requests, RequestTimeout(r) PROVE Goal
    <2>1. id[r] = r
      BY <1>1, <1>3 DEF RequestTimeout, Numbered, Waits
    <2>2. /\ UNCHANGED <<messageId, id>>
          /\ timers' = timers \ {r}
          /\ pendingRequests' = [pendingRequests EXCEPT ![r] = None]
          /\ outcome' = [outcome EXCEPT ![r] = IF @ = "waiting" THEN "timeout" ELSE @]
      BY <1>3, <2>1 DEF RequestTimeout
    <2>3. Typed' /\ messageId' >= messageId
      BY <1>1, <2>2
    <2>4. Numbered'
      BY <1>1, <2>2 DEF Numbered
    <2>5. Waits'
      BY <1>1, <2>2 DEF Waits
    <2>. QED BY <2>3, <2>4, <2>5
  <1>4. ASSUME NEW c \in Sockets, ClientReceives(c) PROVE Goal
    <2>1. PICK r \in Requests :
           /\ UNCHANGED <<messageId, id>>
           /\ \/ /\ pendingRequests[r] = r
                 /\ pendingRequests' = [pendingRequests EXCEPT ![r] = None]
                 /\ timers' = timers \ {r}
                 /\ outcome' = [outcome EXCEPT ![r] = IF @ = "waiting" THEN "answered" ELSE @]
              \/ UNCHANGED <<pendingRequests, timers, outcome>>
      BY <1>4, ReceiveEffect
    <2>2. Typed' /\ messageId' >= messageId
      <3>1. outcome' \in [Requests -> {"unmade", "waiting", "answered", "timeout", "thrown"}]
        BY <1>1, <2>1
      <3>2. /\ pendingRequests' \in [1 .. MaxRequests -> Requests \cup {None}]
            /\ timers' \subseteq Requests
        BY <1>1, <2>1
      <3>. QED BY <1>1, <2>1, <3>1, <3>2
    <2>3. Numbered'
      BY <1>1, <2>1 DEF Numbered
    <2>4. Waits'
      BY <1>1, <2>1 DEF Waits
    <2>. QED BY <2>2, <2>3, <2>4
  <1>5. CASE UNCHANGED requestVars
    <2>1. UNCHANGED <<messageId, id, pendingRequests, timers, outcome>>
      BY <1>5 DEF requestVars
    <2>. QED BY <1>1, <2>1 DEF Numbered, Waits
  <1>6. \/ UNCHANGED requestVars
        \/ \E r \in Requests : FetchData(r) \/ RequestTimeout(r)
        \/ \E c \in Sockets : ClientReceives(c)
    BY DEF Next, Connect, Accept, Open, ConnectTimeout, ClientClosed, Break, ServerFetches,
           ServerClosed, Disconnect, ServerAnswers, ServerRestarts
  <1>. QED BY <1>2, <1>3, <1>4, <1>5, <1>6

-----------------------------------------------------------------------------
\* The messages on their way.
LEMMA CarriedStep ==
  ASSUME IInv, Next
  PROVE  Carried'
  <1>1. Genuine \subseteq Genuine'
    <2>1. messageId \in Int /\ messageId' \in Int /\ messageId' >= messageId
      BY RequestStep, WsAssumption DEF IInv, TypeOK
    <2>2. \A m \in Messages : m.request \in Int
      BY DEF Messages, Requests
    <2>. QED BY <2>1, <2>2 DEF Genuine
  <1>2. /\ toServer \in [Sockets -> Seq(Genuine')] /\ toClient \in [Sockets -> Seq(Genuine')]
        /\ fetching \subseteq Genuine' \X Sockets
    <2>1. Seq(Genuine) \subseteq Seq(Genuine')
      BY <1>1, SeqMonotonic
    <2>. QED BY <1>1, <2>1 DEF IInv, Carried
  <1>3. ASSUME NEW r \in Requests, FetchData(r) PROVE Carried'
    <2>1. r = messageId + 1 /\ messageId \in Nat /\ r \in 1 .. MaxRequests
      BY <1>3, NextNumber DEF IInv, RequestInv
    <2>2. [id |-> messageId', request |-> r] \in Genuine'
      BY <1>3, <2>1 DEF FetchData, Genuine, Messages, Requests
    <2>3. /\ UNCHANGED <<toClient, fetching>>
          /\ \/ UNCHANGED toServer
             \/ /\ ws \in Sockets
                /\ toServer' = [toServer EXCEPT ![ws] = Append(@, [id |-> messageId', request |-> r])]
      BY <1>3 DEF FetchData, serverVars, IInv, TypeOK
    <2>4. CASE UNCHANGED toServer
      BY <1>2, <2>3, <2>4 DEF Carried
    <2>5. CASE /\ ws \in Sockets
               /\ toServer' = [toServer EXCEPT ![ws] = Append(@, [id |-> messageId', request |-> r])]
      <3>1. [toServer EXCEPT ![ws] = Append(@, [id |-> messageId', request |-> r])]
              \in [Sockets -> Seq(Genuine')]
        BY <1>2, <2>2, <2>5, Appended
      <3>. QED BY <1>2, <2>3, <2>5, <3>1 DEF Carried
    <2>. QED BY <2>3, <2>4, <2>5
  <1>4. ASSUME NEW c \in Sockets, ClientReceives(c) PROVE Carried'
    <2>1. /\ toClient[c] # <<>> /\ toClient' = [toClient EXCEPT ![c] = Tail(@)]
          /\ UNCHANGED <<toServer, fetching>>
      BY <1>4 DEF ClientReceives, serverVars
    <2>2. toClient' \in [Sockets -> Seq(Genuine')]
      BY <1>2, <2>1, SequenceSteps
    <2>. QED BY <1>2, <2>1, <2>2 DEF Carried
  <1>5. ASSUME NEW c \in Sockets, ServerFetches(c) PROVE Carried'
    <2>1. /\ toServer[c] # <<>> /\ toServer' = [toServer EXCEPT ![c] = Tail(@)]
          /\ fetching' = fetching \cup {<<Head(toServer[c]), c>>}
          /\ UNCHANGED toClient
      BY <1>5 DEF ServerFetches
    <2>2. toServer' \in [Sockets -> Seq(Genuine')] /\ Head(toServer[c]) \in Genuine'
      BY <1>2, <2>1, SequenceSteps
    <2>. QED BY <1>2, <2>1, <2>2 DEF Carried
  <1>6. ASSUME NEW f \in fetching, NEW success \in BOOLEAN, ServerAnswers(f[1], f[2], success)
        PROVE  Carried'
    <2>1. f[1] \in Genuine' /\ f[2] \in Sockets
      BY <1>2
    <2>2. /\ UNCHANGED toServer /\ fetching' \subseteq fetching
          /\ \/ UNCHANGED toClient
             \/ toClient' = [toClient EXCEPT ![f[2]] = Append(@, f[1])]
      BY <1>6 DEF ServerAnswers
    <2>3. [toClient EXCEPT ![f[2]] = Append(@, f[1])] \in [Sockets -> Seq(Genuine')]
      BY <1>2, <2>1, Appended
    <2>. QED BY <1>2, <2>2, <2>3 DEF Carried
  <1>7. ASSUME \A c \in Sockets : /\ toServer'[c] = toServer[c] \/ toServer'[c] = <<>>
                                  /\ toClient'[c] = toClient[c] \/ toClient'[c] = <<>>,
               toServer' = [c \in Sockets |-> toServer'[c]],
               toClient' = [c \in Sockets |-> toClient'[c]],
               fetching' \subseteq fetching
        PROVE  Carried'
    <2>1. <<>> \in Seq(Genuine')
      OBVIOUS
    <2>2. /\ \A c \in Sockets : toServer'[c] \in Seq(Genuine')
          /\ \A c \in Sockets : toClient'[c] \in Seq(Genuine')
      BY <1>2, <1>7, <2>1
    <2>. QED BY <1>2, <1>7, <2>2 DEF Carried
  <1>8. CASE UNCHANGED <<toServer, toClient, fetching>>
    BY <1>2, <1>8 DEF Carried
  <1>9. ASSUME NEW c \in Sockets, ClientClosed(c) PROVE Carried'
    <2>1. /\ toClient' = [toClient EXCEPT ![c] = <<>>] /\ UNCHANGED <<toServer, fetching>>
      BY <1>9 DEF ClientClosed, serverVars
    <2>. QED BY <1>2, <1>7, <2>1
  <1>10. ASSUME NEW c \in Sockets, Break(c) PROVE Carried'
    <2>1. /\ toClient' = [toClient EXCEPT ![c] = <<>>]
          /\ toServer' = [toServer EXCEPT ![c] = <<>>] /\ UNCHANGED fetching
      BY <1>10 DEF Break, serverVars
    <2>. QED BY <1>2, <1>7, <2>1
  <1>11. CASE ServerRestarts
    BY <1>7, <1>11 DEF ServerRestarts
  <1>12. \/ UNCHANGED <<toServer, toClient, fetching>>
         \/ \E r \in Requests : FetchData(r)
         \/ \E c \in Sockets : ClientReceives(c) \/ ServerFetches(c) \/ ClientClosed(c) \/ Break(c)
         \/ \E f \in fetching, success \in BOOLEAN : ServerAnswers(f[1], f[2], success)
         \/ ServerRestarts
    BY DEF Next, Connect, Accept, Open, ConnectTimeout, ServerClosed, Disconnect, RequestTimeout,
           linkVars, serverVars
  <1>. QED BY <1>3, <1>4, <1>5, <1>6, <1>8, <1>9, <1>10, <1>11, <1>12

-----------------------------------------------------------------------------
\* The connections and the listeners.
LEMMA LinksStep ==
  ASSUME IInv, Next
  PROVE  Links' /\ EndsAgree'
  <1>1. /\ ws \in Sockets \cup {None} /\ broken \subseteq Sockets
        /\ clientSide \in [Sockets -> {"none", "opening", "open", "closing", "closed"}]
        /\ serverSide \in [Sockets -> {"none", "open", "closed"}]
        /\ toServer \in [Sockets -> Seq(Messages)] /\ toClient \in [Sockets -> Seq(Messages)]
        /\ listeners \in [Events -> SUBSET Sockets]
        /\ Links /\ EndsAgree
    BY DEF IInv, TypeOK
  <1>. USE DEF Links, EndsAgree, clientVars, requestVars, serverVars
  <1>2. ASSUME NEW c \in Sockets, Connect(c) PROVE Links' /\ EndsAgree'
    BY <1>1, <1>2 DEF Connect
  <1>3. ASSUME NEW c \in Sockets, Accept(c) PROVE Links' /\ EndsAgree'
    BY <1>1, <1>3 DEF Accept
  <1>4. ASSUME NEW c \in Sockets, Open(c) PROVE Links' /\ EndsAgree'
    BY <1>1, <1>4 DEF Open
  <1>5. ASSUME NEW c \in Sockets, ConnectTimeout(c) PROVE Links' /\ EndsAgree'
    BY <1>1, <1>5 DEF ConnectTimeout, linkVars
  <1>6. CASE Disconnect
    BY <1>1, <1>6 DEF Disconnect
  <1>7. ASSUME NEW c \in Sockets, ClientClosed(c) PROVE Links' /\ EndsAgree'
    BY <1>1, <1>7 DEF ClientClosed
  <1>8. ASSUME NEW r \in Requests, FetchData(r) PROVE Links' /\ EndsAgree'
    BY <1>1, <1>8 DEF FetchData
  <1>9. ASSUME NEW r \in Requests, RequestTimeout(r) PROVE Links' /\ EndsAgree'
    BY <1>1, <1>9 DEF RequestTimeout, linkVars
  <1>10. ASSUME NEW c \in Sockets, ClientReceives(c) PROVE Links' /\ EndsAgree'
    BY <1>1, <1>10 DEF ClientReceives
  <1>11. ASSUME NEW c \in Sockets, Break(c) PROVE Links' /\ EndsAgree'
    BY <1>1, <1>11 DEF Break
  <1>12. ASSUME NEW c \in Sockets, ServerFetches(c) PROVE Links' /\ EndsAgree'
    BY <1>1, <1>12 DEF ServerFetches
  <1>13. ASSUME NEW f \in fetching, NEW success \in BOOLEAN, ServerAnswers(f[1], f[2], success)
         PROVE  Links' /\ EndsAgree'
    <2>1. f[1] \in Messages /\ f[2] \in Sockets /\ f = <<f[1], f[2]>>
      BY DEF IInv, TypeOK
    <2>. QED BY <1>1, <1>13, <2>1 DEF ServerAnswers
  <1>14. ASSUME NEW c \in Sockets, ServerClosed(c) PROVE Links' /\ EndsAgree'
    BY <1>1, <1>14 DEF ServerClosed
  <1>15. CASE ServerRestarts
    BY <1>1, <1>15 DEF ServerRestarts
  <1>. QED BY <1>2, <1>3, <1>4, <1>5, <1>6, <1>7, <1>8, <1>9, <1>10, <1>11, <1>12, <1>13,
              <1>14, <1>15 DEF Next

-----------------------------------------------------------------------------
\* The logs.
LogsOK ==
    /\ requestLogs \in Seq(Logs) /\ Len(requestLogs) <= MaxLogs
    /\ errorLogs \in Seq(Logs) /\ Len(errorLogs) <= MaxErrorLogs

LEMMA FailuresCount ==
  ASSUME LogsOK, NEW i \in 0 .. Len(requestLogs)
  PROVE  IsFiniteSet(Failures(i)) /\ Cardinality(Failures(i)) \in Nat
         /\ (i # 0 /\ ~requestLogs[i].success => Cardinality(Failures(i)) > 0)
  <1>1. i \in Int /\ Failures(i) \subseteq 1 .. i
    BY DEF Failures, LogsOK
  <1>2. IsFiniteSet(Failures(i))
    <2>1. IsFiniteSet(1 .. i)
      BY FS_Interval
    <2>. QED BY <1>1, <2>1, FS_Subset
  <1>3. Cardinality(Failures(i)) \in Nat
    BY <1>2, FS_CardinalityType
  <1>4. ASSUME i # 0, ~requestLogs[i].success PROVE Cardinality(Failures(i)) > 0
    <2>1. i \in Failures(i)
      BY <1>4, <1>1 DEF Failures
    <2>. QED BY <1>2, <1>3, <2>1, FS_EmptySet
  <1>. QED BY <1>2, <1>3, <1>4

\* One more log shifts the failures by one and may add itself.
LEMMA FailuresShift ==
  ASSUME LogsOK, LogsOK', NEW log \in Logs, NEW i \in 1 .. Len(requestLogs'),
         i - 1 <= Len(requestLogs),
         \A j \in 1 .. Len(requestLogs') :
            requestLogs'[j] = IF j = 1 THEN log ELSE requestLogs[j - 1]
  PROVE  Cardinality(Failures(i)') =
           Cardinality(Failures(i - 1)) + (IF log.success THEN 0 ELSE 1)
  <1>. DEFINE old == Failures(i - 1)
              shifted == {j + 1 : j \in old}
              f == [j \in old |-> j + 1]
  <1>1. i - 1 \in 0 .. Len(requestLogs) /\ i \in Nat \ {0}
    BY DEF LogsOK
  <1>2. IsFiniteSet(old) /\ Cardinality(old) \in Nat
    BY <1>1, FailuresCount
  <1>3. old \subseteq 1 .. i - 1 /\ \A j \in old : j \in Int
    BY <1>1 DEF Failures
  <1>4. f \in Bijection(old, shifted)
    BY <1>3 DEF Bijection, Injection, Surjection, IsInjective
  <1>5. IsFiniteSet(shifted) /\ Cardinality(shifted) = Cardinality(old)
    <2>1. ExistsBijection(old, shifted)
      BY <1>4 DEF ExistsBijection
    <2>. HIDE DEF old, shifted, f
    <2>. QED BY <1>2, <2>1, FS_Bijection
  <1>6. 1 \notin shifted
    BY <1>1, <1>3
  <1>7. Failures(i)' = shifted \cup (IF log.success THEN {} ELSE {1})
    <2>1. ASSUME NEW j \in 1 .. i
          PROVE  /\ j # 1 => (~requestLogs'[j].success <=> j \in shifted)
                 /\ j = 1 => (~requestLogs'[j].success <=> ~log.success)
      <3>1. j \in 1 .. Len(requestLogs')
        BY DEF LogsOK
      <3>2. ASSUME j # 1 PROVE j \in shifted <=> j - 1 \in old
        BY <1>1, <1>3, <3>2
      <3>3. ASSUME j # 1 PROVE j - 1 \in old <=> ~requestLogs[j - 1].success
        BY <1>1, <3>3 DEF Failures
      <3>. QED BY <3>1, <3>2, <3>3
    <2>2. \A j \in shifted : j \in 1 .. i
      BY <1>1, <1>3
    <2>3. Failures(i)' = {j \in 1 .. i : ~requestLogs'[j].success}
      BY DEF Failures
    <2>. QED BY <1>1, <1>6, <2>1, <2>2, <2>3
  <1>8. CASE log.success
    <2>1. Failures(i)' = shifted
      BY <1>7, <1>8
    <2>. QED BY <1>2, <1>5, <1>8, <2>1
  <1>9. CASE ~log.success
    <2>1. Failures(i)' = shifted \cup {1}
      BY <1>7, <1>9
    <2>2. Cardinality(shifted \cup {1}) = Cardinality(shifted) + 1
      BY <1>5, <1>6, FS_AddElement
    <2>. QED BY <1>5, <1>9, <2>1, <2>2
  <1>. QED BY <1>8, <1>9

LEMMA LogsStep ==
  ASSUME IInv, Next
  PROVE  LogsOK' /\ LogsAgree'
  <1>1. LogsOK /\ LogsAgree /\ MaxLogs \in Nat /\ MaxErrorLogs \in Nat
    BY WsAssumption DEF IInv, TypeOK, LogsOK
  <1>2. ASSUME NEW f \in fetching, NEW success \in BOOLEAN, ServerAnswers(f[1], f[2], success)
        PROVE  LogsOK' /\ LogsAgree'
    <2>. DEFINE log == [request |-> f[1].request, success |-> success]
    <2>1. log \in Logs /\ log.success = success /\ Record(log)
      BY <1>2 DEF IInv, TypeOK, Messages, Logs, ServerAnswers
    <2>. HIDE DEF log
    <2>2. /\ requestLogs' \in Seq(Logs)
          /\ Len(requestLogs') = IF Len(requestLogs) < MaxLogs THEN Len(requestLogs) + 1 ELSE MaxLogs
          /\ \A j \in 1 .. Len(requestLogs') :
                requestLogs'[j] = IF j = 1 THEN log ELSE requestLogs[j - 1]
      <3>1. requestLogs' = Logged(requestLogs, log, MaxLogs)
        BY <2>1 DEF Record
      <3>2. requestLogs \in Seq(Logs) /\ Len(requestLogs) <= MaxLogs
        BY <1>1 DEF LogsOK
      <3>3. MaxLogs \in Nat /\ log \in Logs
        BY <1>1, <2>1
      <3>4. LET new == Logged(requestLogs, log, MaxLogs)
            IN  /\ new \in Seq(Logs)
                /\ Len(new) = IF Len(requestLogs) < MaxLogs THEN Len(requestLogs) + 1 ELSE MaxLogs
                /\ \A j \in 1 .. Len(new) : new[j] = IF j = 1 THEN log ELSE requestLogs[j - 1]
        BY ONLY <3>2, <3>3, LoggedEffect, ZenonT(60)
      <3>. QED BY ONLY <3>1, <3>4, Zenon
    <2>3. CASE log.success
      <3>1. UNCHANGED errorLogs
        BY <2>1, <2>3 DEF Record
      <3>2. LogsOK'
        BY <1>1, <2>2, <3>1 DEF LogsOK
      <3>3. ASSUME NEW i \in DOMAIN requestLogs', ~requestLogs'[i].success,
                   Cardinality(Failures(i)') <= Len(errorLogs')
            PROVE  errorLogs'[Cardinality(Failures(i)')] = requestLogs'[i]
        <4>1. i \in 1 .. Len(requestLogs') /\ Len(requestLogs) \in Nat
          BY <1>1, <2>2 DEF LogsOK
        <4>2. i # 1 /\ i - 1 \in 1 .. Len(requestLogs) /\ requestLogs'[i] = requestLogs[i - 1]
          BY <1>1, <2>2, <2>3, <3>3, <4>1
        <4>3. Cardinality(Failures(i)') = Cardinality(Failures(i - 1)) + 0
          <5>1. /\ LogsOK /\ LogsOK' /\ log \in Logs /\ i - 1 <= Len(requestLogs)
                /\ \A j \in 1 .. Len(requestLogs') :
                     requestLogs'[j] = IF j = 1 THEN log ELSE requestLogs[j - 1]
            BY <1>1, <2>1, <2>2, <3>2, <4>1, <4>2
          <5>2. Cardinality(Failures(i)') =
                  Cardinality(Failures(i - 1)) + (IF log.success THEN 0 ELSE 1)
            BY <4>1, <5>1, FailuresShift
          <5>. QED BY <2>3, <5>2
        <4>4. Cardinality(Failures(i - 1)) \in Nat
          BY <1>1, <4>2, FailuresCount
        <4>5. i - 1 \in DOMAIN requestLogs
          BY <1>1, <4>2 DEF LogsOK
        <4>. QED BY <1>1, <3>1, <3>3, <4>2, <4>3, <4>4, <4>5 DEF LogsAgree
      <3>. QED BY <3>2, <3>3 DEF LogsAgree
    <2>4. CASE ~log.success
      <3>1. /\ errorLogs' \in Seq(Logs)
            /\ Len(errorLogs') = IF Len(errorLogs) < MaxErrorLogs THEN Len(errorLogs) + 1 ELSE MaxErrorLogs
            /\ \A j \in 1 .. Len(errorLogs') :
                  errorLogs'[j] = IF j = 1 THEN log ELSE errorLogs[j - 1]
        <4>1. errorLogs' = Logged(errorLogs, log, MaxErrorLogs)
          BY <2>1, <2>4 DEF Record
        <4>2. errorLogs \in Seq(Logs) /\ Len(errorLogs) <= MaxErrorLogs
          BY <1>1 DEF LogsOK
        <4>3. MaxErrorLogs \in Nat /\ log \in Logs
          BY <1>1, <2>1
        <4>4. LET new == Logged(errorLogs, log, MaxErrorLogs)
              IN  /\ new \in Seq(Logs)
                  /\ Len(new) = IF Len(errorLogs) < MaxErrorLogs THEN Len(errorLogs) + 1 ELSE MaxErrorLogs
                  /\ \A j \in 1 .. Len(new) : new[j] = IF j = 1 THEN log ELSE errorLogs[j - 1]
          BY ONLY <4>2, <4>3, LoggedEffect, ZenonT(60)
        <4>. QED BY ONLY <4>1, <4>4, Zenon
      <3>2. LogsOK'
        BY <1>1, <2>2, <3>1 DEF LogsOK
      <3>3. ASSUME NEW i \in DOMAIN requestLogs', ~requestLogs'[i].success,
                   Cardinality(Failures(i)') <= Len(errorLogs')
            PROVE  errorLogs'[Cardinality(Failures(i)')] = requestLogs'[i]
        <4>1. i \in 1 .. Len(requestLogs') /\ Len(requestLogs) \in Nat /\ Len(errorLogs) \in Nat
          BY <1>1, <2>2 DEF LogsOK
        <4>2. i - 1 \in 0 .. Len(requestLogs)
          BY <1>1, <2>2, <4>1
        <4>3. Cardinality(Failures(i)') = Cardinality(Failures(i - 1)) + 1
          <5>1. /\ LogsOK /\ LogsOK' /\ log \in Logs /\ i - 1 <= Len(requestLogs)
                /\ \A j \in 1 .. Len(requestLogs') :
                     requestLogs'[j] = IF j = 1 THEN log ELSE requestLogs[j - 1]
            BY <1>1, <2>1, <2>2, <3>2, <4>1, <4>2
          <5>2. Cardinality(Failures(i)') =
                  Cardinality(Failures(i - 1)) + (IF log.success THEN 0 ELSE 1)
            BY <4>1, <5>1, FailuresShift
          <5>. QED BY <2>4, <5>2
        <4>4. Cardinality(Failures(i - 1)) \in Nat
          BY <1>1, <4>2, FailuresCount
        <4>5. CASE i = 1
          <5>1. Failures(0) = {}
            BY DEF Failures
          <5>2. Cardinality(Failures(i)') = 1
            BY <4>3, <4>5, <5>1, FS_EmptySet
          <5>3. 1 \in 1 .. Len(errorLogs') /\ 1 \in 1 .. Len(requestLogs')
            BY <3>1, <3>3, <4>1, <4>5, <5>2
          <5>. QED BY <2>2, <3>1, <4>5, <5>2, <5>3
        <4>6. CASE i # 1
          <5>1. i - 1 \in DOMAIN requestLogs /\ requestLogs'[i] = requestLogs[i - 1]
            BY <1>1, <2>2, <4>1, <4>2, <4>6 DEF LogsOK
          <5>2. Cardinality(Failures(i - 1)) > 0
            BY <1>1, <3>3, <4>2, <4>1, <4>6, <5>1, FailuresCount
          <5>3. Cardinality(Failures(i - 1)) <= Len(errorLogs)
            BY <1>1, <3>1, <3>3, <4>1, <4>3, <4>4
          <5>4. errorLogs[Cardinality(Failures(i - 1))] = requestLogs[i - 1]
            BY <1>1, <3>3, <5>1, <5>3 DEF LogsAgree
          <5>5. errorLogs'[Cardinality(Failures(i)')] = errorLogs[Cardinality(Failures(i - 1))]
            BY <3>1, <3>3, <4>3, <4>4, <5>2
          <5>. QED BY <5>1, <5>4, <5>5
        <4>. QED BY <4>5, <4>6
      <3>. QED BY <3>2, <3>3 DEF LogsAgree
    <2>. QED BY <2>3, <2>4
  <1>3. CASE ServerRestarts
    <2>1. requestLogs' = <<>> /\ errorLogs' = <<>>
      BY <1>3 DEF ServerRestarts
    <2>2. <<>> \in Seq(Logs) /\ Len(<<>>) = 0 /\ DOMAIN <<>> = {}
      OBVIOUS
    <2>. QED BY <1>1, <2>1, <2>2 DEF LogsOK, LogsAgree
  <1>4. CASE UNCHANGED <<requestLogs, errorLogs>>
    BY <1>1, <1>4 DEF LogsOK, LogsAgree, Failures
  <1>5. \/ UNCHANGED <<requestLogs, errorLogs>>
        \/ ServerRestarts
        \/ \E f \in fetching, success \in BOOLEAN : ServerAnswers(f[1], f[2], success)
    BY DEF Next, Connect, Accept, Open, ConnectTimeout, ClientClosed, Break, ServerFetches,
           ServerClosed, Disconnect, FetchData, RequestTimeout, ClientReceives, serverVars
  <1>. QED BY <1>2, <1>3, <1>4, <1>5

-----------------------------------------------------------------------------
LEMMA TypeStep ==
  ASSUME IInv, Next
  PROVE  TypeOK'
  <1>. DEFINE SocketsTyped ==
                /\ ws \in Sockets \cup {None}
                /\ connected \in BOOLEAN
                /\ connecting \in [Sockets -> {"none", "pending", "resolved", "rejected"}]
                /\ timing \subseteq Sockets
                /\ clientSide \in [Sockets -> {"none", "opening", "open", "closing", "closed"}]
                /\ serverSide \in [Sockets -> {"none", "open", "closed"}]
                /\ broken \subseteq Sockets
                /\ listeners \in [Events -> SUBSET Sockets]
  <1>1. SocketsTyped
    BY DEF IInv, TypeOK
  <1>2. SocketsTyped'
    <2>. USE DEF clientVars, requestVars, serverVars, linkVars, Settle
    <2>1. ASSUME NEW c \in Sockets, Connect(c) PROVE SocketsTyped'
      BY <1>1, <2>1 DEF Connect
    <2>2. ASSUME NEW c \in Sockets, Accept(c) PROVE SocketsTyped'
      BY <1>1, <2>2 DEF Accept
    <2>3. ASSUME NEW c \in Sockets, Open(c) PROVE SocketsTyped'
      BY <1>1, <2>3 DEF Open
    <2>4. ASSUME NEW c \in Sockets, ConnectTimeout(c) PROVE SocketsTyped'
      BY <1>1, <2>4 DEF ConnectTimeout
    <2>5. CASE Disconnect
      BY <1>1, <2>5 DEF Disconnect
    <2>6. ASSUME NEW c \in Sockets, ClientClosed(c) PROVE SocketsTyped'
      BY <1>1, <2>6 DEF ClientClosed
    <2>7. ASSUME NEW c \in Sockets, Break(c) PROVE SocketsTyped'
      BY <1>1, <2>7 DEF Break
    <2>8. ASSUME NEW c \in Sockets, ServerClosed(c) PROVE SocketsTyped'
      BY <1>1, <2>8 DEF ServerClosed
    <2>9. CASE ServerRestarts
      BY <1>1, <2>9 DEF ServerRestarts
    <2>10. CASE UNCHANGED <<ws, connected, connecting, timing, clientSide, serverSide, broken,
                            listeners>>
      BY <1>1, <2>10
    <2>11. ASSUME NEW c \in Sockets, ClientReceives(c) \/ ServerFetches(c) PROVE SocketsTyped'
      BY <2>10, <2>11 DEF ClientReceives, ServerFetches
    <2>12. ASSUME NEW r \in Requests, FetchData(r) \/ RequestTimeout(r) PROVE SocketsTyped'
      BY <2>10, <2>12 DEF FetchData, RequestTimeout
    <2>13. ASSUME NEW f \in fetching, NEW success \in BOOLEAN, ServerAnswers(f[1], f[2], success)
           PROVE  SocketsTyped'
      BY <2>10, <2>13 DEF ServerAnswers
    <2>. QED BY <2>1, <2>2, <2>3, <2>4, <2>5, <2>6, <2>7, <2>8, <2>9, <2>11, <2>12, <2>13
             DEF Next
  <1>3. /\ toServer' \in [Sockets -> Seq(Messages)] /\ toClient' \in [Sockets -> Seq(Messages)]
        /\ fetching' \subseteq Messages \X Sockets
    <2>1. Genuine' \subseteq Messages
      BY DEF Genuine
    <2>2. Seq(Genuine') \subseteq Seq(Messages)
      BY <2>1, SeqMonotonic
    <2>. QED BY <2>1, <2>2, CarriedStep DEF Carried
  <1>. QED BY <1>2, <1>3, RequestStep, LogsStep DEF TypeOK, LogsOK

LEMMA NextIInv == IInv /\ [Next]_vars => IInv'
  <1>1. ASSUME IInv, Next PROVE IInv'
    BY <1>1, TypeStep, RequestStep, CarriedStep, LinksStep, LogsStep DEF IInv
  <1>2. ASSUME IInv, UNCHANGED vars PROVE IInv'
    BY <1>2 DEF vars, clientVars, requestVars, linkVars, serverVars, IInv, TypeOK, Numbered,
                Waits, Genuine, Carried, Links, EndsAgree, LogsAgree, Failures
  <1>. QED BY <1>1, <1>2

\* The inductive invariant: a request is its number, what waits has a timer, what
\* is on its way carries the number of a request that was made, on a connection that
\* is open (ws-client.ts, and the connection handler of monitor-server.ts).
THEOREM WsInvariant == Spec => []IInv
  BY InitIInv, NextIInv, PTL DEF Spec

\* The variables keep their types, and the logs their limits (rpc-server.ts:94-112).
THEOREM WsTypeCorrect == Spec => []TypeOK
  <1>1. IInv => TypeOK
    BY DEF IInv
  <1>. QED BY <1>1, WsInvariant, PTL

\* What waits under a number is an unsettled request of that number whose timer runs
\* (ws-client.ts:92-95, 120-138).
THEOREM PendingHasTimerCorrect == Spec => []PendingHasTimer
  <1>1. IInv => PendingHasTimer
    <2> SUFFICES ASSUME IInv, NEW i \in Requests, pendingRequests[i] # None
                 PROVE  /\ id[pendingRequests[i]] = i /\ pendingRequests[i] \in timers
                        /\ outcome[pendingRequests[i]] \in {"waiting", "thrown"}
      BY DEF PendingHasTimer, IInv, TypeOK, Requests
    <2>1. pendingRequests[i] = i /\ i \in timers /\ outcome[i] \in {"waiting", "thrown"}
      BY DEF IInv, Waits
    <2>2. id[i] = i
      BY <2>1 DEF IInv, Numbered
    <2>. QED BY <2>1, <2>2
  <1>. QED BY <1>1, WsInvariant, PTL

\* A client that calls itself connected has an open socket, and the server listens for
\* its open connections only (ws-client.ts:47-64; monitor-server.ts:129-140, 205-210).
THEOREM EndsAgreeCorrect == Spec => []EndsAgree
  <1>1. IInv => EndsAgree
    BY DEF IInv
  <1>. QED BY <1>1, WsInvariant, PTL

\* The two bounded logs agree, whatever their limits (rpc-server.ts:94-112).
THEOREM LogsAgreeCorrect == Spec => []LogsAgree
  <1>1. IInv => LogsAgree
    BY DEF IInv
  <1>. QED BY <1>1, WsInvariant, PTL

-----------------------------------------------------------------------------
Matches(r) ==
    /\ outcome[r] = "waiting" /\ Arrives(r) => outcome'[r] = "answered"
    /\ outcome[r] # outcome'[r] /\ outcome'[r] = "answered" => Arrives(r)

\* What arrives is received: no other step takes the head of what is on its way to an
\* open socket and leaves the connection as it is.
LEMMA ArrivalIsReceived ==
  ASSUME IInv, [Next]_vars, NEW r \in Requests, NEW c \in Sockets,
         clientSide[c] = "open", toClient[c] # <<>>, toClient'[c] = Tail(toClient[c]),
         UNCHANGED <<broken, clientSide>>
  PROVE  ClientReceives(c)
  <1>1. /\ toClient[c] \in Seq(Messages) /\ Len(Tail(toClient[c])) = Len(toClient[c]) - 1
        /\ Len(toClient[c]) \in Nat
    BY SequenceSteps DEF IInv, TypeOK
  <1>2. toClient'[c] # toClient[c] /\ \A m \in Messages : toClient'[c] # Append(toClient[c], m)
    <2>1. \A m \in Messages : Len(Append(toClient[c], m)) = Len(toClient[c]) + 1
      BY <1>1, SequenceSteps
    <2>2. Len(toClient[c]) - 1 # Len(toClient[c]) /\ Len(toClient[c]) - 1 # Len(toClient[c]) + 1
      BY <1>1
    <2>3. Tail(toClient[c]) # toClient[c]
      BY <1>1, <2>2
    <2>4. ASSUME NEW m \in Messages PROVE Tail(toClient[c]) # Append(toClient[c], m)
      BY <1>1, <2>1, <2>2
    <2>. QED BY <2>3, <2>4
  <1>3. toClient \in [Sockets -> Seq(Messages)] /\ broken \subseteq Sockets
        /\ clientSide \in [Sockets -> {"none", "opening", "open", "closing", "closed"}]
    BY DEF IInv, TypeOK
  <1>4. ASSUME NEW d \in Sockets, ClientReceives(d) PROVE ClientReceives(c)
    BY <1>2, <1>3, <1>4 DEF ClientReceives
  <1>5. ASSUME NEW d \in Sockets, ClientClosed(d) PROVE FALSE
    BY <1>3, <1>5 DEF ClientClosed
  <1>6. ASSUME NEW d \in Sockets, Break(d) PROVE FALSE
    BY <1>3, <1>6 DEF Break, Lost
  <1>7. ASSUME NEW f \in fetching, NEW success \in BOOLEAN, ServerAnswers(f[1], f[2], success)
        PROVE  FALSE
    <2>1. f[1] \in Messages /\ f[2] \in Sockets
      BY DEF IInv, TypeOK
    <2>2. toClient' = toClient \/ toClient' = [toClient EXCEPT ![f[2]] = Append(@, f[1])]
      BY <1>7 DEF ServerAnswers
    <2>. QED BY <1>2, <1>3, <2>1, <2>2
  <1>8. CASE ServerRestarts
    <2>1. c \notin broken /\ serverSide[c] = "open"
      BY DEF IInv, Links
    <2>. QED BY <1>8, <2>1 DEF ServerRestarts
  <1>9. toClient' # toClient
    BY <1>2
  <1>10. \/ UNCHANGED toClient
         \/ \E d \in Sockets : ClientReceives(d) \/ ClientClosed(d) \/ Break(d)
         \/ \E f \in fetching, success \in BOOLEAN : ServerAnswers(f[1], f[2], success)
         \/ ServerRestarts
    BY DEF Next, Connect, Accept, Open, ConnectTimeout, ServerFetches, ServerClosed, Disconnect,
           FetchData, RequestTimeout, vars, linkVars
  <1>. QED BY <1>4, <1>5, <1>6, <1>7, <1>8, <1>9, <1>10

LEMMA MatchesStep ==
  ASSUME IInv, [Next]_vars, NEW r \in Requests
  PROVE  Matches(r)
  <1>1. ASSUME outcome[r] = "waiting", Arrives(r) PROVE outcome'[r] = "answered"
    <2>1. PICK c \in Sockets : /\ clientSide[c] = "open" /\ toClient[c] # <<>>
                               /\ Head(toClient[c]).request = r
                               /\ toClient'[c] = Tail(toClient[c])
                               /\ UNCHANGED <<broken, clientSide>>
      BY <1>1 DEF Arrives
    <2>2. ClientReceives(c)
      BY <2>1, ArrivalIsReceived
    <2>3. /\ pendingRequests[r] = r /\ None \notin Int /\ r \in Int
          /\ outcome \in [Requests -> {"unmade", "waiting", "answered", "timeout", "thrown"}]
      BY <1>1, WsAssumption DEF IInv, Waits, TypeOK, Requests
    <2>4. \/ outcome' = [outcome EXCEPT ![r] = IF @ = "waiting" THEN "answered" ELSE @]
          \/ pendingRequests[r] = None
      BY <2>1, <2>2, ReceiveEffect
    <2>. QED BY <1>1, <2>3, <2>4
  <1>2. ASSUME outcome[r] # outcome'[r], outcome'[r] = "answered" PROVE Arrives(r)
    <2>1. outcome \in [Requests -> {"unmade", "waiting", "answered", "timeout", "thrown"}]
      BY DEF IInv, TypeOK
    <2>2. ~\E q \in Requests : FetchData(q) \/ RequestTimeout(q)
      BY <1>2, <2>1 DEF FetchData, RequestTimeout
    <2>3. PICK c \in Sockets : ClientReceives(c)
      BY <1>2, <2>2 DEF Next, Connect, Accept, Open, ConnectTimeout, ClientClosed, Break,
            ServerFetches, ServerClosed, Disconnect, ServerAnswers, ServerRestarts, vars,
            requestVars
    <2>4. Head(toClient[c]).request = r
      BY <1>2, <2>1, <2>3, ReceiveEffect
    <2>5. toClient \in [Sockets -> Seq(Messages)]
      BY DEF IInv, TypeOK
    <2>. QED BY <2>3, <2>4, <2>5 DEF Arrives, ClientReceives
  <1>. QED BY <1>1, <1>2 DEF Matches

\* An answer settles the request it answers and no other, whatever sockets opened,
\* closed or broke meanwhile (ws-client.ts:116-138).
THEOREM AnswersMatchCorrect == Spec => AnswersMatch
  <1>1. IInv /\ [Next]_vars => [\A r \in Requests : Matches(r)]_vars
    BY MatchesStep
  <1>. QED BY <1>1, WsInvariant, PTL DEF Spec, AnswersMatch, Matches
=============================================================================
