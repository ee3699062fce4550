------------------------------ MODULE WsChannel -----------------------------
(***************************************************************************)
(* The WebSocket channel of a node: client/ws-client.ts in the browser, the *)
(* connection handler of server/monitor-server.ts and the request logs it   *)
(* subscribes to (server/rpc-server.ts).  The client numbers its requests   *)
(* and matches answers by that number.  It keeps one current socket, but    *)
(* the handlers of earlier sockets stay: a socket that opens late or closes *)
(* late changes the state of the client as the current one does.            *)
(*                                                                          *)
(* A step is a callback of the browser's or the server's event loop, a call *)
(* of the client's public methods, or an event of the network.              *)
(***************************************************************************)
EXTENDS Integers, Sequences, FiniteSets

CONSTANTS
    MaxSockets,     (* bound: sockets made in a behaviour                    *)
    MaxRequests,    (* bound: requests made in a behaviour                   *)
    MaxLogs,        (* maxLogs: request logs kept                            *)
    MaxErrorLogs,   (* maxErrorLogs: error logs kept                         *)
    None

Sockets == 1 .. MaxSockets
Requests == 1 .. MaxRequests

ASSUME WsAssumption ==
    /\ MaxSockets \in Nat
    /\ MaxRequests \in Nat
    /\ MaxLogs \in Nat
    /\ MaxErrorLogs \in Nat
    /\ None \notin Int

VARIABLES
    \* WsClient
    ws,             (* this.ws                                               *)
    connected,      (* what fetchData and isConnected look at                *)
    connecting,     (* socket -> its connect()'s promise                     *)
    timing,         (* sockets whose connect() waits with its 10 s timer     *)
    messageId,      (* the number of the last request                        *)
    id,             (* request -> its number, once it is made                *)
    pendingRequests,(* number -> the request that waits under it, or None    *)
    timers,         (* requests whose timer is running                       *)
    outcome,        (* request -> what became of its promise                 *)
    \* the connections
    clientSide,     (* socket -> readyState in the browser                   *)
    serverSide,     (* socket -> readyState at the server                    *)
    broken,         (* sockets whose connection the network has dropped      *)
    toServer,       (* socket -> requests sent, oldest first                 *)
    toClient,       (* socket -> answers sent, oldest first                  *)
    \* MonitorServer and RpcServer
    listeners,      (* event -> the sockets that listen to it                *)
    fetching,       (* requests being fetched, with the socket of each       *)
    requestLogs,    (* the latest logs, newest first: request and success    *)
    errorLogs       (* the latest logs of failures, newest first             *)

clientVars == <<ws, connected, connecting, timing>>
requestVars == <<messageId, id, pendingRequests, timers, outcome>>
linkVars == <<clientSide, serverSide, broken, toServer, toClient>>
serverVars == <<listeners, fetching, requestLogs, errorLogs>>
vars == <<clientVars, requestVars, linkVars, serverVars>>

Events == {"requestLog", "errorLog"}
Logs == [request : Requests, success : BOOLEAN]

\* A request on its way is its number and, for the model, which request it is.
Messages == [id : 1 .. MaxRequests, request : Requests]

TypeOK ==
    /\ ws \in Sockets \cup {None}
    /\ connected \in BOOLEAN
    /\ connecting \in [Sockets -> {"none", "pending", "resolved", "rejected"}]
    /\ timing \subseteq Sockets
    /\ messageId \in 0 .. MaxRequests
    /\ id \in [Requests -> 0 .. MaxRequests]
    /\ pendingRequests \in [1 .. MaxRequests -> Requests \cup {None}]
    /\ timers \subseteq Requests
    /\ outcome \in [Requests -> {"unmade", "waiting", "answered", "timeout", "thrown"}]
    /\ clientSide \in [Sockets -> {"none", "opening", "open", "closing", "closed"}]
    /\ serverSide \in [Sockets -> {"none", "open", "closed"}]
    /\ broken \subseteq Sockets
    /\ toServer \in [Sockets -> Seq(Messages)]
    /\ toClient \in [Sockets -> Seq(Messages)]
    /\ listeners \in [Events -> SUBSET Sockets]
    /\ fetching \subseteq Messages \X Sockets
    /\ requestLogs \in Seq(Logs) /\ Len(requestLogs) <= MaxLogs
    /\ errorLogs \in Seq(Logs) /\ Len(errorLogs) <= MaxErrorLogs

Init ==
    /\ ws = None
    /\ connected = FALSE
    /\ connecting = [c \in Sockets |-> "none"]
    /\ timing = {}
    /\ messageId = 0
    /\ id = [r \in Requests |-> 0]
    /\ pendingRequests = [i \in 1 .. MaxRequests |-> None]
    /\ timers = {}
    /\ outcome = [r \in Requests |-> "unmade"]
    /\ clientSide = [c \in Sockets |-> "none"]
    /\ serverSide = [c \in Sockets |-> "none"]
    /\ broken = {}
    /\ toServer = [c \in Sockets |-> <<>>]
    /\ toClient = [c \in Sockets |-> <<>>]
    /\ listeners = [e \in Events |-> {}]
    /\ fetching = {}
    /\ requestLogs = <<>>
    /\ errorLogs = <<>>

-----------------------------------------------------------------------------
\* A promise settles once, and a timer that finds it settled does nothing: it is
\* left out.
Settle(c, result) ==
    /\ connecting' = [connecting EXCEPT ![c] = IF @ = "pending" THEN result ELSE @]
    /\ timing' = timing \ {c}

\* Mutation of Connect: the requests of each connection are numbered anew.
ConnectRenumbers(c) ==
    /\ clientSide[c] = "none"
    /\ \A d \in Sockets : d < c => clientSide[d] # "none"
    /\ \A d \in Sockets : connecting[d] # "pending"
    /\ ws' = c
    /\ messageId' = 0
    /\ connecting' = [connecting EXCEPT ![c] = "pending"]
    /\ timing' = timing \cup {c}
    /\ clientSide' = [clientSide EXCEPT ![c] = "opening"]
    /\ UNCHANGED <<connected, id, pendingRequests, timers, outcome, serverSide, broken,
                   toServer, toClient, serverVars>>

\* connect(), by a user who awaits the last one: it may have failed by its timer
\* with a socket that still opens, and the last socket may still be open.
Connect(c) ==
    /\ clientSide[c] = "none"
    /\ \A d \in Sockets : d < c => clientSide[d] # "none"
    /\ \A d \in Sockets : connecting[d] # "pending"
    /\ ws' = c
    /\ connecting' = [connecting EXCEPT ![c] = "pending"]
    /\ timing' = timing \cup {c}
    /\ clientSide' = [clientSide EXCEPT ![c] = "opening"]
    /\ UNCHANGED <<connected, requestVars, serverSide, broken, toServer, toClient,
                   serverVars>>

\* The server's 'connection' handler: it subscribes to both logs.
Accept(c) ==
    /\ clientSide[c] = "opening"
    /\ serverSide[c] = "none"
    /\ c \notin broken
    /\ serverSide' = [serverSide EXCEPT ![c] = "open"]
    /\ listeners' = [e \in Events |-> listeners[e] \cup {c}]
    /\ UNCHANGED <<clientVars, requestVars, clientSide, broken, toServer, toClient,
                   fetching, requestLogs, errorLogs>>

\* onopen, of whichever socket.
Open(c) ==
    /\ clientSide[c] = "opening"
    /\ serverSide[c] = "open"
    /\ c \notin broken
    /\ clientSide' = [clientSide EXCEPT ![c] = "open"]
    /\ connected' = TRUE
    /\ Settle(c, "resolved")
    /\ UNCHANGED <<ws, requestVars, serverSide, broken, toServer, toClient,
                   serverVars>>

\* The 10 s timer of a connect(), which looks at the client, not at its socket.
ConnectTimeout(c) ==
    /\ c \in timing
    /\ \/ ~connected /\ Settle(c, "rejected")
       \/ connected /\ timing' = timing \ {c} /\ UNCHANGED connecting
    /\ UNCHANGED <<ws, connected, requestVars, linkVars, serverVars>>

\* disconnect(): a socket that is still opening is given up.
Disconnect ==
    /\ ws # None
    /\ clientSide' = [clientSide EXCEPT ![ws] =
                        IF @ \in {"opening", "open"} THEN "closing" ELSE @]
    /\ broken' = IF clientSide[ws] = "opening" THEN broken \cup {ws} ELSE broken
    /\ ws' = None
    /\ connected' = FALSE
    /\ UNCHANGED <<connecting, timing, requestVars, serverSide, toServer, toClient,
                   serverVars>>

Lost(c) == c \in broken \/ (clientSide[c] = "closing" /\ serverSide[c] = "closed")

\* Mutation of ClientClosed: an error is reported, but the promise is not.
ErrorKeepsPromise(c) ==
    /\ clientSide[c] \in {"opening", "open", "closing"}
    /\ Lost(c)
    /\ clientSide' = [clientSide EXCEPT ![c] = "closed"]
    /\ toClient' = [toClient EXCEPT ![c] = <<>>]
    /\ connected' = FALSE
    /\ UNCHANGED <<ws, connecting, timing, requestVars, serverSide, broken, toServer, serverVars>>

\* Mutation of ClientClosed: only the current socket's end counts.
OnlyCurrentCloses(c) ==
    /\ clientSide[c] \in {"opening", "open", "closing"}
    /\ Lost(c)
    /\ clientSide' = [clientSide EXCEPT ![c] = "closed"]
    /\ toClient' = [toClient EXCEPT ![c] = <<>>]
    /\ connected' = (connected /\ c # ws)
    /\ IF c \in broken THEN Settle(c, "rejected") ELSE UNCHANGED <<connecting, timing>>
    /\ UNCHANGED <<ws, requestVars, serverSide, broken, toServer,
                   serverVars>>

\* onclose, of whichever socket; onerror before it when the connection failed.
ClientClosed(c) ==
    /\ clientSide[c] \in {"opening", "open", "closing"}
    /\ Lost(c)
    /\ clientSide' = [clientSide EXCEPT ![c] = "closed"]
    /\ toClient' = [toClient EXCEPT ![c] = <<>>]
    /\ connected' = FALSE
    /\ IF c \in broken THEN Settle(c, "rejected") ELSE UNCHANGED <<connecting, timing>>
    /\ UNCHANGED <<ws, requestVars, serverSide, broken, toServer,
                   serverVars>>

-----------------------------------------------------------------------------
\* fetchData: send() on a socket that is still opening throws, after the entry
\* was made and the timer set; on one that is closing it does nothing.
FetchData(r) ==
    /\ outcome[r] = "unmade"
    /\ \A q \in Requests : q < r => outcome[q] # "unmade"
    /\ connected
    /\ ws # None
    /\ messageId' = messageId + 1
    /\ id' = [id EXCEPT ![r] = messageId']
    /\ pendingRequests' = [pendingRequests EXCEPT ![messageId'] = r]
    /\ timers' = timers \cup {r}
    /\ outcome' = [outcome EXCEPT ![r] =
                     IF clientSide[ws] = "opening" THEN "thrown" ELSE "waiting"]
    /\ toServer' = IF clientSide[ws] = "open" /\ ws \notin broken
                   THEN [toServer EXCEPT ![ws] = Append(@, [id |-> messageId', request |-> r])]
                   ELSE toServer
    /\ UNCHANGED <<clientVars, clientSide, serverSide, broken, toClient, serverVars>>

\* Mutation of RequestTimeout: the entry stays.
TimeoutKeepsEntry(r) ==
    /\ r \in timers
    /\ timers' = timers \ {r}
    /\ outcome' = [outcome EXCEPT ![r] = IF @ = "waiting" THEN "timeout" ELSE @]
    /\ UNCHANGED <<clientVars, messageId, id, pendingRequests, linkVars, serverVars>>

\* The timer of a request deletes its entry; a settled promise stays settled.
RequestTimeout(r) ==
    /\ r \in timers
    /\ timers' = timers \ {r}
    /\ pendingRequests' = [pendingRequests EXCEPT ![id[r]] = None]
    /\ outcome' = [outcome EXCEPT ![r] = IF @ = "waiting" THEN "timeout" ELSE @]
    /\ UNCHANGED <<clientVars, messageId, id, linkVars, serverVars>>

\* handleMessage: an answer, or an error, settles what waits under its number.
\* A browser hands on no message of a socket that is closing.
ClientReceives(c) ==
    /\ clientSide[c] = "open"
    /\ toClient[c] # <<>>
    /\ toClient' = [toClient EXCEPT ![c] = Tail(@)]
    /\ LET pending == pendingRequests[Head(toClient[c]).id]
       IN  \/ /\ pending # None
              /\ pendingRequests' = [pendingRequests EXCEPT ![Head(toClient[c]).id] = None]
              /\ timers' = timers \ {pending}
              /\ outcome' = [outcome EXCEPT ![pending] =
                               IF @ = "waiting" THEN "answered" ELSE @]
           \/ pending = None /\ UNCHANGED <<pendingRequests, timers, outcome>>
    /\ UNCHANGED <<clientVars, messageId, id, clientSide, serverSide, broken, toServer,
                   serverVars>>

-----------------------------------------------------------------------------
\* The network drops a connection with what is under way on it; each end notices
\* on its own.
Break(c) ==
    /\ clientSide[c] \in {"opening", "open", "closing"}
    /\ ~Lost(c)
    /\ broken' = broken \cup {c}
    /\ toServer' = [toServer EXCEPT ![c] = <<>>]
    /\ toClient' = [toClient EXCEPT ![c] = <<>>]
    /\ UNCHANGED <<clientVars, requestVars, clientSide, serverSide, serverVars>>

\* The 'message' handler, up to its await.
ServerFetches(c) ==
    /\ serverSide[c] = "open"
    /\ toServer[c] # <<>>
    /\ toServer' = [toServer EXCEPT ![c] = Tail(@)]
    /\ fetching' = fetching \cup {<<Head(toServer[c]), c>>}
    /\ UNCHANGED <<clientVars, requestVars, clientSide, serverSide, broken, toClient,
                   listeners, requestLogs, errorLogs>>

\* Mutation of Logged: the oldest is never popped.
KeepOldest(logs, log, limit) == <<log>> \o logs

\* unshift, and pop of the oldest above the limit.
Logged(logs, log, limit) == SubSeq(<<log>> \o logs, 1, IF Len(logs) < limit THEN Len(logs) + 1 ELSE limit)

\* Mutation of Record: a full list of errors takes no more.
RecordUntilFull(log) ==
    /\ requestLogs' = Logged(requestLogs, log, MaxLogs)
    /\ errorLogs' = IF log.success \/ Len(errorLogs) = MaxErrorLogs THEN errorLogs
                    ELSE Logged(errorLogs, log, MaxErrorLogs)

\* The listener of the fetcher's 'request' event: failures are logged twice.
Record(log) ==
    /\ requestLogs' = Logged(requestLogs, log, MaxLogs)
    /\ errorLogs' = IF log.success THEN errorLogs
                    ELSE Logged(errorLogs, log, MaxErrorLogs)

\* The end of a fetch: it is logged, and the answer is sent on the connection
\* it came from, or dropped when that is gone.
ServerAnswers(m, c, success) ==
    /\ <<m, c>> \in fetching
    /\ fetching' = fetching \ {<<m, c>>}
    /\ Record([request |-> m.request, success |-> success])
    /\ toClient' = IF serverSide[c] = "open" /\ c \notin broken
                   THEN [toClient EXCEPT ![c] = Append(@, m)] ELSE toClient
    /\ UNCHANGED <<clientVars, requestVars, clientSide, serverSide, broken, toServer,
                   listeners>>

\* 'close' at the server: its listeners go, the fetches go on.
ServerClosed(c) ==
    /\ serverSide[c] = "open"
    /\ c \in broken \/ (clientSide[c] = "closing" /\ toServer[c] = <<>>)
    /\ serverSide' = [serverSide EXCEPT ![c] = "closed"]
    /\ listeners' = [e \in Events |-> listeners[e] \ {c}]
    /\ UNCHANGED <<clientVars, requestVars, clientSide, broken, toServer, toClient,
                   fetching, requestLogs, errorLogs>>

\* The node restarts: logs, listeners and fetches are gone, the connections break.
ServerRestarts ==
    /\ broken' = broken \cup {c \in Sockets : serverSide[c] = "open"}
    /\ toServer' = [c \in Sockets |-> <<>>]
    /\ toClient' = [c \in Sockets |-> <<>>]
    /\ serverSide' = [c \in Sockets |->
                        IF serverSide[c] = "open" THEN "closed" ELSE serverSide[c]]
    /\ listeners' = [e \in Events |-> {}]
    /\ fetching' = {}
    /\ requestLogs' = <<>>
    /\ errorLogs' = <<>>
    /\ UNCHANGED <<clientVars, requestVars, clientSide>>

-----------------------------------------------------------------------------
Next ==
    \/ \E c \in Sockets :
         \/ Connect(c) \/ Accept(c) \/ Open(c) \/ ConnectTimeout(c) \/ ClientClosed(c)
         \/ ClientReceives(c) \/ Break(c) \/ ServerFetches(c) \/ ServerClosed(c)
    \/ Disconnect
    \/ \E r \in Requests : FetchData(r) \/ RequestTimeout(r)
    \/ \E f \in fetching, success \in BOOLEAN : ServerAnswers(f[1], f[2], success)
    \/ ServerRestarts

\* Timers fire, and the browser reports how an attempt to connect ended.
Fairness ==
    /\ \A r \in Requests : WF_vars(RequestTimeout(r))
    /\ \A c \in Sockets : WF_vars(ConnectTimeout(c)) /\ WF_vars(Accept(c) \/ Open(c) \/ ClientClosed(c))

Spec == Init /\ [][Next]_vars /\ Fairness

-----------------------------------------------------------------------------
\* A number stands for one request for ever: what waits under it is an unsettled
\* request of that number with its timer running, or one whose send() threw, on
\* whichever socket it was sent (ws-client.ts:92-95, 120-138).
PendingHasTimer ==
    \A i \in DOMAIN pendingRequests :
        LET r == pendingRequests[i]
        IN  r # None => id[r] = i /\ r \in timers /\ outcome[r] \in {"waiting", "thrown"}

\* What each end believes of its connections is so.  A client that calls itself
\* connected has an open socket, though perhaps not the current one: sockets that
\* open or close late do not make it report a connection that is not there.  The
\* server listens to its logs for its open connections and leaves no listener
\* behind (ws-client.ts:47-64, 159-164; monitor-server.ts:129-140, 205-210).
EndsAgree ==
    /\ connected => \E c \in Sockets : clientSide[c] = "open"
    /\ \A e \in Events : listeners[e] = {c \in Sockets : serverSide[c] = "open"}

\* The failures among the latest i request logs.
Failures(i) == {j \in 1 .. i : ~requestLogs[j].success}

\* The two bounded logs tell one story: the failures in the request log and the
\* error log, newest first, agree as far as both reach: the k-th failure of the
\* one is the k-th entry of the other (rpc-server.ts:94-112).
LogsAgree ==
    \A i \in DOMAIN requestLogs :
        LET k == Cardinality(Failures(i))
        IN  ~requestLogs[i].success /\ k <= Len(errorLogs) => errorLogs[k] = requestLogs[i]

\* An answer settles the request it answers and no other, however often the
\* client has reconnected since and whatever else waits (ws-client.ts:116-138).
Arrives(r) ==
    \E c \in Sockets : /\ clientSide[c] = "open" /\ toClient[c] # <<>>
                       /\ Head(toClient[c]).request = r
                       /\ toClient'[c] = Tail(toClient[c])
                       /\ UNCHANGED <<broken, clientSide>>

AnswersMatch ==
    [][\A r \in Requests :
         /\ outcome[r] = "waiting" /\ Arrives(r) => outcome'[r] = "answered"
         /\ outcome[r] # outcome'[r] /\ outcome'[r] = "answered" => Arrives(r)
      ]_vars

\* Every call settles: fetchData by its timer if by nothing else, connect by the
\* end of its socket where its timer looks away, because another socket connects.
EveryCallSettles ==
    /\ \A r \in Requests : outcome[r] = "waiting" ~> outcome[r] # "waiting"
    /\ \A c \in Sockets : connecting[c] = "pending" ~> connecting[c] # "pending"
=============================================================================
