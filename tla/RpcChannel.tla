----------------------------- MODULE RpcChannel -----------------------------
(***************************************************************************)
(* The RPC channel of a node: client/rpc-client.ts, server/rpc-server.ts   *)
(* and the TCP connections between them.  A client may connect at any time,*)
(* and again before the last connection was made or is gone; it shakes     *)
(* hands when one is made, and matches answers to requests by URI.  The    *)
(* server answers the requests of a connection in any order: it starts a   *)
(* fetch for each and waits for none.                                      *)
(*                                                                         *)
(* A step is a callback of the client's or the server's event loop, a call *)
(* of the client's public methods, or an event of the network.             *)
(***************************************************************************)
EXTENDS Integers, Sequences, FiniteSets

CONSTANTS
    Uris,
    MaxConnections,     (* bound: connections made in a behaviour            *)
    MaxRequests,        (* bound: requests made in a behaviour               *)
    Handshake,          (* the frame of a handshake, or of its answer        *)
    Garbage,            (* bytes that are no frame any more                  *)
    None

Connections == 1 .. MaxConnections
Requests == 1 .. MaxRequests

ASSUME ChannelAssumption ==
    /\ MaxConnections \in Nat
    /\ MaxRequests \in Nat
    /\ {Handshake, Garbage, None} \cap (Connections \cup Requests) = {}
    /\ Cardinality({Handshake, Garbage, None}) = 3

VARIABLES
    \* RpcClient
    socket,         (* this.socket                                           *)
    connected,      (* what fetchData asks before it sends                   *)
    handlers,       (* connections with a listener for 'handshake'           *)
    connecting,     (* connection -> its connect()'s promise                 *)
    buffer,         (* bytes received and not handled: of a frame cut short  *)
    pendingRequests,(* uri -> the request that waits for its answer, or None *)
    requestCount,   (* requests made so far; a request is its number         *)
    uri,            (* request -> its URI                                    *)
    outcome,        (* request -> what became of its promise                 *)
    \* the connections
    clientSide,     (* connection -> the client's socket                     *)
    serverSide,     (* connection -> the server's socket                     *)
    broken,         (* connections the network has dropped                   *)
    toServer,       (* connection -> frames sent by the client, oldest first *)
    toClient,       (* connection -> frames sent by the server, oldest first *)
    \* RpcServer
    clients,        (* the sessions: a client ID and a socket for each       *)
    nextClientID,
    fetching        (* requests being fetched, with the connection of each   *)

clientVars == <<socket, connected, handlers, connecting, buffer>>
requestVars == <<pendingRequests, requestCount, uri, outcome>>
linkVars == <<clientSide, serverSide, broken, toServer, toClient>>
serverVars == <<clients, nextClientID, fetching>>
vars == <<clientVars, requestVars, linkVars, serverVars>>

\* The client's frames are a handshake or a request, the server's a welcome or
\* the answer to a request.  IDs in frames and sessions are only displayed.
Frames == {Handshake} \cup Requests

\* What is left of a torn frame, or of the ones cut in the wrong places after it.
Buffers == {None, Garbage} \cup Frames

\* A socket that is ended while it opens ("leaving") is made and then ended.
ClientSides == {"none", "opening", "leaving", "open", "ended", "closed"}

Session == [id : Nat \ {0}, socket : Connections]

TypeOK ==
    /\ socket \in Connections \cup {None}
    /\ connected \in BOOLEAN
    /\ handlers \subseteq Connections
    /\ connecting \in [Connections -> {"none", "pending", "resolved", "rejected"}]
    /\ buffer \in Buffers
    /\ pendingRequests \in [Uris -> Requests \cup {None}]
    /\ requestCount \in 0 .. MaxRequests
    /\ uri \in [Requests -> Uris \cup {None}]
    /\ outcome \in [Requests -> {"unmade", "waiting", "resolved", "timeout"}]
    /\ clientSide \in [Connections -> ClientSides]
    /\ serverSide \in [Connections -> {"none", "open", "closed"}]
    /\ broken \subseteq Connections
    /\ toServer \in [Connections -> Seq(Frames)]
    /\ toClient \in [Connections -> Seq(Frames)]
    /\ clients \subseteq Session
    /\ nextClientID \in Nat \ {0}
    /\ fetching \subseteq Requests \X Connections

Init ==
    /\ socket = None
    /\ connected = FALSE
    /\ handlers = {}
    /\ connecting = [c \in Connections |-> "none"]
    /\ buffer = None
    /\ pendingRequests = [u \in Uris |-> None]
    /\ requestCount = 0
    /\ uri = [r \in Requests |-> None]
    /\ outcome = [r \in Requests |-> "unmade"]
    /\ clientSide = [c \in Connections |-> "none"]
    /\ serverSide = [c \in Connections |-> "none"]
    /\ broken = {}
    /\ toServer = [c \in Connections |-> <<>>]
    /\ toClient = [c \in Connections |-> <<>>]
    /\ clients = {}
    /\ nextClientID = 1
    /\ fetching = {}

-----------------------------------------------------------------------------
Opening == {"opening", "leaving"}
Alive == Opening \cup {"open", "ended"}

\* sendFrame of the client: a frame for a socket that is gone is dropped, one
\* for a socket that is still opening waits for it.
ClientSends(frame) ==
    toServer' = IF socket = None \/ clientSide[socket] = "closed" \/ socket \in broken
                THEN toServer
                ELSE [toServer EXCEPT ![socket] = Append(@, frame)]

\* sendFrame of the server, for the connection a handler was called with.
ServerSends(c, frame) ==
    toClient' = IF serverSide[c] = "closed" \/ c \in broken THEN toClient
                ELSE [toClient EXCEPT ![c] = Append(@, frame)]

\* connect(): whatever became of the socket before, it is left as it is, and so
\* are its listeners.  Connections are numbered in the order they are begun.
Connect(c) ==
    /\ clientSide[c] = "none"
    /\ \A d \in Connections : d < c => clientSide[d] # "none"
    /\ socket' = c
    /\ connecting' = [connecting EXCEPT ![c] = "pending"]
    /\ clientSide' = [clientSide EXCEPT ![c] = "opening"]
    /\ UNCHANGED <<connected, handlers, buffer, requestVars, serverSide, broken,
                   toServer, toClient, serverVars>>

\* The connection is made: the server accepts it, and the client shakes hands on
\* the socket it has by now, this one or a later one.
Establish(c) ==
    /\ clientSide[c] \in Opening
    /\ c \notin broken
    /\ clientSide' = [clientSide EXCEPT ![c] = IF @ = "leaving" THEN "ended" ELSE "open"]
    /\ serverSide' = [serverSide EXCEPT ![c] = "open"]
    /\ handlers' = handlers \cup {c}
    /\ ClientSends(Handshake)
    /\ UNCHANGED <<socket, connected, connecting, buffer, requestVars, broken,
                   toClient, serverVars>>

\* 15 s without a welcome.  The listener stays.
HandshakeTimeout(c) ==
    /\ c \in handlers
    /\ connecting[c] = "pending"
    /\ connecting' = [connecting EXCEPT ![c] = "rejected"]
    /\ UNCHANGED <<socket, connected, handlers, buffer, requestVars, linkVars, serverVars>>

\* disconnect()
Disconnect ==
    /\ socket # None
    /\ clientSide' = [clientSide EXCEPT ![socket] =
                        CASE @ = "open" -> "ended"
                          [] @ = "opening" -> "leaving"
                          [] OTHER -> @]
    /\ socket' = None
    /\ connected' = FALSE
    /\ UNCHANGED <<handlers, connecting, buffer, requestVars, serverSide, broken,
                   toServer, toClient, serverVars>>

\* 'close', whether or not the socket is still the client's; an 'error' before
\* it rejects the promise.
ClientClosed(c) ==
    /\ clientSide[c] \in Alive
    /\ c \in broken \/ (serverSide[c] = "closed" /\ toClient[c] = <<>>)
    /\ clientSide' = [clientSide EXCEPT ![c] = "closed"]
    /\ connected' = FALSE
    /\ connecting' = [connecting EXCEPT ![c] =
                        IF @ = "pending" /\ c \in broken THEN "rejected" ELSE @]
    /\ UNCHANGED <<socket, handlers, buffer, requestVars, serverSide, broken,
                   toServer, toClient, serverVars>>

-----------------------------------------------------------------------------
\* fetchData(u): a second request for a URI takes the place of the first.
FetchData(r, u) ==
    /\ requestCount < MaxRequests
    /\ r = requestCount + 1
    /\ connected
    /\ requestCount' = r
    /\ uri' = [uri EXCEPT ![r] = u]
    /\ outcome' = [outcome EXCEPT ![r] = "waiting"]
    /\ pendingRequests' = [pendingRequests EXCEPT ![u] = r]
    /\ ClientSends(r)
    /\ UNCHANGED <<clientVars, clientSide, serverSide, broken, toClient, serverVars>>

\* Mutation of RequestTimeout: the entry stays.
TimeoutKeepsEntry(r) ==
    /\ outcome[r] = "waiting"
    /\ outcome' = [outcome EXCEPT ![r] = "timeout"]
    /\ UNCHANGED <<clientVars, pendingRequests, requestCount, uri, linkVars, serverVars>>

\* Mutation of RequestTimeout: only a request that has an entry times out.
TimeoutByEntry(r) ==
    /\ outcome[r] = "waiting"
    /\ pendingRequests[uri[r]] = r
    /\ pendingRequests' = [pendingRequests EXCEPT ![uri[r]] = None]
    /\ outcome' = [outcome EXCEPT ![r] = "timeout"]
    /\ UNCHANGED <<clientVars, requestCount, uri, linkVars, serverVars>>

\* The timer of a request: it deletes whatever waits for its URI.
RequestTimeout(r) ==
    /\ outcome[r] = "waiting"
    /\ pendingRequests' = [pendingRequests EXCEPT ![uri[r]] = None]
    /\ outcome' = [outcome EXCEPT ![r] = "timeout"]
    /\ UNCHANGED <<clientVars, requestCount, uri, linkVars, serverVars>>

\* 'handshake' is emitted: every listener runs, once.
HandleWelcome ==
    /\ handlers' = {}
    /\ connected' = (connected \/ handlers # {})
    /\ connecting' = [c \in Connections |->
                        IF c \in handlers /\ connecting[c] = "pending" THEN "resolved"
                        ELSE connecting[c]]
    /\ UNCHANGED <<pendingRequests, outcome>>

HandleDataResponse(r) ==
    LET pending == pendingRequests[uri[r]]
    IN  /\ \/ /\ pending # None
              /\ pendingRequests' = [pendingRequests EXCEPT ![uri[r]] = None]
              /\ outcome' = [outcome EXCEPT ![pending] = "resolved"]
           \/ /\ pending = None
              /\ UNCHANGED <<pendingRequests, outcome>>
        /\ UNCHANGED <<connected, handlers, connecting>>

HandleFrame(frame) ==
    \/ frame = Handshake /\ HandleWelcome
    \/ frame # Handshake /\ HandleDataResponse(frame)

IgnoreFrame == UNCHANGED <<connected, handlers, connecting, pendingRequests, outcome>>

CanReceive(c) == clientSide[c] \in {"open", "ended"} /\ toClient[c] # <<>>

\* A frame arrives whole.  Behind a frame another connection left unfinished it
\* completes that one with its own bytes, or not yet, and is lost itself.
ClientReceives(c) ==
    /\ CanReceive(c)
    /\ toClient' = [toClient EXCEPT ![c] = Tail(@)]
    /\ \/ /\ buffer = None
          /\ HandleFrame(Head(toClient[c]))
          /\ UNCHANGED buffer
       \/ /\ buffer \in Frames
          /\ HandleFrame(buffer) \/ IgnoreFrame
          /\ buffer' = Garbage
       \/ /\ buffer = Garbage
          /\ IgnoreFrame
          /\ UNCHANGED buffer
    /\ UNCHANGED <<socket, requestCount, uri, clientSide, serverSide, broken,
                   toServer, serverVars>>

\* A frame of one socket arrives between two parts of another's: all sockets
\* share the buffer.
ClientMixes(c, d) ==
    /\ c # d
    /\ CanReceive(c) /\ CanReceive(d)
    /\ buffer = None
    /\ toClient' = [toClient EXCEPT ![c] = Tail(@), ![d] = Tail(@)]
    /\ HandleFrame(Head(toClient[c])) \/ IgnoreFrame
    /\ buffer' = Garbage
    /\ UNCHANGED <<socket, requestCount, uri, clientSide, serverSide, broken,
                   toServer, serverVars>>

-----------------------------------------------------------------------------
\* The network drops a connection with what is under way on it; the client may
\* have received a part of the next frame.
Break(c) ==
    /\ c \notin broken
    /\ clientSide[c] \in Alive
    /\ broken' = broken \cup {c}
    /\ toServer' = [toServer EXCEPT ![c] = <<>>]
    /\ toClient' = [toClient EXCEPT ![c] = <<>>]
    /\ \/ UNCHANGED buffer
       \/ /\ buffer = None
          /\ toClient[c] # <<>>
          /\ buffer' = Head(toClient[c])
    /\ UNCHANGED <<socket, connected, handlers, connecting, requestVars,
                   clientSide, serverSide, serverVars>>

\* handleHandshake
ServerWelcomes(c) ==
    /\ serverSide[c] = "open"
    /\ toServer[c] # <<>>
    /\ Head(toServer[c]) = Handshake
    /\ toServer' = [toServer EXCEPT ![c] = Tail(@)]
    /\ clients' = clients \cup {[id |-> nextClientID, socket |-> c]}
    /\ nextClientID' = nextClientID + 1
    /\ ServerSends(c, Handshake)
    /\ UNCHANGED <<clientVars, requestVars, clientSide, serverSide, broken, fetching>>

\* handleDataRequest, up to its await.
ServerFetches(c) ==
    /\ serverSide[c] = "open"
    /\ toServer[c] # <<>>
    /\ Head(toServer[c]) # Handshake
    /\ toServer' = [toServer EXCEPT ![c] = Tail(@)]
    /\ fetching' = fetching \cup {<<Head(toServer[c]), c>>}
    /\ UNCHANGED <<clientVars, requestVars, clientSide, serverSide, broken,
                   toClient, clients, nextClientID>>

\* Mutation of ServerAnswers: an answer, and the error's answer after it.
AnswersAgain(r, c) ==
    /\ <<r, c>> \in fetching
    /\ ServerSends(c, r)
    /\ UNCHANGED <<clientVars, requestVars, clientSide, serverSide, broken,
                   toServer, serverVars>>

\* handleDataRequest, after it: an answer, with whatever status.
ServerAnswers(r, c) ==
    /\ <<r, c>> \in fetching
    /\ fetching' = fetching \ {<<r, c>>}
    /\ ServerSends(c, r)
    /\ UNCHANGED <<clientVars, requestVars, clientSide, serverSide, broken,
                   toServer, clients, nextClientID>>

\* Mutation of ServerClosed: the session stays in the table.
SessionStays(c) ==
    /\ serverSide[c] = "open"
    /\ c \in broken \/ (clientSide[c] = "ended" /\ toServer[c] = <<>>)
    /\ serverSide' = [serverSide EXCEPT ![c] = "closed"]
    /\ UNCHANGED <<clientVars, requestVars, clientSide, broken, toServer,
                   toClient, serverVars>>

SessionsOf(c) == {s \in clients : s.socket = c}

\* 'close': the first session of the socket is removed, and no other.
ServerClosed(c) ==
    /\ serverSide[c] = "open"
    /\ c \in broken \/ (clientSide[c] = "ended" /\ toServer[c] = <<>>)
    /\ serverSide' = [serverSide EXCEPT ![c] = "closed"]
    /\ clients' = clients \ {s \in SessionsOf(c) : \A t \in SessionsOf(c) : s.id <= t.id}
    /\ UNCHANGED <<clientVars, requestVars, clientSide, broken, toServer,
                   toClient, nextClientID, fetching>>

\* The node restarts (a deployment, pm2): the sessions and the fetches are gone,
\* and so is every connection.
ServerRestarts ==
    /\ broken' = broken \cup {c \in Connections : clientSide[c] \in Alive}
    /\ toServer' = [c \in Connections |-> <<>>]
    /\ toClient' = [c \in Connections |-> <<>>]
    /\ serverSide' = [c \in Connections |->
                        IF serverSide[c] = "open" THEN "closed" ELSE serverSide[c]]
    /\ clients' = {}
    /\ nextClientID' = 1
    /\ fetching' = {}
    /\ UNCHANGED <<clientVars, requestVars, clientSide>>

-----------------------------------------------------------------------------
Next ==
    \/ \E c \in Connections :
         \/ Connect(c) \/ Establish(c) \/ HandshakeTimeout(c) \/ ClientClosed(c)
         \/ ClientReceives(c) \/ Break(c)
         \/ ServerWelcomes(c) \/ ServerFetches(c) \/ ServerClosed(c)
    \/ \E c, d \in Connections : ClientMixes(c, d)
    \/ Disconnect
    \/ \E r \in Requests, u \in Uris : FetchData(r, u)
    \/ \E r \in Requests : RequestTimeout(r)
    \/ \E r \in Requests, c \in Connections : ServerAnswers(r, c)
    \/ ServerRestarts

\* Timers fire.  Nothing is assumed of the network, the server or the user.
Fairness == \A r \in Requests : WF_vars(RequestTimeout(r))

Spec == Init /\ [][Next]_vars
FairSpec == Spec /\ Fairness

-----------------------------------------------------------------------------
\* What waits for an answer is a request for that URI whose promise is open:
\* no timer and no answer leaves an entry of a settled request behind, for a
\* later answer to settle again (rpc-client.ts:149-153, 179-183).
PendingIsOpen ==
    \A u \in Uris :
        pendingRequests[u] # None =>
            /\ uri[pendingRequests[u]] = u
            /\ outcome[pendingRequests[u]] = "waiting"

\* A request is under way once at most: on its way, being fetched, or answered;
\* however the handlers of one connection overlap, none is answered twice.
Occurrences(r) ==
         (UNION {{<<"request", c, i>> : i \in {j \in DOMAIN toServer[c] : toServer[c][j] = r}}
                : c \in Connections})
    \cup {<<"fetch", c, 0>> : c \in {d \in Connections : <<r, d>> \in fetching}}
    \cup (UNION {{<<"answer", c, i>> : i \in {j \in DOMAIN toClient[c] : toClient[c][j] = r}}
                : c \in Connections})

UnderWayOnce == \A r \in Requests : Cardinality(Occurrences(r)) <= 1

\* Every call of fetchData settles, whatever happens to the connection, to the
\* server, and to other requests for the same URI.
EveryFetchSettles ==
    \A r \in Requests : outcome[r] = "waiting" ~> outcome[r] \in {"resolved", "timeout"}

\* The answer to request r reaches the client whole.
AnswerArrives(r) ==
    /\ buffer = None
    /\ broken' = broken
    /\ \E c \in Connections : /\ toClient[c] # <<>>
                              /\ Head(toClient[c]) = r
                              /\ toClient'[c] = Tail(toClient[c])

OnlyOneWaiting(r) ==
    \A q \in Requests : uri[q] = uri[r] => (outcome[q] = "waiting" <=> q = r)

\* What the client says of its matching by URI (rpc-client.ts:149): an answer
\* that arrives for the only open request for its URI settles that request.
AnswerFindsItsRequest ==
    [][\A r \in Requests :
         AnswerArrives(r) /\ OnlyOneWaiting(r) => outcome'[r] = "resolved"]_vars
=============================================================================
