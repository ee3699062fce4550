-------------------------- MODULE RpcChannel_proof --------------------------
(***************************************************************************)
(* Proofs about the RPC channel, for any number of connections, requests    *)
(* and URIs: what waits is open, a request is under way once, and the       *)
(* sessions of the server are live but for those of hasty connects.         *)
(***************************************************************************)
EXTENDS RpcHistory, FiniteSetTheorems, SequenceTheorems, TLAPS

\* Frames on a connection.
In(s, frame) == \E i \in DOMAIN s : s[i] = frame
Once(s, frame) == \A i, j \in DOMAIN s : s[i] = frame /\ s[j] = frame => i = j

Kinds == {"request", "fetch", "answer"}

\* Where a request is under way.
At(kind, r, c) ==
    \/ kind = "request" /\ In(toServer[c], r)
    \/ kind = "fetch" /\ <<r, c>> \in fetching
    \/ kind = "answer" /\ In(toClient[c], r)

OnePlace ==
    \A r \in Requests, k1, k2 \in Kinds, c1, c2 \in Connections :
        At(k1, r, c1) /\ At(k2, r, c2) => k1 = k2 /\ c1 = c2

InOrder ==
    \A c \in Connections, r \in Requests : Once(toServer[c], r) /\ Once(toClient[c], r)

\* What travels was made.
Known ==
    /\ \A r \in Requests, k \in Kinds, c \in Connections : At(k, r, c) => r <= requestCount
    /\ buffer \in Requests => buffer <= requestCount
    /\ \A r \in Requests : r <= requestCount => uri[r] \in Uris
    /\ \A r \in Requests : r > requestCount => outcome[r] = "unmade"

IInv == TypeOK /\ Known /\ PendingIsOpen /\ InOrder /\ OnePlace

\* Connections the server has not seen.
Unmade == {"none"} \cup Opening

\* A socket that is the client's while another connection opens was begun hastily.
Overtaken ==
    /\ hasty \subseteq Connections
    /\ \A c \in Connections : clientSide[c] \in Unmade => serverSide[c] = "none"
    /\ \A c, d \in Connections :
         socket = c /\ clientSide[d] \in Opening => c = d \/ c \in hasty

\* Any other socket shakes hands once, when it is made.
ShakesOnce(c) ==
    /\ Once(toServer[c], Handshake)
    /\ clientSide[c] \in Unmade => ~In(toServer[c], Handshake)
    /\ \A s \in clients : s.socket = c =>
         serverSide[c] = "open" /\ ~In(toServer[c], Handshake)
    /\ \A s, t \in clients : s.socket = c /\ t.socket = c => s = t

Numbered ==
    /\ \A s \in clients : s.id < nextClientID
    /\ \A s, t \in clients : s.id = t.id => s = t

HistoryInv ==
    /\ IInv
    /\ Overtaken
    /\ \A c \in Connections : c \notin hasty => ShakesOnce(c)
    /\ Numbered

-----------------------------------------------------------------------------
\* The constants.
LEMMA Distinct ==
  /\ Handshake \notin Requests /\ None \notin Requests
  /\ Handshake \notin Connections /\ None \notin Connections
  /\ Handshake \in Frames /\ Requests \subseteq Frames
  /\ \A frame \in Frames : frame # Handshake => frame \in Requests
  BY ChannelAssumption DEF Frames

\* Sequences of frames.
LEMMA InEmpty == \A frame : ~In(<<>>, frame) /\ Once(<<>>, frame)
  BY DEF In, Once

LEMMA InTail ==
  ASSUME NEW S, NEW s \in Seq(S), s # <<>>
  PROVE  /\ Tail(s) \in Seq(S) /\ Head(s) \in S /\ In(s, Head(s))
         /\ \A frame : In(Tail(s), frame) => In(s, frame)
         /\ \A frame : Once(s, frame) => Once(Tail(s), frame)
         /\ Once(s, Head(s)) => ~In(Tail(s), Head(s))
  <1>1. /\ Head(s) \in S /\ Tail(s) \in Seq(S) /\ Len(Tail(s)) = Len(s) - 1
        /\ \A i \in 1 .. Len(Tail(s)) : Tail(s)[i] = s[i + 1]
    BY HeadTailProperties
  <1>2. /\ Len(s) \in Nat \ {0} /\ DOMAIN s = 1 .. Len(s)
        /\ DOMAIN Tail(s) = 1 .. Len(s) - 1
    BY <1>1, EmptySeq, LenProperties
  <1>3. Head(s) = s[1]
    OBVIOUS
  <1>4. \A i \in DOMAIN Tail(s) : i + 1 \in DOMAIN s /\ i + 1 # 1 /\ Tail(s)[i] = s[i + 1]
    BY <1>1, <1>2
  <1>5. 1 \in DOMAIN s
    BY <1>2
  <1>6. \A i, j \in DOMAIN Tail(s) : i + 1 = j + 1 => i = j
    BY <1>2
  <1>7. In(s, Head(s))
    BY <1>3, <1>5 DEF In
  <1>8. \A frame : In(Tail(s), frame) => In(s, frame)
    BY <1>4 DEF In
  <1>9. ASSUME NEW frame, Once(s, frame) PROVE Once(Tail(s), frame)
    BY <1>4, <1>6, <1>9 DEF Once
  <1>10. Once(s, Head(s)) => ~In(Tail(s), Head(s))
    BY <1>3, <1>4, <1>5 DEF Once, In
  <1>. QED BY <1>1, <1>7, <1>8, <1>9, <1>10

LEMMA InAppend ==
  ASSUME NEW S, NEW s \in Seq(S), NEW e \in S
  PROVE  /\ Append(s, e) \in Seq(S)
         /\ \A frame : In(Append(s, e), frame) <=> In(s, frame) \/ frame = e
         /\ \A frame : Once(s, frame) /\ (frame = e => ~In(s, frame))
                         => Once(Append(s, e), frame)
  <1>1. /\ Append(s, e) \in Seq(S) /\ Len(Append(s, e)) = Len(s) + 1
        /\ \A i \in 1 .. Len(s) : Append(s, e)[i] = s[i]
        /\ Append(s, e)[Len(s) + 1] = e
    BY AppendProperties
  <1>2. Len(s) \in Nat /\ DOMAIN s = 1 .. Len(s) /\ DOMAIN Append(s, e) = 1 .. Len(s) + 1
    BY <1>1, LenProperties
  <1>3. \A i \in DOMAIN Append(s, e) : i \in DOMAIN s \/ i = Len(s) + 1
    BY <1>2
  <1>4. DOMAIN s \subseteq DOMAIN Append(s, e) /\ Len(s) + 1 \in DOMAIN Append(s, e)
    BY <1>2
  <1>5. \A i \in DOMAIN s : Append(s, e)[i] = s[i]
    BY <1>1, <1>2
  <1>6. \A frame : In(Append(s, e), frame) <=> In(s, frame) \/ frame = e
    BY <1>1, <1>3, <1>4, <1>5 DEF In
  <1>7. ASSUME NEW frame, Once(s, frame), frame = e => ~In(s, frame)
        PROVE  Once(Append(s, e), frame)
    BY <1>1, <1>3, <1>5, <1>7 DEF In, Once
  <1>. QED BY <1>1, <1>6, <1>7

\* A frame is taken from connection c.
Removed(link, after, c) ==
    /\ after \in [Connections -> Seq(Frames)]
    /\ Head(link[c]) \in Frames /\ In(link[c], Head(link[c]))
    /\ \A d \in Connections : d # c => after[d] = link[d]
    /\ \A d \in Connections : \A frame : In(after[d], frame) => In(link[d], frame)
    /\ \A d \in Connections : \A frame : Once(link[d], frame) => Once(after[d], frame)
    /\ Once(link[c], Head(link[c])) => ~In(after[c], Head(link[c]))

LEMMA Taken ==
  ASSUME NEW link \in [Connections -> Seq(Frames)], NEW after, NEW c \in Connections,
         link[c] # <<>>, after = [link EXCEPT ![c] = Tail(@)]
  PROVE  Removed(link, after, c)
  <1>1. link[c] \in Seq(Frames)
    OBVIOUS
  <1>2. /\ Tail(link[c]) \in Seq(Frames)
        /\ Head(link[c]) \in Frames /\ In(link[c], Head(link[c]))
        /\ \A frame : In(Tail(link[c]), frame) => In(link[c], frame)
        /\ \A frame : Once(link[c], frame) => Once(Tail(link[c]), frame)
        /\ Once(link[c], Head(link[c])) => ~In(Tail(link[c]), Head(link[c]))
    BY <1>1, InTail
  <1>3. after[c] = Tail(link[c]) /\ \A d \in Connections : d # c => after[d] = link[d]
    OBVIOUS
  <1>4. after \in [Connections -> Seq(Frames)]
    BY <1>2
  <1>. QED BY <1>2, <1>3, <1>4 DEF Removed

\* A frame is put on connection c, or dropped.
Added(link, after, c, e) ==
    /\ after \in [Connections -> Seq(Frames)]
    /\ \A d \in Connections : \A frame :
         In(after[d], frame) => In(link[d], frame) \/ (d = c /\ frame = e)
    /\ \A d \in Connections : \A frame :
         Once(link[d], frame) /\ (frame = e /\ d = c => ~In(link[d], frame))
           => Once(after[d], frame)

LEMMA Put ==
  ASSUME NEW link \in [Connections -> Seq(Frames)], NEW after, NEW c, NEW e \in Frames,
         after = link \/ (c \in Connections /\ after = [link EXCEPT ![c] = Append(@, e)])
  PROVE  Added(link, after, c, e)
  <1>1. CASE after = link
    BY <1>1 DEF Added
  <1>2. CASE c \in Connections /\ after = [link EXCEPT ![c] = Append(@, e)]
    <2>1. link[c] \in Seq(Frames)
      BY <1>2
    <2>2. /\ Append(link[c], e) \in Seq(Frames)
          /\ \A frame : In(Append(link[c], e), frame) <=> In(link[c], frame) \/ frame = e
          /\ \A frame : Once(link[c], frame) /\ (frame = e => ~In(link[c], frame))
                          => Once(Append(link[c], e), frame)
      BY <2>1, InAppend
    <2>3. after[c] = Append(link[c], e) /\ \A d \in Connections : d # c => after[d] = link[d]
      BY <1>2
    <2>4. after \in [Connections -> Seq(Frames)]
      BY <1>2, <2>2
    <2>. QED BY <2>2, <2>3, <2>4 DEF Added
  <1>. QED BY <1>1, <1>2

LEMMA ClientPuts ==
  ASSUME TypeOK, NEW frame \in Frames, ClientSends(frame)
  PROVE  toServer' = toServer \/ (socket \in Connections /\ Added(toServer, toServer', socket, frame))
  <1>1. toServer \in [Connections -> Seq(Frames)]
    BY DEF TypeOK
  <1>2. \/ toServer' = toServer
        \/ socket \in Connections /\ toServer' = [toServer EXCEPT ![socket] = Append(@, frame)]
    BY DEF TypeOK, ClientSends
  <1>. QED BY <1>1, <1>2, Put

LEMMA ServerPuts ==
  ASSUME TypeOK, NEW frame \in Frames, NEW c \in Connections, ServerSends(c, frame)
  PROVE  Added(toClient, toClient', c, frame)
  <1>1. toClient \in [Connections -> Seq(Frames)]
    BY DEF TypeOK
  <1>2. toClient' = toClient \/ toClient' = [toClient EXCEPT ![c] = Append(@, frame)]
    BY DEF ServerSends
  <1>. QED BY <1>1, <1>2, Put

LEMMA ServerTakes ==
  ASSUME TypeOK, NEW c \in Connections, toServer[c] # <<>>,
         toServer' = [toServer EXCEPT ![c] = Tail(@)]
  PROVE  Removed(toServer, toServer', c)
  <1>1. toServer \in [Connections -> Seq(Frames)]
    BY DEF TypeOK
  <1>. QED BY <1>1, Taken

LEMMA ClientTakes ==
  ASSUME TypeOK, NEW c \in Connections, toClient[c] # <<>>,
         toClient' = [toClient EXCEPT ![c] = Tail(@)]
  PROVE  Removed(toClient, toClient', c)
  <1>1. toClient \in [Connections -> Seq(Frames)]
    BY DEF TypeOK
  <1>. QED BY <1>1, Taken

\* Two frames are taken, from two connections.
LEMMA ClientMixesTakes ==
  ASSUME TypeOK, NEW c \in Connections, NEW d \in Connections, c # d,
         toClient[c] # <<>>, toClient[d] # <<>>,
         toClient' = [toClient EXCEPT ![c] = Tail(@), ![d] = Tail(@)]
  PROVE  /\ toClient' \in [Connections -> Seq(Frames)]
         /\ Head(toClient[c]) \in Frames /\ In(toClient[c], Head(toClient[c]))
         /\ \A e \in Connections : \A frame :
              /\ In(toClient'[e], frame) => In(toClient[e], frame)
              /\ Once(toClient[e], frame) => Once(toClient'[e], frame)
  <1>1. toClient \in [Connections -> Seq(Frames)]
    BY DEF TypeOK
  <1>. DEFINE between == [toClient EXCEPT ![c] = Tail(@)]
  <1>2. Removed(toClient, between, c)
    BY <1>1, Taken
  <1>3. between \in [Connections -> Seq(Frames)] /\ between[d] = toClient[d]
        /\ toClient' = [between EXCEPT ![d] = Tail(@)]
    <2>1. between \in [Connections -> Seq(Frames)]
      BY <1>2 DEF Removed
    <2>2. between[d] = toClient[d]
      BY <1>1
    <2>3. toClient' = [between EXCEPT ![d] = Tail(@)]
      BY <1>1
    <2>. QED BY <2>1, <2>2, <2>3
  <1>4. Removed(between, toClient', d)
    <2>. HIDE DEF between
    <2>. QED BY <1>3, Taken
  <1>. HIDE DEF between
  <1>5. \A e \in Connections : \A frame :
          /\ In(toClient'[e], frame) => In(between[e], frame)
          /\ Once(between[e], frame) => Once(toClient'[e], frame)
    BY <1>4 DEF Removed
  <1>6. \A e \in Connections : \A frame :
          /\ In(between[e], frame) => In(toClient[e], frame)
          /\ Once(toClient[e], frame) => Once(between[e], frame)
    BY <1>2 DEF Removed
  <1>7. /\ toClient' \in [Connections -> Seq(Frames)]
        /\ Head(toClient[c]) \in Frames /\ In(toClient[c], Head(toClient[c]))
    BY <1>2, <1>4 DEF Removed
  <1>. QED BY <1>5, <1>6, <1>7

LEMMA Emptied ==
  [c \in Connections |-> <<>>] \in [Connections -> Seq(Frames)]
  BY EmptySeq

-----------------------------------------------------------------------------
LEMMA InitIInv == Init => IInv
  <1>. SUFFICES ASSUME Init PROVE IInv
    OBVIOUS
  <1>. USE DEF Init
  <1>1. TypeOK
    <2>1. toServer \in [Connections -> Seq(Frames)] /\ toClient \in [Connections -> Seq(Frames)]
      BY Emptied
    <2>2. requestCount \in 0 .. MaxRequests
      BY ChannelAssumption
    <2>3. nextClientID \in Nat \ {0} /\ clients \subseteq Session
      OBVIOUS
    <2>4. clientSide \in [Connections -> ClientSides] /\ buffer \in Buffers
      BY DEF ClientSides, Buffers
    <2>. QED BY <2>1, <2>2, <2>3, <2>4 DEF TypeOK
  <1>2. \A c \in Connections : \A frame : /\ ~In(toServer[c], frame) /\ Once(toServer[c], frame)
                                          /\ ~In(toClient[c], frame) /\ Once(toClient[c], frame)
    BY InEmpty
  <1>3. Known
    BY <1>2, Distinct, ChannelAssumption DEF Known, At, Requests
  <1>4. PendingIsOpen
    BY DEF PendingIsOpen
  <1>5. InOrder /\ OnePlace
    BY <1>2 DEF InOrder, OnePlace, At
  <1>. QED BY <1>1, <1>3, <1>4, <1>5 DEF IInv

-----------------------------------------------------------------------------
\* The request that an answer belongs to, and what waits for its URI.
LEMMA Matched ==
  ASSUME TypeOK, Known, PendingIsOpen, NEW r \in Requests, r <= requestCount
  PROVE  uri[r] \in Uris /\ pendingRequests[uri[r]] \in Requests \cup {None}
  BY DEF TypeOK, Known

\* A frame of a client's is a welcome, or the answer to a request that was made.
LEMMA FrameTypes ==
  ASSUME TypeOK, Known, PendingIsOpen, NEW frame \in Frames,
         frame \in Requests => frame <= requestCount, HandleFrame(frame) \/ IgnoreFrame
  PROVE  /\ connected' \in BOOLEAN /\ handlers' \subseteq Connections
         /\ connecting' \in [Connections -> {"none", "pending", "resolved", "rejected"}]
         /\ pendingRequests' \in [Uris -> Requests \cup {None}]
         /\ outcome' \in [Requests -> {"unmade", "waiting", "resolved", "timeout"}]
  <1>. USE DEF TypeOK
  <1>1. CASE IgnoreFrame
    BY <1>1 DEF IgnoreFrame
  <1>2. CASE frame = Handshake /\ HandleWelcome
    BY <1>2 DEF HandleWelcome
  <1>3. CASE frame # Handshake /\ HandleDataResponse(frame)
    <2>1. frame \in Requests
      BY <1>3, Distinct
    <2>2. uri[frame] \in Uris /\ pendingRequests[uri[frame]] \in Requests \cup {None}
      BY <2>1, Matched
    <2>. QED BY <1>3, <2>2 DEF HandleDataResponse
  <1>. QED BY <1>1, <1>2, <1>3 DEF HandleFrame

LEMMA TypeStep ==
  ASSUME TypeOK, Known, PendingIsOpen, Next
  PROVE  TypeOK'
  <1>. USE DEF TypeOK, clientVars, requestVars, linkVars, serverVars
  <1>1. ASSUME NEW c \in Connections, Connect(c) PROVE TypeOK'
    BY <1>1 DEF Connect, ClientSides
  <1>2. ASSUME NEW c \in Connections, Establish(c) PROVE TypeOK'
    <2>1. toServer' \in [Connections -> Seq(Frames)]
      BY <1>2, Distinct, ClientPuts DEF Establish, Added
    <2>. QED BY <1>2, <2>1 DEF Establish, ClientSides
  <1>3. ASSUME NEW c \in Connections, HandshakeTimeout(c) PROVE TypeOK'
    BY <1>3 DEF HandshakeTimeout
  <1>4. ASSUME NEW c \in Connections, ClientClosed(c) PROVE TypeOK'
    BY <1>4 DEF ClientClosed, ClientSides
  <1>5. ASSUME NEW c \in Connections, ClientReceives(c) PROVE TypeOK'
    <2>0. toClient[c] # <<>> /\ toClient' = [toClient EXCEPT ![c] = Tail(@)]
      BY <1>5 DEF ClientReceives, CanReceive
    <2>1. toClient' \in [Connections -> Seq(Frames)] /\ Head(toClient[c]) \in Frames
          /\ In(toClient[c], Head(toClient[c]))
      BY <2>0, ClientTakes DEF Removed
    <2>2. Head(toClient[c]) \in Requests => Head(toClient[c]) <= requestCount
      BY <2>1 DEF Known, At, Kinds
    <2>3. PICK frame \in Frames : /\ frame \in Requests => frame <= requestCount
                                  /\ HandleFrame(frame) \/ IgnoreFrame
      BY <1>5, <2>1, <2>2, Distinct DEF ClientReceives, Known
    <2>4. /\ connected' \in BOOLEAN /\ handlers' \subseteq Connections
          /\ connecting' \in [Connections -> {"none", "pending", "resolved", "rejected"}]
          /\ pendingRequests' \in [Uris -> Requests \cup {None}]
          /\ outcome' \in [Requests -> {"unmade", "waiting", "resolved", "timeout"}]
      BY <2>3, FrameTypes
    <2>5. buffer' \in Buffers
      BY <1>5 DEF ClientReceives, Buffers
    <2>. QED BY <1>5, <2>1, <2>4, <2>5 DEF ClientReceives
  <1>6. ASSUME NEW c \in Connections, Break(c) PROVE TypeOK'
    <2>1. toServer' \in [Connections -> Seq(Frames)] /\ toClient' \in [Connections -> Seq(Frames)]
      BY <1>6, EmptySeq DEF Break
    <2>2. buffer' \in Buffers
      <3>1. CASE UNCHANGED buffer BY <3>1
      <3>2. CASE toClient[c] # <<>> /\ buffer' = Head(toClient[c])
        BY <3>2, InTail DEF Buffers
      <3>. QED BY <1>6, <3>1, <3>2 DEF Break
    <2>. QED BY <1>6, <2>1, <2>2 DEF Break
  <1>7. ASSUME NEW c \in Connections, ServerWelcomes(c) PROVE TypeOK'
    <2>0. /\ toServer[c] # <<>> /\ toServer' = [toServer EXCEPT ![c] = Tail(@)]
          /\ Head(toServer[c]) = Handshake /\ ServerSends(c, Handshake)
      BY <1>7 DEF ServerWelcomes
    <2>1. toServer' \in [Connections -> Seq(Frames)] /\ In(toServer[c], Handshake)
      BY <2>0, ServerTakes DEF Removed
    <2>2. toClient' \in [Connections -> Seq(Frames)]
      BY <2>0, Distinct, ServerPuts DEF Added
    <2>3. nextClientID' \in Nat \ {0} /\ clients' \subseteq Session
      BY <1>7 DEF ServerWelcomes, Session
    <2>. QED BY <1>7, <2>1, <2>2, <2>3 DEF ServerWelcomes
  <1>8. ASSUME NEW c \in Connections, ServerFetches(c) PROVE TypeOK'
    <2>0. toServer[c] # <<>> /\ toServer' = [toServer EXCEPT ![c] = Tail(@)]
      BY <1>8 DEF ServerFetches
    <2>1. toServer' \in [Connections -> Seq(Frames)] /\ Head(toServer[c]) \in Frames
      BY <2>0, ServerTakes DEF Removed
    <2>2. Head(toServer[c]) \in Requests
      BY <1>8, <2>1, Distinct DEF ServerFetches
    <2>3. fetching' \subseteq Requests \X Connections
      BY <1>8, <2>2 DEF ServerFetches
    <2>. QED BY <1>8, <2>1, <2>3 DEF ServerFetches
  <1>9. ASSUME NEW c \in Connections, ServerClosed(c) PROVE TypeOK'
    BY <1>9 DEF ServerClosed
  <1>10. CASE Disconnect
    <2>1. socket \in Connections
      BY <1>10 DEF Disconnect
    <2>2. clientSide' \in [Connections -> ClientSides]
      BY <1>10, <2>1 DEF Disconnect, ClientSides
    <2>. QED BY <1>10, <2>1, <2>2 DEF Disconnect
  <1>11. ASSUME NEW r \in Requests, NEW u \in Uris, FetchData(r, u) PROVE TypeOK'
    <2>1. toServer' \in [Connections -> Seq(Frames)]
      BY <1>11, Distinct, ClientPuts DEF FetchData, Added
    <2>2. requestCount' \in 0 .. MaxRequests
      BY <1>11, ChannelAssumption DEF FetchData, Requests
    <2>. QED BY <1>11, <2>1, <2>2 DEF FetchData
  <1>12. ASSUME NEW r \in Requests, RequestTimeout(r) PROVE TypeOK'
    BY <1>12 DEF RequestTimeout
  <1>13. ASSUME NEW r \in Requests, NEW c \in Connections, ServerAnswers(r, c) PROVE TypeOK'
    <2>1. toClient' \in [Connections -> Seq(Frames)]
      <3>1. r \in Frames /\ ServerSends(c, r)
        BY <1>13, Distinct DEF ServerAnswers
      <3>. QED BY <3>1, ServerPuts DEF Added
    <2>. QED BY <1>13, <2>1 DEF ServerAnswers
  <1>14. CASE ServerRestarts
    <2>1. toServer' \in [Connections -> Seq(Frames)] /\ toClient' \in [Connections -> Seq(Frames)]
      BY <1>14, Emptied DEF ServerRestarts
    <2>. QED BY <1>14, <2>1 DEF ServerRestarts
  <1>15. ASSUME NEW c \in Connections, NEW d \in Connections, ClientMixes(c, d) PROVE TypeOK'
    <2>1. toClient' \in [Connections -> Seq(Frames)] /\ Head(toClient[c]) \in Frames
          /\ In(toClient[c], Head(toClient[c]))
      BY <1>15, ClientMixesTakes DEF ClientMixes, CanReceive
    <2>2. Head(toClient[c]) \in Requests => Head(toClient[c]) <= requestCount
      BY <2>1 DEF Known, At, Kinds
    <2>3. HandleFrame(Head(toClient[c])) \/ IgnoreFrame
      BY <1>15 DEF ClientMixes
    <2>4. /\ connected' \in BOOLEAN /\ handlers' \subseteq Connections
          /\ connecting' \in [Connections -> {"none", "pending", "resolved", "rejected"}]
          /\ pendingRequests' \in [Uris -> Requests \cup {None}]
          /\ outcome' \in [Requests -> {"unmade", "waiting", "resolved", "timeout"}]
      BY <2>1, <2>2, <2>3, FrameTypes
    <2>5. buffer' \in Buffers
      BY <1>15 DEF ClientMixes, Buffers
    <2>. QED BY <1>15, <2>1, <2>4, <2>5 DEF ClientMixes
  <1>. QED BY <1>1, <1>2, <1>3, <1>4, <1>5, <1>6, <1>7, <1>8, <1>9, <1>10, <1>11, <1>12, <1>13,
              <1>14, <1>15 DEF Next

-----------------------------------------------------------------------------
\* A request is nowhere it was not, or in one place only.
Fewer(r) == \A k \in Kinds, c \in Connections : At(k, r, c)' => At(k, r, c)

Single(r) ==
    /\ \E k1 \in Kinds, c1 \in Connections :
         \A k \in Kinds, c \in Connections : At(k, r, c)' => k = k1 /\ c = c1
    /\ r = requestCount' \/ \E k \in Kinds, c \in Connections : At(k, r, c)

\* A request that was not made is under way nowhere.
Fresh(r) == \A k \in Kinds, c \in Connections : ~At(k, r, c)

LEMMA MovesStep ==
  ASSUME TypeOK, Known, InOrder, OnePlace, Next
  PROVE  InOrder' /\ \A r \in Requests : Fewer(r) \/ Single(r)
  <1>. USE DEF clientVars, requestVars, linkVars, serverVars
  <1>0. /\ toServer \in [Connections -> Seq(Frames)] /\ toClient \in [Connections -> Seq(Frames)]
        /\ Requests \subseteq Frames /\ Handshake \in Frames /\ Handshake \notin Requests
    BY Distinct DEF TypeOK
  <1>q. ASSUME UNCHANGED <<toServer, toClient, fetching>>
        PROVE  InOrder' /\ \A r \in Requests : Fewer(r) \/ Single(r)
    BY <1>q DEF InOrder, Fewer, At
  <1>1. ASSUME NEW c \in Connections, Connect(c)
        PROVE  InOrder' /\ \A r \in Requests : Fewer(r) \/ Single(r)
    BY <1>1, <1>q DEF Connect
  <1>2. ASSUME NEW c \in Connections, ClientReceives(c)
        PROVE  InOrder' /\ \A r \in Requests : Fewer(r) \/ Single(r)
    <2>1. /\ toClient[c] # <<>> /\ toClient' = [toClient EXCEPT ![c] = Tail(@)]
          /\ UNCHANGED <<toServer, fetching>>
      BY <1>2 DEF ClientReceives, CanReceive
    <2>2. \A d \in Connections : \A frame : /\ In(toClient'[d], frame) => In(toClient[d], frame)
                                            /\ Once(toClient[d], frame) => Once(toClient'[d], frame)
      BY <2>1, ClientTakes DEF Removed
    <2>. QED BY <2>1, <2>2 DEF InOrder, Fewer, At
  <1>3. ASSUME NEW c \in Connections, Break(c)
        PROVE  InOrder' /\ \A r \in Requests : Fewer(r) \/ Single(r)
    <2>1. \A d \in Connections : /\ toServer'[d] = toServer[d] \/ toServer'[d] = <<>>
                                 /\ toClient'[d] = toClient[d] \/ toClient'[d] = <<>>
      BY <1>0, <1>3 DEF Break
    <2>2. fetching' = fetching
      BY <1>3 DEF Break
    <2>3. \A d \in Connections : \A frame : /\ In(toServer'[d], frame) => In(toServer[d], frame)
                                            /\ In(toClient'[d], frame) => In(toClient[d], frame)
                                            /\ Once(toServer[d], frame) => Once(toServer'[d], frame)
                                            /\ Once(toClient[d], frame) => Once(toClient'[d], frame)
      BY <2>1, InEmpty
    <2>. QED BY <2>2, <2>3 DEF InOrder, Fewer, At
  <1>4. ASSUME NEW c \in Connections, Establish(c)
        PROVE  InOrder' /\ \A r \in Requests : Fewer(r) \/ Single(r)
    <2>1. UNCHANGED <<toClient, fetching>>
      BY <1>4 DEF Establish
    <2>2. toServer' = toServer
          \/ (socket \in Connections /\ Added(toServer, toServer', socket, Handshake))
      BY <1>0, <1>4, ClientPuts DEF Establish
    <2>3. \A d \in Connections, r \in Requests :
            /\ In(toServer'[d], r) => In(toServer[d], r)
            /\ Once(toServer[d], r) => Once(toServer'[d], r)
      BY <1>0, <2>2 DEF Added
    <2>. QED BY <2>1, <2>3 DEF InOrder, Fewer, At
  <1>5. ASSUME NEW r \in Requests, NEW u \in Uris, FetchData(r, u), Fresh(r)
        PROVE  InOrder' /\ \A q \in Requests : Fewer(q) \/ Single(q)
    <2>1. UNCHANGED <<toClient, fetching>> /\ requestCount' = r /\ r \in Frames
      BY <1>0, <1>5 DEF FetchData
    <2>2. toServer' = toServer \/ (socket \in Connections /\ Added(toServer, toServer', socket, r))
      BY <1>5, <2>1, ClientPuts DEF FetchData
    <2>3. /\ \A d \in Connections : \A frame :
               In(toServer'[d], frame) => In(toServer[d], frame) \/ (d = socket /\ frame = r)
          /\ \A d \in Connections : \A frame :
               Once(toServer[d], frame) /\ (frame = r /\ d = socket => ~In(toServer[d], frame))
                 => Once(toServer'[d], frame)
      BY <2>2 DEF Added
    <2>4. \A d \in Connections : ~In(toServer[d], r) /\ ~In(toClient[d], r) /\ <<r, d>> \notin fetching
      BY <1>5 DEF Fresh, At, Kinds
    <2>5. InOrder'
      BY <1>0, <2>1, <2>3, <2>4 DEF InOrder
    <2>6. \A q \in Requests : q # r => Fewer(q)
      BY <2>1, <2>3 DEF Fewer, At
    <2>7. Fewer(r) \/ Single(r)
      <3>1. CASE toServer' = toServer
        BY <2>1, <3>1 DEF Fewer, At
      <3>2. CASE socket \in Connections
        <4>1. \A k \in Kinds, d \in Connections : At(k, r, d)' => k = "request" /\ d = socket
          BY <2>1, <2>3, <2>4 DEF At
        <4>. QED BY <2>1, <3>2, <4>1 DEF Single, Kinds
      <3>. QED BY <2>2, <3>1, <3>2
    <2>. QED BY <2>5, <2>6, <2>7
  <1>6. ASSUME NEW c \in Connections, ServerWelcomes(c)
        PROVE  InOrder' /\ \A r \in Requests : Fewer(r) \/ Single(r)
    <2>1. /\ toServer[c] # <<>> /\ toServer' = [toServer EXCEPT ![c] = Tail(@)]
          /\ ServerSends(c, Handshake) /\ fetching' = fetching
      BY <1>6 DEF ServerWelcomes
    <2>2. Added(toClient, toClient', c, Handshake)
      BY <1>0, <2>1, ServerPuts
    <2>3. \A d \in Connections : \A frame : /\ In(toServer'[d], frame) => In(toServer[d], frame)
                                            /\ Once(toServer[d], frame) => Once(toServer'[d], frame)
      BY <2>1, ServerTakes DEF Removed
    <2>4. /\ \A d \in Connections : \A frame :
               In(toClient'[d], frame) => In(toClient[d], frame) \/ (d = c /\ frame = Handshake)
          /\ \A d \in Connections : \A frame :
               Once(toClient[d], frame) /\ (frame = Handshake /\ d = c => ~In(toClient[d], frame))
                 => Once(toClient'[d], frame)
      BY <2>2 DEF Added
    <2>. QED BY <1>0, <2>1, <2>3, <2>4 DEF InOrder, Fewer, At
  <1>7. ASSUME NEW c \in Connections, ServerFetches(c)
        PROVE  InOrder' /\ \A r \in Requests : Fewer(r) \/ Single(r)
    <2>0. toServer[c] # <<>> /\ toServer' = [toServer EXCEPT ![c] = Tail(@)]
      BY <1>7 DEF ServerFetches
    <2>1. PICK r : r = Head(toServer[c])
      OBVIOUS
    <2>2. toClient' = toClient /\ \A x : x \in fetching' => x \in fetching \/ x = <<r, c>>
      BY <1>7, <2>1 DEF ServerFetches
    <2>3. Removed(toServer, toServer', c)
      BY <2>0, ServerTakes
    <2>4. \A d \in Connections : \A frame : /\ In(toServer'[d], frame) => In(toServer[d], frame)
                                            /\ Once(toServer[d], frame) => Once(toServer'[d], frame)
      BY <2>3 DEF Removed
    <2>5. InOrder'
      BY <2>2, <2>4 DEF InOrder
    <2>6. In(toServer[c], r) /\ ~In(toServer'[c], r)
      <3>1. r \in Frames /\ In(toServer[c], r) /\ (Once(toServer[c], r) => ~In(toServer'[c], r))
        BY <2>1, <2>3 DEF Removed
      <3>2. r \in Requests
        BY <1>7, <2>1, <3>1, Distinct DEF ServerFetches
      <3>. QED BY <3>1, <3>2 DEF InOrder
    <2>7. \A q \in Requests : q # r => Fewer(q)
      BY <2>2, <2>4 DEF Fewer, At
    <2>8. ASSUME r \in Requests PROVE Single(r)
      <3>1. At("request", r, c)
        BY <2>6 DEF At
      <3>2. \A k \in Kinds, d \in Connections : At(k, r, d) => k = "request" /\ d = c
        BY <2>8, <3>1 DEF OnePlace, Kinds
      <3>3. /\ \A d \in Connections : In(toServer[d], r) => d = c
            /\ \A d \in Connections : <<r, d>> \notin fetching
            /\ \A d \in Connections : ~In(toClient[d], r)
        BY <3>2 DEF At, Kinds
      <3>4. /\ \A d \in Connections : ~In(toServer'[d], r)
            /\ \A d \in Connections : ~In(toClient'[d], r)
            /\ \A d \in Connections : <<r, d>> \in fetching' => d = c
        <4>1. ASSUME NEW d \in Connections, In(toServer'[d], r) PROVE FALSE
          <5>1. d = c
            BY <2>4, <3>3, <4>1
          <5>. QED BY <2>6, <4>1, <5>1
        <4>2. \A d \in Connections : ~In(toClient'[d], r)
          BY <2>2, <3>3
        <4>3. ASSUME NEW d \in Connections, <<r, d>> \in fetching' PROVE d = c
          <5>1. <<r, d>> = <<r, c>>
            BY <2>2, <3>3, <4>3
          <5>. QED BY <5>1
        <4>. QED BY <4>1, <4>2, <4>3
      <3>5. ASSUME NEW k \in Kinds, NEW d \in Connections, At(k, r, d)'
            PROVE  k = "fetch" /\ d = c
        <4>1. /\ k = "request" => In(toServer'[d], r)
              /\ k = "fetch" => <<r, d>> \in fetching'
              /\ k = "answer" => In(toClient'[d], r)
          BY <3>5 DEF At
        <4>. QED BY <3>4, <4>1 DEF Kinds
      <3>. QED BY <3>1, <3>5 DEF Single, Kinds
    <2>. QED BY <2>5, <2>7, <2>8
  <1>8. ASSUME NEW r \in Requests, NEW c \in Connections, ServerAnswers(r, c)
        PROVE  InOrder' /\ \A q \in Requests : Fewer(q) \/ Single(q)
    <2>1. r \in Frames /\ ServerSends(c, r) /\ <<r, c>> \in fetching
      BY <1>0, <1>8 DEF ServerAnswers
    <2>2. toServer' = toServer /\ \A x : x \in fetching' => x \in fetching /\ x # <<r, c>>
      BY <1>8 DEF ServerAnswers
    <2>3. Added(toClient, toClient', c, r)
      BY <2>1, ServerPuts
    <2>4. At("fetch", r, c)
      BY <2>1 DEF At
    <2>5. \A k \in Kinds, d \in Connections : At(k, r, d) => k = "fetch" /\ d = c
      BY <2>4 DEF OnePlace, Kinds
    <2>6. /\ \A d \in Connections : <<r, d>> \in fetching => d = c
          /\ \A d \in Connections : ~In(toServer[d], r)
          /\ \A d \in Connections : ~In(toClient[d], r)
      BY <2>5 DEF At, Kinds
    <2>7. ASSUME NEW d \in Connections, NEW q \in Requests, Once(toClient[d], q)
          PROVE  Once(toClient'[d], q)
      <3>1. q = r /\ d = c => ~In(toClient[d], q)
        BY <2>6
      <3>. QED BY <2>3, <2>7, <3>1 DEF Added
    <2>8. \A d \in Connections, q \in Requests :
            In(toClient'[d], q) => In(toClient[d], q) \/ (d = c /\ q = r)
      BY <2>3 DEF Added
    <2>9. InOrder'
      BY <2>2, <2>7 DEF InOrder
    <2>10. \A q \in Requests : q # r => Fewer(q)
      BY <2>2, <2>8 DEF Fewer, At
    <2>11. Single(r)
      <3>1. /\ \A d \in Connections : ~In(toServer'[d], r)
            /\ \A d \in Connections : <<r, d>> \notin fetching'
            /\ \A d \in Connections : In(toClient'[d], r) => d = c
        <4>1. /\ \A d \in Connections : ~In(toServer'[d], r)
              /\ \A d \in Connections : In(toClient'[d], r) => d = c
          BY <2>2, <2>6, <2>8
        <4>2. ASSUME NEW d \in Connections, <<r, d>> \in fetching' PROVE FALSE
          <5>1. d = c
            BY <2>2, <2>6, <4>2
          <5>. QED BY <2>2, <4>2, <5>1
        <4>. QED BY <4>1, <4>2
      <3>2. ASSUME NEW k \in Kinds, NEW d \in Connections, At(k, r, d)'
            PROVE  k = "answer" /\ d = c
        <4>1. /\ k = "request" => In(toServer'[d], r)
              /\ k = "fetch" => <<r, d>> \in fetching'
              /\ k = "answer" => In(toClient'[d], r)
          BY <3>2 DEF At
        <4>. QED BY <3>1, <4>1 DEF Kinds
      <3>. QED BY <2>4, <3>2 DEF Single, Kinds
    <2>. QED BY <2>9, <2>10, <2>11
  <1>9. CASE ServerRestarts
    <2>1. /\ \A d \in Connections : toServer'[d] = <<>> /\ toClient'[d] = <<>>
          /\ fetching' = {}
      BY <1>9 DEF ServerRestarts
    <2>2. \A d \in Connections : \A frame : /\ ~In(toServer'[d], frame) /\ Once(toServer'[d], frame)
                                            /\ ~In(toClient'[d], frame) /\ Once(toClient'[d], frame)
      BY <2>1, InEmpty
    <2>. QED BY <2>1, <2>2 DEF InOrder, Fewer, At
  <1>10. ASSUME NEW c \in Connections, HandshakeTimeout(c) \/ ClientClosed(c) \/ ServerClosed(c)
         PROVE  InOrder' /\ \A r \in Requests : Fewer(r) \/ Single(r)
    BY <1>10, <1>q DEF HandshakeTimeout, ClientClosed, ServerClosed
  <1>11. CASE Disconnect
    BY <1>11, <1>q DEF Disconnect
  <1>12. ASSUME NEW r \in Requests, RequestTimeout(r)
         PROVE  InOrder' /\ \A q \in Requests : Fewer(q) \/ Single(q)
    BY <1>12, <1>q DEF RequestTimeout
  <1>13. ASSUME NEW r \in Requests, NEW u \in Uris, FetchData(r, u) PROVE Fresh(r)
    BY <1>13 DEF FetchData, Fresh, Known, TypeOK, Requests
  <1>14. ASSUME NEW c \in Connections, NEW d \in Connections, ClientMixes(c, d)
         PROVE  InOrder' /\ \A r \in Requests : Fewer(r) \/ Single(r)
    <2>1. UNCHANGED <<toServer, fetching>>
      BY <1>14 DEF ClientMixes
    <2>2. \A e \in Connections : \A frame : /\ In(toClient'[e], frame) => In(toClient[e], frame)
                                            /\ Once(toClient[e], frame) => Once(toClient'[e], frame)
      BY <1>14, ClientMixesTakes DEF ClientMixes, CanReceive
    <2>. QED BY <2>1, <2>2 DEF InOrder, Fewer, At
  <1>. QED BY <1>1, <1>2, <1>3, <1>4, <1>5, <1>6, <1>7, <1>8, <1>9, <1>10, <1>11, <1>12, <1>13,
              <1>14 DEF Next

LEMMA OnePlaceStep ==
  ASSUME OnePlace, NEW r \in Requests, Fewer(r) \/ Single(r),
         NEW k1 \in Kinds, NEW k2 \in Kinds, NEW c1 \in Connections, NEW c2 \in Connections,
         At(k1, r, c1)', At(k2, r, c2)'
  PROVE  k1 = k2 /\ c1 = c2
  <1>1. CASE Fewer(r)
    <2>1. At(k1, r, c1) /\ At(k2, r, c2)
      BY <1>1 DEF Fewer
    <2>. QED BY <2>1 DEF OnePlace
  <1>2. CASE Single(r)
    BY <1>2 DEF Single
  <1>. QED BY <1>1, <1>2

-----------------------------------------------------------------------------
\* Requests.
Made ==
    /\ buffer \in Requests => buffer <= requestCount
    /\ \A r \in Requests : r <= requestCount => uri[r] \in Uris
    /\ \A r \in Requests : r > requestCount => outcome[r] = "unmade"

LEMMA FrameSettles ==
  ASSUME TypeOK, Known, PendingIsOpen, NEW frame \in Frames,
         frame \in Requests => frame <= requestCount, HandleFrame(frame) \/ IgnoreFrame,
         UNCHANGED <<uri, requestCount>>
  PROVE  /\ PendingIsOpen'
         /\ \A r \in Requests : r > requestCount => outcome'[r] = "unmade"
  <1>0. \A r \in Requests : r > requestCount => outcome[r] = "unmade"
    BY DEF Known
  <1>1. CASE UNCHANGED <<pendingRequests, outcome>>
    BY <1>0, <1>1 DEF PendingIsOpen
  <1>2. CASE frame # Handshake /\ HandleDataResponse(frame)
    <2>1. frame \in Requests
      BY <1>2, Distinct
    <2>2. uri[frame] \in Uris /\ pendingRequests[uri[frame]] \in Requests \cup {None}
      BY <2>1, Matched
    <2>3. CASE pendingRequests[uri[frame]] = None
      BY <1>1, <1>2, <2>3 DEF HandleDataResponse
    <2>4. CASE pendingRequests[uri[frame]] # None
      <3>1. PICK p \in Requests : p = pendingRequests[uri[frame]]
        BY <2>2, <2>4
      <3>2. uri[p] = uri[frame] /\ outcome[p] = "waiting" /\ ~(p > requestCount)
        BY <1>0, <2>2, <3>1, <2>4 DEF PendingIsOpen
      <3>3. /\ pendingRequests' = [pendingRequests EXCEPT ![uri[frame]] = None]
            /\ outcome' = [outcome EXCEPT ![p] = "resolved"]
        BY <1>2, <2>4, <3>1 DEF HandleDataResponse
      <3>4. \A r \in Requests : r # p => outcome'[r] = outcome[r]
        BY <3>3 DEF TypeOK
      <3>5. ASSUME NEW u \in Uris, pendingRequests'[u] # None
            PROVE  uri[pendingRequests'[u]] = u /\ outcome'[pendingRequests'[u]] = "waiting"
        <4>1. u # uri[frame] /\ pendingRequests'[u] = pendingRequests[u]
          BY <3>3, <3>5 DEF TypeOK
        <4>2. PICK q \in Requests : q = pendingRequests[u]
          BY <3>5, <4>1 DEF TypeOK
        <4>3. uri[q] = u /\ outcome[q] = "waiting"
          BY <3>5, <4>1, <4>2 DEF PendingIsOpen
        <4>4. q # p
          BY <3>2, <4>1, <4>3
        <4>. QED BY <3>4, <4>1, <4>2, <4>3, <4>4
      <3>. QED BY <1>0, <3>2, <3>4, <3>5 DEF PendingIsOpen
    <2>. QED BY <2>3, <2>4
  <1>. QED BY <1>1, <1>2 DEF HandleFrame, IgnoreFrame, HandleWelcome

LEMMA PendingStep ==
  ASSUME TypeOK, Known, PendingIsOpen, Next
  PROVE  PendingIsOpen' /\ Made'
  <1>. USE DEF clientVars, requestVars, linkVars, serverVars
  <1>0. Made
    BY DEF Known, Made
  <1>q. ASSUME UNCHANGED requestVars, UNCHANGED buffer PROVE PendingIsOpen' /\ Made'
    BY <1>0, <1>q DEF PendingIsOpen, Made
  <1>1. ASSUME NEW c \in Connections,
               \/ Connect(c) \/ Establish(c) \/ HandshakeTimeout(c) \/ ClientClosed(c)
               \/ ServerWelcomes(c) \/ ServerFetches(c) \/ ServerClosed(c)
        PROVE  PendingIsOpen' /\ Made'
    BY <1>1, <1>q DEF Connect, Establish, HandshakeTimeout, ClientClosed, ServerWelcomes,
                      ServerFetches, ServerClosed
  <1>2. ASSUME NEW c \in Connections, ClientReceives(c) PROVE PendingIsOpen' /\ Made'
    <2>1. toClient[c] # <<>> /\ toClient' = [toClient EXCEPT ![c] = Tail(@)]
          /\ UNCHANGED <<requestCount, uri>>
      BY <1>2 DEF ClientReceives, CanReceive
    <2>2. Head(toClient[c]) \in Frames /\ In(toClient[c], Head(toClient[c]))
      BY <2>1, ClientTakes DEF Removed
    <2>3. Head(toClient[c]) \in Requests => Head(toClient[c]) <= requestCount
      BY <2>2 DEF Known, At, Kinds
    <2>4. PICK frame \in Frames : /\ frame \in Requests => frame <= requestCount
                                  /\ HandleFrame(frame) \/ IgnoreFrame
      BY <1>2, <2>2, <2>3, Distinct DEF ClientReceives, Known
    <2>5. PendingIsOpen' /\ \A r \in Requests : r > requestCount => outcome'[r] = "unmade"
      BY <2>1, <2>4, FrameSettles
    <2>6. buffer' = buffer \/ buffer' = Garbage
      BY <1>2 DEF ClientReceives
    <2>7. Garbage \notin Requests
      BY ChannelAssumption
    <2>. QED BY <1>0, <2>1, <2>5, <2>6, <2>7 DEF Made
  <1>3. ASSUME NEW c \in Connections, Break(c) PROVE PendingIsOpen' /\ Made'
    <2>1. UNCHANGED requestVars /\ (buffer' = buffer \/ (toClient[c] # <<>> /\ buffer' = Head(toClient[c])))
      BY <1>3 DEF Break
    <2>2. toClient[c] # <<>> => In(toClient[c], Head(toClient[c]))
      <3>1. toClient[c] \in Seq(Frames)
        BY DEF TypeOK
      <3>. QED BY <3>1, InTail
    <2>3. toClient[c] # <<>> /\ Head(toClient[c]) \in Requests => Head(toClient[c]) <= requestCount
      BY <2>2 DEF Known, At, Kinds
    <2>. QED BY <1>0, <2>1, <2>3 DEF PendingIsOpen, Made
  <1>4. CASE Disconnect
    BY <1>4, <1>q DEF Disconnect
  <1>5. ASSUME NEW r \in Requests, NEW u \in Uris, FetchData(r, u) PROVE PendingIsOpen' /\ Made'
    <2>1. /\ requestCount' = r /\ r = requestCount + 1 /\ requestCount \in Nat /\ buffer' = buffer
          /\ uri' = [uri EXCEPT ![r] = u] /\ outcome' = [outcome EXCEPT ![r] = "waiting"]
          /\ pendingRequests' = [pendingRequests EXCEPT ![u] = r]
      BY <1>5, ChannelAssumption DEF FetchData, TypeOK
    <2>2. outcome[r] = "unmade"
      BY <1>0, <2>1 DEF Made
    <2>3. /\ uri'[r] = u /\ outcome'[r] = "waiting" /\ pendingRequests'[u] = r
          /\ \A q \in Requests : q # r => uri'[q] = uri[q] /\ outcome'[q] = outcome[q]
          /\ \A v \in Uris : v # u => pendingRequests'[v] = pendingRequests[v]
      BY <2>1 DEF TypeOK
    <2>4. ASSUME NEW v \in Uris, pendingRequests'[v] # None
          PROVE  uri'[pendingRequests'[v]] = v /\ outcome'[pendingRequests'[v]] = "waiting"
      <3>1. CASE v = u
        BY <2>3, <3>1
      <3>2. CASE v # u
        <4>1. PICK q \in Requests : q = pendingRequests[v] /\ q = pendingRequests'[v]
          BY <2>3, <2>4, <3>2 DEF TypeOK
        <4>2. uri[q] = v /\ outcome[q] = "waiting"
          BY <2>3, <2>4, <3>2, <4>1 DEF PendingIsOpen
        <4>3. q # r
          BY <2>2, <4>2
        <4>. QED BY <2>3, <4>1, <4>2, <4>3
      <3>. QED BY <3>1, <3>2
    <2>5. PendingIsOpen'
      BY <2>4 DEF PendingIsOpen
    <2>6. \A q \in Requests : q <= r => q = r \/ q <= requestCount
      BY <2>1 DEF Requests
    <2>7. \A q \in Requests : q > r => q # r /\ q > requestCount
      BY <2>1 DEF Requests
    <2>8. buffer \in Requests /\ buffer <= requestCount => buffer <= r
      BY <2>1 DEF Requests
    <2>9. Made'
      BY <1>0, <2>1, <2>3, <2>6, <2>7, <2>8 DEF Made
    <2>. QED BY <2>5, <2>9
  <1>6. ASSUME NEW r \in Requests, RequestTimeout(r) PROVE PendingIsOpen' /\ Made'
    <2>1. /\ outcome[r] = "waiting" /\ UNCHANGED <<uri, requestCount, buffer>>
          /\ pendingRequests' = [pendingRequests EXCEPT ![uri[r]] = None]
          /\ outcome' = [outcome EXCEPT ![r] = "timeout"]
      BY <1>6 DEF RequestTimeout
    <2>2. /\ \A q \in Requests : q # r => outcome'[q] = outcome[q]
          /\ \A v \in Uris : pendingRequests'[v] # None => v # uri[r] /\ pendingRequests'[v] = pendingRequests[v]
      BY <2>1 DEF TypeOK
    <2>3. ASSUME NEW v \in Uris, pendingRequests'[v] # None
          PROVE  uri[pendingRequests'[v]] = v /\ outcome'[pendingRequests'[v]] = "waiting"
      <3>1. PICK q \in Requests : q = pendingRequests[v] /\ q = pendingRequests'[v]
        BY <2>2, <2>3 DEF TypeOK
      <3>2. uri[q] = v /\ outcome[q] = "waiting" /\ v # uri[r]
        BY <2>2, <2>3, <3>1 DEF PendingIsOpen
      <3>. QED BY <2>2, <3>1, <3>2
    <2>4. ~(r > requestCount)
      BY <1>0, <2>1 DEF Made
    <2>. QED BY <1>0, <2>1, <2>2, <2>3, <2>4 DEF PendingIsOpen, Made
  <1>7. ASSUME NEW r \in Requests, NEW c \in Connections, ServerAnswers(r, c)
        PROVE  PendingIsOpen' /\ Made'
    BY <1>7, <1>q DEF ServerAnswers
  <1>8. CASE ServerRestarts
    BY <1>8, <1>q DEF ServerRestarts
  <1>9. ASSUME NEW c \in Connections, NEW d \in Connections, ClientMixes(c, d)
        PROVE  PendingIsOpen' /\ Made'
    <2>1. /\ Head(toClient[c]) \in Frames /\ In(toClient[c], Head(toClient[c]))
      BY <1>9, ClientMixesTakes DEF ClientMixes, CanReceive
    <2>2. Head(toClient[c]) \in Requests => Head(toClient[c]) <= requestCount
      BY <2>1 DEF Known, At, Kinds
    <2>3. /\ HandleFrame(Head(toClient[c])) \/ IgnoreFrame
          /\ UNCHANGED <<requestCount, uri>> /\ buffer' = Garbage
      BY <1>9 DEF ClientMixes
    <2>4. PendingIsOpen' /\ \A r \in Requests : r > requestCount => outcome'[r] = "unmade"
      BY <2>1, <2>2, <2>3, FrameSettles
    <2>5. Garbage \notin Requests
      BY ChannelAssumption
    <2>. QED BY <1>0, <2>3, <2>4, <2>5 DEF Made
  <1>. QED BY <1>1, <1>2, <1>3, <1>4, <1>5, <1>6, <1>7, <1>8, <1>9 DEF Next

-----------------------------------------------------------------------------
LEMMA NextIInv == IInv /\ [Next]_vars => IInv'
  <1>. SUFFICES ASSUME IInv, [Next]_vars PROVE IInv'
    OBVIOUS
  <1>1. CASE Next
    <2>1. TypeOK' /\ PendingIsOpen' /\ Made' /\ InOrder'
      BY <1>1, TypeStep, PendingStep, MovesStep DEF IInv
    <2>2. \A r \in Requests : Fewer(r) \/ Single(r)
      BY <1>1, MovesStep DEF IInv
    <2>3. OnePlace'
      <3>. SUFFICES ASSUME NEW r \in Requests, NEW k1 \in Kinds, NEW k2 \in Kinds,
                           NEW c1 \in Connections, NEW c2 \in Connections,
                           At(k1, r, c1)', At(k2, r, c2)'
           PROVE  k1 = k2 /\ c1 = c2
        BY DEF OnePlace
      <3>1. OnePlace
        BY DEF IInv
      <3>. QED BY <2>2, <3>1, OnePlaceStep
    <2>4. ASSUME NEW r \in Requests, NEW k \in Kinds, NEW c \in Connections, At(k, r, c)'
          PROVE  r <= requestCount'
      <3>1. requestCount' = requestCount \/ requestCount' = requestCount + 1
        BY <1>1 DEF Next, Connect, Establish, HandshakeTimeout, ClientClosed, ClientReceives,
             ClientMixes, Break, ServerWelcomes, ServerFetches, ServerClosed, Disconnect, FetchData, RequestTimeout,
             ServerAnswers, ServerRestarts, requestVars
      <3>2. requestCount \in Nat /\ r \in Nat
        BY ChannelAssumption DEF IInv, TypeOK, Requests
      <3>3. r = requestCount' \/ \E j \in Kinds, d \in Connections : At(j, r, d)
        BY <2>2, <2>4 DEF Fewer, Single
      <3>4. (\E j \in Kinds, d \in Connections : At(j, r, d)) => r <= requestCount
        BY DEF IInv, Known
      <3>. QED BY <3>1, <3>2, <3>3, <3>4
    <2>5. Known'
      BY <2>1, <2>4 DEF Known, Made
    <2>. QED BY <2>1, <2>3, <2>5 DEF IInv
  <1>2. CASE UNCHANGED vars
    <2>. USE <1>2 DEF vars, clientVars, requestVars, linkVars, serverVars
    <2>1. TypeOK' /\ PendingIsOpen' /\ InOrder'
      BY DEF IInv, TypeOK, PendingIsOpen, InOrder
    <2>2. Known' /\ OnePlace'
      BY DEF IInv, Known, OnePlace, At
    <2>. QED BY <2>1, <2>2 DEF IInv
  <1>. QED BY <1>1, <1>2

\* The inductive invariant of the channel: types, requests made before they travel,
\* one place for each (rpc-client.ts:31-235, rpc-server.ts:131-380), however many
\* connections are begun, lost and left behind.
THEOREM ChannelInvariant == Spec => []IInv
  BY InitIInv, NextIInv, PTL DEF Spec

\* The channel keeps its types (rpc-client.ts:23-35, rpc-server.ts:32-83).
THEOREM ChannelTypeCorrect == Spec => []TypeOK
  <1>1. IInv => TypeOK BY DEF IInv
  <1>. QED BY <1>1, ChannelInvariant, PTL

\* Whatever is lost, reordered or asked for twice, what waits for an answer is an
\* open request for that URI (rpc-client.ts:149-153, 179-183).
THEOREM PendingIsOpenCorrect == Spec => []PendingIsOpen
  <1>1. IInv => PendingIsOpen BY DEF IInv
  <1>. QED BY <1>1, ChannelInvariant, PTL

-----------------------------------------------------------------------------
\* Handshakes: one is put on the client's socket, when a connection is made.
LEMMA HandshakesFade ==
  ASSUME TypeOK, Next, NEW c \in Connections
  PROVE  \/ /\ In(toServer'[c], Handshake) => In(toServer[c], Handshake)
            /\ Once(toServer[c], Handshake) => Once(toServer'[c], Handshake)
         \/ \E d \in Connections : Establish(d) /\ socket = c
  <1>. USE DEF clientVars, requestVars, linkVars, serverVars
  <1>. DEFINE Fades == /\ In(toServer'[c], Handshake) => In(toServer[c], Handshake)
                       /\ Once(toServer[c], Handshake) => Once(toServer'[c], Handshake)
  <1>0. CASE toServer' = toServer
    BY <1>0
  <1>1. ASSUME NEW d \in Connections, ServerWelcomes(d) \/ ServerFetches(d)
        PROVE  Fades
    <2>1. toServer[d] # <<>> /\ toServer' = [toServer EXCEPT ![d] = Tail(@)]
      BY <1>1 DEF ServerWelcomes, ServerFetches
    <2>. QED BY <2>1, ServerTakes DEF Removed
  <1>2. ASSUME NEW d \in Connections, Establish(d), socket # c
        PROVE  Fades
    <2>1. Handshake \in Frames /\ ClientSends(Handshake)
      BY <1>2, Distinct DEF Establish
    <2>2. toServer' = toServer \/ Added(toServer, toServer', socket, Handshake)
      BY <2>1, ClientPuts
    <2>. QED BY <1>2, <2>2 DEF Added
  <1>3. ASSUME NEW r \in Requests, NEW u \in Uris, FetchData(r, u)
        PROVE  Fades
    <2>1. r \in Frames /\ r # Handshake /\ ClientSends(r)
      BY <1>3, Distinct DEF FetchData
    <2>2. toServer' = toServer \/ Added(toServer, toServer', socket, r)
      BY <2>1, ClientPuts
    <2>. QED BY <2>1, <2>2 DEF Added
  <1>4. ASSUME toServer'[c] = <<>> PROVE Fades
    BY <1>4, InEmpty
  <1>5. ASSUME NEW d \in Connections, Break(d) PROVE Fades
    <2>1. toServer'[c] = toServer[c] \/ toServer'[c] = <<>>
      BY <1>5 DEF Break, TypeOK
    <2>. QED BY <1>4, <2>1
  <1>6. CASE ServerRestarts
    <2>1. toServer'[c] = <<>>
      BY <1>6 DEF ServerRestarts
    <2>. QED BY <1>4, <2>1
  <1>. QED BY <1>0, <1>1, <1>2, <1>3, <1>5, <1>6
       DEF Next, Connect, HandshakeTimeout, ClientClosed, ClientReceives, ClientMixes,
           ServerClosed, Disconnect, RequestTimeout, ServerAnswers

\* What a step may do to a connection's ends and to the client's socket.
EndsKept(c) ==
    /\ clientSide'[c] \in Unmade => clientSide[c] \in Unmade
    /\ clientSide'[c] \in Opening =>
         \/ clientSide[c] \in Opening
         \/ clientSide[c] = "none" /\ socket' = c
    /\ serverSide[c] = "none" => serverSide'[c] = "none" \/ clientSide'[c] \notin Unmade

LEMMA EndsMove ==
  ASSUME TypeOK, Next, NEW c \in Connections
  PROVE  EndsKept(c)
  <1>. USE DEF TypeOK, clientVars, requestVars, linkVars, serverVars, EndsKept, Unmade, Opening
  <1>1. ASSUME NEW d \in Connections, Connect(d) PROVE EndsKept(c)
    BY <1>1 DEF Connect
  <1>2. ASSUME NEW d \in Connections, Establish(d) PROVE EndsKept(c)
    BY <1>2 DEF Establish
  <1>3. ASSUME NEW d \in Connections, ClientClosed(d) PROVE EndsKept(c)
    BY <1>3 DEF ClientClosed
  <1>4. ASSUME NEW d \in Connections, ServerClosed(d) PROVE EndsKept(c)
    BY <1>4 DEF ServerClosed
  <1>5. CASE Disconnect
    BY <1>5 DEF Disconnect
  <1>6. CASE ServerRestarts
    BY <1>6 DEF ServerRestarts
  <1>7. CASE UNCHANGED <<clientSide, serverSide>>
    BY <1>7
  <1>. QED BY <1>1, <1>2, <1>3, <1>4, <1>5, <1>6, <1>7
       DEF Next, HandshakeTimeout, ClientReceives, ClientMixes, Break, ServerWelcomes,
           ServerFetches, FetchData, RequestTimeout, ServerAnswers

\* The client's socket changes when a connection begins, or is given up.
LEMMA SocketMoves ==
  ASSUME TypeOK, Next, NEW c \in Connections, socket' = c
  PROVE  \/ socket = c
         \/ /\ clientSide[c] = "none" /\ clientSide'[c] = "opening"
            /\ \A d \in Connections : d # c => clientSide'[d] = clientSide[d]
  <1>1. ASSUME NEW d \in Connections, Connect(d)
        PROVE  /\ socket' = d /\ clientSide[d] = "none" /\ clientSide'[d] = "opening"
               /\ \A e \in Connections : e # d => clientSide'[e] = clientSide[e]
    BY <1>1 DEF Connect, TypeOK
  <1>2. Disconnect => socket' = None
    BY DEF Disconnect
  <1>3. None \notin Connections
    BY Distinct
  <1>4. socket' = socket \/ Disconnect \/ \E d \in Connections : Connect(d)
    BY DEF Next, Establish, HandshakeTimeout, ClientClosed, ClientReceives, ClientMixes, Break,
           ServerWelcomes, ServerFetches, ServerClosed, FetchData, RequestTimeout, ServerAnswers,
           ServerRestarts, clientVars, requestVars
  <1>. QED BY <1>1, <1>2, <1>3, <1>4

LEMMA OvertakenStep ==
  ASSUME TypeOK, Overtaken, Next, hasty' = hasty \cup {c \in Connections : BeginsHasty(c)}
  PROVE  Overtaken'
  <1>1. hasty' \subseteq Connections /\ hasty \subseteq hasty'
    BY DEF Overtaken
  <1>2. \A c \in Connections : EndsKept(c)
    BY EndsMove
  <1>3. \A c \in Connections : clientSide'[c] \in Unmade => serverSide'[c] = "none"
    BY <1>2 DEF Overtaken, EndsKept
  <1>4. ASSUME NEW c \in Connections, NEW d \in Connections, socket' = c,
               clientSide'[d] \in Opening, c # d
        PROVE  c \in hasty'
    <2>1. clientSide[d] \in Opening
      BY <1>2, <1>4 DEF EndsKept
    <2>2. CASE socket = c
      BY <1>1, <1>4, <2>1, <2>2 DEF Overtaken
    <2>3. CASE clientSide[c] = "none" /\ clientSide'[c] = "opening"
      <3>1. BeginsHasty(c)
        BY <2>1, <2>3 DEF BeginsHasty
      <3>. QED BY <3>1
    <2>. QED BY <1>4, <2>2, <2>3, SocketMoves
  <1>. QED BY <1>1, <1>3, <1>4 DEF Overtaken

-----------------------------------------------------------------------------
\* Sessions: what a step may do to the table.
Welcomed(c) ==
    /\ serverSide[c] = "open" /\ UNCHANGED <<clientSide, serverSide>>
    /\ In(toServer[c], Handshake)
    /\ Once(toServer[c], Handshake) => ~In(toServer'[c], Handshake)
    /\ clients' = clients \cup {[id |-> nextClientID, socket |-> c]}
    /\ nextClientID' = nextClientID + 1

Dropped(c) ==
    /\ \A d \in Connections : d # c => serverSide'[d] = serverSide[d]
    /\ clients' \subseteq clients
    /\ \A s \in clients : s.socket = c /\ SessionsOf(c) = {s} => s \notin clients'
    /\ nextClientID' = nextClientID

TableKept ==
    /\ clients' = clients /\ nextClientID' = nextClientID
    /\ \A c \in Connections : serverSide[c] = "open" => serverSide'[c] = "open"

LEMMA TableMoves ==
  ASSUME TypeOK, Next
  PROVE  \/ TableKept
         \/ clients' = {}
         \/ \E c \in Connections : ServerWelcomes(c) /\ Welcomed(c)
         \/ \E c \in Connections : Dropped(c)
  <1>. USE DEF clientVars, requestVars, linkVars, serverVars
  <1>1. ASSUME NEW c \in Connections, ServerWelcomes(c) PROVE Welcomed(c)
    <2>1. /\ toServer[c] # <<>> /\ Head(toServer[c]) = Handshake
          /\ toServer' = [toServer EXCEPT ![c] = Tail(@)]
      BY <1>1 DEF ServerWelcomes
    <2>2. In(toServer[c], Handshake) /\ (Once(toServer[c], Handshake) => ~In(toServer'[c], Handshake))
      BY <2>1, ServerTakes DEF Removed
    <2>. QED BY <1>1, <2>2 DEF ServerWelcomes, Welcomed
  <1>2. ASSUME NEW c \in Connections, ServerClosed(c) PROVE Dropped(c)
    <2>1. /\ \A d \in Connections : d # c => serverSide'[d] = serverSide[d]
          /\ nextClientID' = nextClientID
          /\ clients' = clients \ {s \in SessionsOf(c) : \A t \in SessionsOf(c) : s.id <= t.id}
      BY <1>2 DEF ServerClosed, TypeOK
    <2>2. ASSUME NEW s \in clients, SessionsOf(c) = {s} PROVE s \notin clients'
      <3>1. s.id <= s.id
        BY DEF TypeOK, Session
      <3>. QED BY <2>1, <2>2, <3>1
    <2>. QED BY <2>1, <2>2 DEF Dropped
  <1>3. CASE ServerRestarts
    BY <1>3 DEF ServerRestarts
  <1>4. ASSUME NEW c \in Connections, Establish(c) PROVE TableKept
    BY <1>4 DEF Establish, TypeOK, TableKept
  <1>5. CASE UNCHANGED <<clients, nextClientID, serverSide>>
    BY <1>5 DEF TableKept
  <1>. QED BY <1>1, <1>2, <1>3, <1>4, <1>5
       DEF Next, Connect, HandshakeTimeout, ClientClosed, ClientReceives, ClientMixes, Break,
           ServerFetches, Disconnect, FetchData, RequestTimeout, ServerAnswers

LEMMA NumberedStep ==
  ASSUME TypeOK, Numbered, Next
  PROVE  Numbered'
  <1>0. nextClientID \in Nat /\ \A s \in clients : s.id \in Nat
    BY DEF TypeOK, Session
  <1>1. ASSUME NEW c \in Connections, Welcomed(c) PROVE Numbered'
    <2>1. /\ clients' = clients \cup {[id |-> nextClientID, socket |-> c]}
          /\ nextClientID' = nextClientID + 1
      BY <1>1 DEF Welcomed
    <2>2. \A s \in clients' : s \in clients \/ (s = [id |-> nextClientID, socket |-> c] /\ s.id = nextClientID)
      BY <2>1
    <2>3. \A s \in clients : s.id < nextClientID /\ s.id # nextClientID /\ s.id < nextClientID'
      BY <1>0, <2>1 DEF Numbered
    <2>. QED BY <1>0, <2>1, <2>2, <2>3 DEF Numbered
  <1>2. CASE TableKept \/ \E c \in Connections : Dropped(c)
    BY <1>2 DEF TableKept, Dropped, Numbered
  <1>3. CASE clients' = {}
    BY <1>3 DEF Numbered
  <1>. QED BY <1>1, <1>2, <1>3, TableMoves

LEMMA ShakesOnceStep ==
  ASSUME TypeOK, Overtaken, Next, NEW c \in Connections, c \notin hasty, ShakesOnce(c)
  PROVE  ShakesOnce(c)'
  <1>0. EndsKept(c) /\ TypeOK
    BY EndsMove
  <1>. DEFINE JustMade == clientSide'[c] \notin Unmade /\ serverSide[c] = "none"
  <1>1. /\ Once(toServer'[c], Handshake)
        /\ In(toServer'[c], Handshake) => In(toServer[c], Handshake) \/ JustMade
    <2>1. CASE /\ In(toServer'[c], Handshake) => In(toServer[c], Handshake)
               /\ Once(toServer[c], Handshake) => Once(toServer'[c], Handshake)
      BY <2>1 DEF ShakesOnce
    <2>2. ASSUME NEW d \in Connections, Establish(d), socket = c
          PROVE  Once(toServer'[c], Handshake) /\ JustMade
      <3>1. d = c /\ clientSide[c] \in Opening /\ serverSide[c] = "none"
        BY <2>2 DEF Establish, Overtaken, Unmade
      <3>2. clientSide'[c] \notin Unmade
        BY <2>2, <3>1 DEF Establish, TypeOK, Unmade, Opening
      <3>3. ~In(toServer[c], Handshake) /\ Once(toServer[c], Handshake)
        BY <3>1 DEF ShakesOnce, Unmade
      <3>4. toServer' = toServer \/ Added(toServer, toServer', c, Handshake)
        BY <2>2, Distinct, ClientPuts DEF Establish
      <3>5. Once(toServer'[c], Handshake)
        BY <3>3, <3>4 DEF Added
      <3>. QED BY <3>1, <3>2, <3>5
    <2>3. CASE \E d \in Connections : Establish(d) /\ socket = c
      BY <2>2, <2>3
    <2>. QED BY <2>1, <2>3, HandshakesFade
  <1>2. clientSide'[c] \in Unmade => ~In(toServer'[c], Handshake)
    BY <1>0, <1>1 DEF EndsKept, ShakesOnce
  <1>3. \A s \in clients : s.socket = c => ~In(toServer'[c], Handshake)
    BY <1>1 DEF ShakesOnce
  <1>4. CASE TableKept
    BY <1>1, <1>2, <1>3, <1>4 DEF TableKept, ShakesOnce
  <1>5. CASE clients' = {}
    BY <1>1, <1>2, <1>5 DEF ShakesOnce
  <1>6. ASSUME NEW d \in Connections, Dropped(d) PROVE ShakesOnce(c)'
    <2>1. /\ clients' \subseteq clients /\ (d # c => serverSide'[c] = serverSide[c])
          /\ \A s \in clients : s.socket = d /\ SessionsOf(d) = {s} => s \notin clients'
      BY <1>6 DEF Dropped
    <2>2. ASSUME NEW s \in clients', s.socket = c PROVE d # c
      <3>1. s \in clients /\ SessionsOf(c) = {s}
        BY <2>1, <2>2 DEF ShakesOnce, SessionsOf
      <3>. QED BY <2>1, <2>2, <3>1
    <2>. QED BY <1>1, <1>2, <1>3, <2>1, <2>2 DEF ShakesOnce
  <1>7. ASSUME NEW d \in Connections, Welcomed(d) PROVE ShakesOnce(c)'
    <2>1. /\ serverSide[d] = "open" /\ serverSide' = serverSide
          /\ In(toServer[d], Handshake)
          /\ Once(toServer[d], Handshake) => ~In(toServer'[d], Handshake)
          /\ \A s \in clients' : s \in clients \/ (s = [id |-> nextClientID, socket |-> d] /\ s.socket = d)
      BY <1>7 DEF Welcomed
    <2>2. CASE d # c
      BY <1>1, <1>2, <1>3, <2>1, <2>2 DEF ShakesOnce
    <2>3. CASE d = c
      <3>1. \A s \in clients : s.socket # c
        BY <2>1, <2>3 DEF ShakesOnce
      <3>. QED BY <1>1, <1>2, <2>1, <2>3, <3>1 DEF ShakesOnce
    <2>. QED BY <2>2, <2>3
  <1>. QED BY <1>4, <1>5, <1>6, <1>7, TableMoves

LEMMA InitHistory == HistoryInit => HistoryInv
  <1>. SUFFICES ASSUME HistoryInit PROVE HistoryInv
    OBVIOUS
  <1>1. IInv
    BY InitIInv DEF HistoryInit
  <1>2. Overtaken /\ Numbered
    BY Distinct DEF HistoryInit, Init, Overtaken, Numbered, Opening
  <1>3. ASSUME NEW c \in Connections PROVE ShakesOnce(c)
    <2>1. toServer[c] = <<>> /\ clients = {}
      BY DEF HistoryInit, Init
    <2>. QED BY <2>1, InEmpty DEF ShakesOnce
  <1>. QED BY <1>1, <1>2, <1>3 DEF HistoryInv

LEMMA NextHistory == HistoryInv /\ [HistoryNext]_historyVars => HistoryInv'
  <1>. SUFFICES ASSUME HistoryInv, [HistoryNext]_historyVars PROVE HistoryInv'
    OBVIOUS
  <1>1. CASE HistoryNext
    <2>1. Next /\ hasty' = hasty \cup {c \in Connections : BeginsHasty(c)}
      BY <1>1 DEF HistoryNext
    <2>2. IInv' /\ TypeOK
      BY <2>1, NextIInv DEF HistoryInv, IInv
    <2>3. Overtaken' /\ Numbered'
      BY <2>1, <2>2, OvertakenStep, NumberedStep DEF HistoryInv
    <2>4. ASSUME NEW c \in Connections, c \notin hasty' PROVE ShakesOnce(c)'
      <3>1. c \notin hasty
        BY <2>1, <2>4
      <3>2. ShakesOnce(c) /\ Overtaken
        BY <3>1 DEF HistoryInv
      <3>. QED BY <2>1, <2>2, <3>1, <3>2, ShakesOnceStep
    <2>. QED BY <2>2, <2>3, <2>4 DEF HistoryInv
  <1>2. CASE UNCHANGED historyVars
    <2>1. IInv' /\ UNCHANGED vars /\ hasty' = hasty
      BY <1>2, NextIInv DEF HistoryInv, historyVars
    <2>. QED BY <2>1 DEF HistoryInv, Overtaken, Numbered, ShakesOnce, vars, clientVars, linkVars,
                         serverVars
  <1>. QED BY <1>1, <1>2

\* The inductive invariant of the sessions: a connection that was not begun while
\* another was opening shakes hands once, and has one session until it closes
\* (rpc-client.ts:40-95, 229-235, rpc-server.ts:162-174, 235-252).
THEOREM SessionInvariant == HistorySpec => []HistoryInv
  BY InitHistory, NextHistory, PTL DEF HistorySpec

\* The sessions of the server are those of connected sockets, one each and under
\* numbers of their own, through any number of restarts and lost connections: all
\* but those of sockets of hasty connects (rpc-server.ts:162-174, 235-252).
THEOREM SessionsAreLiveCorrect == HistorySpec => []SessionsAreLive
  <1>1. HistoryInv => SessionsAreLive
    <2>. SUFFICES ASSUME HistoryInv PROVE SessionsAreLive
      OBVIOUS
    <2>1. ASSUME NEW s \in clients, s.socket \notin hasty
          PROVE  serverSide[s.socket] = "open" /\ SessionsOf(s.socket) = {s}
      <3>1. s.socket \in Connections
        BY DEF HistoryInv, IInv, TypeOK, Session
      <3>2. ShakesOnce(s.socket)
        BY <2>1, <3>1 DEF HistoryInv
      <3>. QED BY <3>2 DEF ShakesOnce, SessionsOf
    <2>2. \A s, t \in clients : s.id = t.id => s = t
      BY DEF HistoryInv, Numbered
    <2>. QED BY <2>1, <2>2 DEF SessionsAreLive
  <1>. QED BY <1>1, SessionInvariant, PTL

-----------------------------------------------------------------------------
\* The three parts of Occurrences.
Asked(r) == UNION {{<<"request", c, i>> : i \in {j \in DOMAIN toServer[c] : toServer[c][j] = r}}
                     : c \in Connections}
Fetched(r) == {<<"fetch", c, 0>> : c \in {d \in Connections : <<r, d>> \in fetching}}
Answered(r) == UNION {{<<"answer", c, i>> : i \in {j \in DOMAIN toClient[c] : toClient[c][j] = r}}
                     : c \in Connections}

LEMMA AtMostOne ==
  ASSUME NEW S, \A x, y \in S : x = y
  PROVE  Cardinality(S) <= 1
  <1>1. CASE S = {}
    <2>1. Cardinality(S) = 0
      BY <1>1, FS_EmptySet
    <2>. QED BY <2>1
  <1>2. CASE S # {}
    <2>1. PICK x : x \in S
      BY <1>2
    <2>2. S = {x}
      BY <2>1
    <2>3. Cardinality(S) = 1
      BY <2>2, FS_Singleton
    <2>. QED BY <2>3
  <1>. QED BY <1>1, <1>2

\* A request is under way once at most, and is answered at most once
\* (rpc-client.ts:158-170, rpc-server.ts:230-380).
THEOREM UnderWayOnceCorrect == Spec => []UnderWayOnce
  <1>1. IInv => UnderWayOnce
    <2>. SUFFICES ASSUME IInv, NEW r \in Requests
         PROVE  Cardinality(Occurrences(r)) <= 1
      BY DEF UnderWayOnce
    <2>1. ASSUME NEW x \in Occurrences(r)
          PROVE  \E k \in Kinds, c \in Connections : \E i :
                   /\ x = <<k, c, i>> /\ At(k, r, c)
                   /\ k = "request" => i \in DOMAIN toServer[c] /\ toServer[c][i] = r
                   /\ k = "fetch" => i = 0
                   /\ k = "answer" => i \in DOMAIN toClient[c] /\ toClient[c][i] = r
      <3>1. ASSUME NEW c \in Connections, NEW i \in DOMAIN toServer[c], toServer[c][i] = r,
                   x = <<"request", c, i>>
            PROVE  /\ "request" \in Kinds /\ At("request", r, c)
                   /\ x = <<"request", c, i>> /\ i \in DOMAIN toServer[c] /\ toServer[c][i] = r
        BY <3>1 DEF At, In, Kinds
      <3>2. ASSUME NEW c \in Connections, <<r, c>> \in fetching, x = <<"fetch", c, 0>>
            PROVE  "fetch" \in Kinds /\ At("fetch", r, c) /\ x = <<"fetch", c, 0>>
        BY <3>2 DEF At, Kinds
      <3>3. ASSUME NEW c \in Connections, NEW i \in DOMAIN toClient[c], toClient[c][i] = r,
                   x = <<"answer", c, i>>
            PROVE  /\ "answer" \in Kinds /\ At("answer", r, c)
                   /\ x = <<"answer", c, i>> /\ i \in DOMAIN toClient[c] /\ toClient[c][i] = r
        BY <3>3 DEF At, In, Kinds
      <3>4. \/ \E c \in Connections : \E i \in DOMAIN toServer[c] :
                 toServer[c][i] = r /\ x = <<"request", c, i>>
            \/ \E c \in Connections : <<r, c>> \in fetching /\ x = <<"fetch", c, 0>>
            \/ \E c \in Connections : \E i \in DOMAIN toClient[c] :
                 toClient[c][i] = r /\ x = <<"answer", c, i>>
        <4>1. x \in Asked(r) \cup Fetched(r) \cup Answered(r)
          BY <2>1, Zenon DEF Occurrences, Asked, Fetched, Answered
        <4>2. x \in Asked(r) \/ x \in Fetched(r) \/ x \in Answered(r)
          BY <4>1
        <4>3. CASE x \in Asked(r)
          BY <4>3, Zenon DEF Asked
        <4>4. CASE x \in Fetched(r)
          BY <4>4, Zenon DEF Fetched
        <4>5. CASE x \in Answered(r)
          BY <4>5, Zenon DEF Answered
        <4>. QED BY <4>2, <4>3, <4>4, <4>5
      <3>5. CASE \E c \in Connections : \E i \in DOMAIN toServer[c] :
                   toServer[c][i] = r /\ x = <<"request", c, i>>
        BY <3>1, <3>5
      <3>6. CASE \E c \in Connections : <<r, c>> \in fetching /\ x = <<"fetch", c, 0>>
        BY <3>2, <3>6
      <3>7. CASE \E c \in Connections : \E i \in DOMAIN toClient[c] :
                   toClient[c][i] = r /\ x = <<"answer", c, i>>
        BY <3>3, <3>7
      <3>. QED BY <3>4, <3>5, <3>6, <3>7
    <2>2. ASSUME NEW x \in Occurrences(r), NEW y \in Occurrences(r)
          PROVE  x = y
      <3>1. PICK k1 \in Kinds, c1 \in Connections : \E i :
                   /\ x = <<k1, c1, i>> /\ At(k1, r, c1)
                   /\ k1 = "request" => i \in DOMAIN toServer[c1] /\ toServer[c1][i] = r
                   /\ k1 = "fetch" => i = 0
                   /\ k1 = "answer" => i \in DOMAIN toClient[c1] /\ toClient[c1][i] = r
        BY <2>1
      <3>2. PICK k2 \in Kinds, c2 \in Connections : \E i :
                   /\ y = <<k2, c2, i>> /\ At(k2, r, c2)
                   /\ k2 = "request" => i \in DOMAIN toServer[c2] /\ toServer[c2][i] = r
                   /\ k2 = "fetch" => i = 0
                   /\ k2 = "answer" => i \in DOMAIN toClient[c2] /\ toClient[c2][i] = r
        BY <2>1
      <3>3. k1 = k2 /\ c1 = c2
        BY <3>1, <3>2 DEF IInv, OnePlace
      <3>4. Once(toServer[c1], r) /\ Once(toClient[c1], r)
        BY Distinct DEF IInv, InOrder
      <3>. QED BY <3>1, <3>2, <3>3, <3>4 DEF Once, Kinds
    <2>. QED BY <2>2, AtMostOne
  <1>. QED BY <1>1, ChannelInvariant, PTL
=============================================================================
