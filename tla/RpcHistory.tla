----------------------------- MODULE RpcHistory -----------------------------
(***************************************************************************)
(* The RPC channel with a history variable: the connections that were      *)
(* begun while an earlier one of the client was still opening.             *)
(***************************************************************************)
EXTENDS RpcChannel

VARIABLE hasty

historyVars == <<vars, hasty>>

HistoryInit == Init /\ hasty = {}

BeginsHasty(c) ==
    /\ clientSide[c] = "none" /\ clientSide'[c] # "none"
    /\ \E d \in Connections : clientSide[d] \in Opening

HistoryNext == Next /\ hasty' = hasty \cup {c \in Connections : BeginsHasty(c)}

HistorySpec == HistoryInit /\ [][HistoryNext]_historyVars /\ Fairness

\* The server's table holds sessions of connected sockets only, one for each
\* socket, under numbers that were given out once (rpc-server.ts:162-174): all
\* but those of a socket of a hasty connect(), on which the client also shakes
\* hands for the connection that was opening before it: of its two sessions one
\* stays for ever, since a closing socket removes the first it finds (:172).
SessionsAreLive ==
    /\ \A s \in clients :
         s.socket \notin hasty =>
           /\ serverSide[s.socket] = "open"
           /\ SessionsOf(s.socket) = {s}
    /\ \A s, t \in clients : s.id = t.id => s = t
=============================================================================
