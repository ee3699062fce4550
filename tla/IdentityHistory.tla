--------------------------- MODULE IdentityHistory --------------------------
(***************************************************************************)
(* ProxyIdentity with a history variable: whether the fingerprint of the   *)
(* address was taken from under something that uses it.                    *)
(***************************************************************************)
EXTENDS ProxyIdentity

VARIABLE disturbed

identityHistoryVars == <<identityVars, disturbed>>

IdentityHistoryInit == IdentityInit /\ disturbed = FALSE

Forgotten == client = None /\ browserProfile = None
UnderWay == {g \in Handlers : step[g] # "idle"}

\* A fingerprint is stored while another request is about to store its own.
HistoryStore(g, p) ==
    /\ StoreProfile(g, p)
    /\ disturbed' = (disturbed \/ \E h \in Handlers \ {g} : step[h] = "choose")

\* A client is stored that the cleaner will not see before it forgets the
\* fingerprint.
HistoryCache(g) ==
    /\ StoreClient(g)
    /\ disturbed' = (disturbed \/ cleaner = "deleteProfile"
                               \/ (cleaner = "listProfiles" /\ session = "none"))

\* The fingerprint is forgotten while a request is under way.
HistoryDelete ==
    /\ DeleteProfile
    /\ disturbed' = (disturbed \/ UnderWay # {})

\* The address starts anew when both are forgotten and no request remembers.
HistoryOther ==
    /\ \/ \E g \in Handlers : \/ Arrive(g) \/ LoadProfile(g) \/ Panic(g) \/ LoadClient(g)
                               \/ Proceed(g)
       \/ GoIdle
       \/ ListSessions \/ DeleteSession \/ ListClients \/ DeleteClient \/ ListProfiles
    /\ disturbed' = (disturbed /\ ~(Forgotten /\ UnderWay = {}))

IdentityHistoryNext ==
    \/ \E g \in Handlers, p \in Profiles : HistoryStore(g, p)
    \/ \E g \in Handlers : HistoryCache(g)
    \/ HistoryDelete
    \/ HistoryOther

IdentityHistorySpec ==
    IdentityHistoryInit /\ [][IdentityHistoryNext]_identityHistoryVars /\ IdentityFairness

-----------------------------------------------------------------------------
Matched(g, message) ==
    /\ headers[g][message] = hello[g][message]
    /\ headers[g][message] = headers[g]["request"]

\* An address is one browser: each request, and each visit it makes, goes out with
\* the headers of the browser whose hello it says, until two first requests store a
\* fingerprint each or the cleaner forgets it in use; and again once the address was
\* forgotten altogether (main.go:541-567, 628-655, 1836-1871).
OneBrowser ==
    ~disturbed =>
        /\ client # None => client = browserProfile
        /\ \A g \in Handlers :
             /\ step[g] = "send" => Matched(g, "request")
             /\ step[g] = "ready" => Matched(g, Message(errand[g]))

\* Nothing of an address stays behind: what has no session is dropped by the cleaner,
\* also what belongs to requests that never got as far as a session
\* (main.go:1836-1871).
NothingLeft == session = "none" ~> Forgotten \/ session # "none"
=============================================================================
