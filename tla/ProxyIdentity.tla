---------------------------- MODULE ProxyIdentity ---------------------------
(***************************************************************************)
(* The browser an address pretends to be (utls-proxy/main.go): the         *)
(* fingerprint that its headers are made from, the cached client that says *)
(* hello with it, and the cleaner that forgets both when the address has   *)
(* no session any more.  Nothing holds the three maps together: each is    *)
(* loaded and stored, listed and deleted, on its own.                      *)
(*                                                                         *)
(* The entries of different addresses do not touch, so this is one address *)
(* with its handler goroutines, which serve request after request.  A step *)
(* is one access to a map, a call of the random generator, or what is      *)
(* sent.  A client is the fingerprint it was built with.  Whether a        *)
(* session has to be refreshed, and who else refreshes it, is in           *)
(* ProxySession.  Requests without an address, whose clients come from a   *)
(* pool with fingerprints of their own, are left out.                      *)
(***************************************************************************)
CONSTANTS
    Handlers,       (* handler goroutines                                    *)
    Profiles,       (* browserProfiles                                       *)
    None

ASSUME IdentityAssumption == None \notin Profiles

VARIABLES
    browserProfile, (* the address's entry of browserProfileMap, or None     *)
    client,         (* its entry of ipv6ClientCache: fingerprint, or None    *)
    session,        (* its entry of sessionManager: "none", "used" or "idle" *)
    step,           (* goroutine -> its next step                            *)
    errand,         (* goroutine -> what it prepares to send                 *)
    wanted,         (* goroutine -> what the fingerprint it loads is for     *)
    headers,        (* goroutine -> message -> fingerprint of the headers    *)
    hello,          (* goroutine -> message -> fingerprint of the client     *)
    cleaner         (* the cleaner's next step                               *)

maps == <<browserProfile, client, session>>
locals == <<errand, wanted, headers, hello>>
identityVars == <<maps, step, locals, cleaner>>

\* The request itself, to the host that wants a session or to another one; the
\* visit that refreshes the session before it, and the one that answers a 403.
Errands == {"request", "plain", "visit", "revisit"}
Message(e) == IF e \in {"visit", "revisit"} THEN "visit" ELSE "request"
Messages == {"request", "visit"}
Nobody == [m \in Messages |-> None]

IdentityTypeOK ==
    /\ browserProfile \in Profiles \cup {None}
    /\ client \in Profiles \cup {None}
    /\ session \in {"none", "used", "idle"}
    /\ step \in [Handlers -> {"idle", "load", "choose", "client", "cache",
                              "ready", "attach", "send"}]
    /\ errand \in [Handlers -> Errands]
    /\ wanted \in [Handlers -> {"headers", "hello"}]
    /\ headers \in [Handlers -> [Messages -> Profiles \cup {None}]]
    /\ hello \in [Handlers -> [Messages -> Profiles \cup {None}]]
    /\ cleaner \in {"sleep", "deleteSession", "listClients", "deleteClient",
                    "listProfiles", "deleteProfile"}

IdentityInit ==
    /\ browserProfile = None
    /\ client = None
    /\ session = "none"
    /\ step = [g \in Handlers |-> "idle"]
    /\ errand = [g \in Handlers |-> "request"]
    /\ wanted = [g \in Handlers |-> "headers"]
    /\ headers = [g \in Handlers |-> Nobody]
    /\ hello = [g \in Handlers |-> Nobody]
    /\ cleaner = "sleep"

-----------------------------------------------------------------------------
Moves(g, from, to) == step[g] = from /\ step' = [step EXCEPT ![g] = to]

Arrive(g) ==
    /\ Moves(g, "idle", "load")
    /\ UNCHANGED <<maps, locals, cleaner>>

\* getBrowserProfileForIPv6 returns p to its caller: to whom sets the headers, or
\* to createUTLSClientWithIPv6.
Returns(g, from, p) ==
    \/ /\ wanted[g] = "headers"
       /\ Moves(g, from, "client")
       /\ headers' = [headers EXCEPT ![g][Message(errand[g])] = p]
       /\ UNCHANGED <<wanted, hello>>
    \/ /\ wanted[g] = "hello"
       /\ Moves(g, from, "cache")
       /\ hello' = [hello EXCEPT ![g][Message(errand[g])] = p]
       /\ wanted' = [wanted EXCEPT ![g] = "headers"]
       /\ UNCHANGED headers

LoadProfile(g) ==
    /\ \/ /\ browserProfile # None
          /\ Returns(g, "load", browserProfile)
       \/ /\ browserProfile = None
          /\ Moves(g, "load", "choose")
          /\ UNCHANGED <<wanted, headers, hello>>
    /\ UNCHANGED <<maps, errand, cleaner>>

\* The request is over, answered or not; net/http recovers from a panic.
Leave(g) ==
    /\ step' = [step EXCEPT ![g] = "idle"]
    /\ errand' = [errand EXCEPT ![g] = "request"]
    /\ wanted' = [wanted EXCEPT ![g] = "headers"]
    /\ headers' = [headers EXCEPT ![g] = Nobody]
    /\ hello' = [hello EXCEPT ![g] = Nobody]

\* rng.Intn.  The generator has no lock and serves the handlers of all addresses:
\* a call that races with another may return anything, or index out of range.
Panic(g) ==
    /\ step[g] = "choose"
    /\ Leave(g)
    /\ UNCHANGED <<maps, cleaner>>

\* rng's choice is stored whatever the map holds by now.
StoreProfile(g, p) ==
    /\ browserProfile' = p
    /\ Returns(g, "choose", p)
    /\ UNCHANGED <<client, session, errand, cleaner>>

\* getOrCreateIPv6Client: the cached client, or a new one, for which the
\* fingerprint is looked up once more.
LoadClient(g) ==
    /\ \/ /\ client # None
          /\ Moves(g, "client", "ready")
          /\ hello' = [hello EXCEPT ![g][Message(errand[g])] = client]
          /\ UNCHANGED wanted
       \/ /\ client = None
          /\ Moves(g, "client", "load")
          /\ wanted' = [wanted EXCEPT ![g] = "hello"]
          /\ UNCHANGED hello
    /\ UNCHANGED <<maps, errand, headers, cleaner>>

StoreClient(g) ==
    /\ Moves(g, "cache", "ready")
    /\ client' = hello[g][Message(errand[g])]
    /\ UNCHANGED <<browserProfile, session, locals, cleaner>>

-----------------------------------------------------------------------------
\* getOrCreateSession.
CreateSession == session' = IF session = "none" THEN "used" ELSE session

\* Another host needs no session.
NeedsNoSession(g) ==
    /\ errand[g] = "request"
    /\ Moves(g, "ready", "attach")
    /\ errand' = [errand EXCEPT ![g] = "plain"]
    /\ UNCHANGED <<maps, wanted, headers, hello, cleaner>>

\* refreshSession, where its cookies are good or another request refreshes them.
NotRefreshed(g) ==
    /\ errand[g] = "request"
    /\ Moves(g, "ready", "attach")
    /\ CreateSession
    /\ UNCHANGED <<browserProfile, client, locals, cleaner>>

\* refreshSession: the visit.
StartVisit(g) ==
    /\ errand[g] = "request"
    /\ Moves(g, "ready", "load")
    /\ errand' = [errand EXCEPT ![g] = "visit"]
    /\ CreateSession
    /\ UNCHANGED <<browserProfile, client, wanted, headers, hello, cleaner>>

\* The visit is over.
Back(g) ==
    /\ headers' = [headers EXCEPT ![g]["visit"] = None]
    /\ hello' = [hello EXCEPT ![g]["visit"] = None]

\* The visit is made; whether it succeeds or not, the request goes on.
Visit(g) ==
    /\ errand[g] = "visit"
    /\ Moves(g, "ready", "attach")
    /\ Back(g)
    /\ errand' = [errand EXCEPT ![g] = "request"]
    /\ UNCHANGED <<maps, wanted, cleaner>>

\* The request takes the session's cookies and touches it.
Attach(g) ==
    /\ Moves(g, "attach", "send")
    /\ session' = "used"
    /\ UNCHANGED <<browserProfile, client, locals, cleaner>>

\* The first 403 for a request that needs a session: a visit is forced.
Forbidden(g) ==
    /\ errand[g] = "request"
    /\ Moves(g, "send", "load")
    /\ errand' = [errand EXCEPT ![g] = "revisit"]
    /\ CreateSession
    /\ UNCHANGED <<browserProfile, client, wanted, headers, hello, cleaner>>

\* The request is sent again with the headers and the client it had, or given up.
Revisit(g) ==
    /\ errand[g] = "revisit"
    /\ step[g] = "ready"
    /\ \/ /\ Moves(g, "ready", "send")
          /\ Back(g)
          /\ UNCHANGED <<errand, wanted>>
       \/ Leave(g)
    /\ UNCHANGED <<maps, cleaner>>

\* An answer, or an error after the last try.
End(g) ==
    /\ step[g] = "send"
    /\ Leave(g)
    /\ UNCHANGED <<maps, cleaner>>

-----------------------------------------------------------------------------
\* sessionInactiveTime goes by without a request.
GoIdle ==
    /\ session = "used"
    /\ \A g \in Handlers : step[g] = "idle"
    /\ session' = "idle"
    /\ UNCHANGED <<browserProfile, client, step, locals, cleaner>>

CleanerGoes(from, to) ==
    /\ cleaner = from
    /\ cleaner' = to
    /\ UNCHANGED <<step, locals>>

\* cleanupExpiredResources: idle sessions are listed and deleted ...
ListSessions ==
    /\ CleanerGoes("sleep", IF session = "idle" THEN "deleteSession" ELSE "listClients")
    /\ UNCHANGED maps

DeleteSession ==
    /\ CleanerGoes("deleteSession", "listClients")
    /\ session' = "none"
    /\ UNCHANGED <<browserProfile, client>>

\* ... then the clients of addresses without a session ...
ListClients ==
    /\ CleanerGoes("listClients",
                   IF client # None /\ session = "none" THEN "deleteClient"
                   ELSE "listProfiles")
    /\ UNCHANGED maps

\* Mutation of DeleteClient: the client is kept.
KeepClient ==
    /\ CleanerGoes("deleteClient", "listProfiles")
    /\ UNCHANGED maps

DeleteClient ==
    /\ CleanerGoes("deleteClient", "listProfiles")
    /\ client' = None
    /\ UNCHANGED <<browserProfile, session>>

\* Mutation of ListProfiles: only what the first list of sessions named.
ListNobody ==
    /\ CleanerGoes("listProfiles", "sleep")
    /\ UNCHANGED maps

\* ... and last their fingerprints.
ListProfiles ==
    /\ CleanerGoes("listProfiles",
                   IF browserProfile # None /\ session = "none" THEN "deleteProfile"
                   ELSE "sleep")
    /\ UNCHANGED maps

DeleteProfile ==
    /\ CleanerGoes("deleteProfile", "sleep")
    /\ browserProfile' = None
    /\ UNCHANGED <<client, session>>

Clean ==
    \/ ListSessions \/ DeleteSession \/ ListClients \/ DeleteClient
    \/ ListProfiles \/ DeleteProfile

-----------------------------------------------------------------------------
Identify(g) ==
    LoadProfile(g) \/ Panic(g) \/ LoadClient(g) \/ StoreClient(g)

Proceed(g) ==
    \/ NeedsNoSession(g) \/ NotRefreshed(g) \/ StartVisit(g) \/ Visit(g) \/ Attach(g)
    \/ Forbidden(g) \/ Revisit(g) \/ End(g)

IdentityNext ==
    \/ \E g \in Handlers : Arrive(g) \/ Identify(g) \/ Proceed(g)
    \/ \E g \in Handlers, p \in Profiles : StoreProfile(g, p)
    \/ GoIdle
    \/ Clean

\* The cleaner's ticker runs for ever.
IdentityFairness == WF_identityVars(Clean)

IdentitySpec == IdentityInit /\ [][IdentityNext]_identityVars /\ IdentityFairness
=============================================================================
