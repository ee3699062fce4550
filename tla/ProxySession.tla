---------------------------- MODULE ProxySession ----------------------------
(***************************************************************************)
(* Cookie sessions of the uTLS proxy (utls-proxy/main.go): one handler     *)
(* goroutine per request, the goroutine that cleans up idle sessions, and  *)
(* the one that adjusts how many sessions may be refreshed at a time.      *)
(*                                                                         *)
(* They share a map from address to session object, the objects, and the   *)
(* semaphore.  A step is one access to one of these: a Load or a Store of  *)
(* the map, an atomic, a channel operation, a section under the object's   *)
(* mutex.  Which fingerprint and client a refresh uses, what is sent       *)
(* upstream and how often it is retried are not modelled here.             *)
(***************************************************************************)
EXTENDS Integers, FiniteSets

CONSTANTS
    Goroutines,       (* handler goroutines: each serves one request         *)
    Addresses,        (* the addresses requests are sent from                *)
    MaxSessions,      (* bound: session objects alive at a time              *)
    MinRefresh,       (* minConcurrentRefresh                                *)
    MaxRefresh,       (* maxConcurrentRefresh: capacity of the semaphore     *)
    SessionsPerSlot,  (* sessions for each refresh allowed at a time (20)    *)
    Nil

Sessions == 1 .. MaxSessions

ASSUME SessionAssumption ==
    /\ IsFiniteSet(Goroutines)
    /\ IsFiniteSet(Addresses)
    /\ MaxSessions \in Nat
    /\ MinRefresh \in Nat \ {0}
    /\ MaxRefresh \in Nat \ {0}
    /\ SessionsPerSlot \in Nat \ {0}
    /\ Nil \notin Sessions \cup Addresses

VARIABLES
    sessionManager,   (* address -> session object, or Nil                   *)
    cookies,          (* object -> what its cookies are good for             *)
    inactive,         (* object -> lastAccess is sessionInactiveTime ago     *)
    refreshing,       (* object -> flag: a goroutine is refreshing it        *)
    slots,            (* len(sessionRefreshSem)                              *)
    currentMax,       (* currentMaxConcurrentRefresh                         *)
    pc,               (* goroutine -> the access it makes next               *)
    ipv6,             (* goroutine -> the address its request is sent from   *)
    force,            (* goroutine -> its refresh answers a 403              *)
    target,           (* goroutine -> the object refreshSession works on     *)
    refreshed,        (* goroutine -> what its last refreshSession returned  *)
    session,          (* goroutine -> the object the handler works on        *)
    toDelete          (* the cleaner's list of idle sessions' addresses      *)

objectVars == <<cookies, inactive, refreshing>>
semVars == <<slots, currentMax>>
localVars == <<ipv6, force, target, refreshed, session>>
vars == <<sessionManager, objectVars, semVars, pc, localVars, toDelete>>

\* fresh: needs no refresh.  due: usable, but five minutes from the expiry of
\* one of them, or a day old.  expired: the next cleaning drops them all.
Cookies == {"none", "fresh", "due", "expired"}

\* Of refreshSession: rng, which all goroutines use without a lock, may panic.
Outcomes == {"not asked", "nil", "error", "panic"}

Locations == {"arrive", "lookup", "create", "clean", "check", "cas", "wait",
              "slot", "push", "fetch", "pop", "unflag",
              "attach", "attachNew", "touch", "send", "giveUp", "done"}

TypeOK ==
    /\ sessionManager \in [Addresses -> Sessions \cup {Nil}]
    /\ cookies \in [Sessions -> Cookies]
    /\ inactive \in [Sessions -> BOOLEAN]
    /\ refreshing \in [Sessions -> BOOLEAN]
    /\ slots \in 0 .. MaxRefresh
    /\ currentMax \in Nat \ {0}
    /\ pc \in [Goroutines -> Locations]
    /\ ipv6 \in [Goroutines -> Addresses \cup {Nil}]
    /\ force \in [Goroutines -> BOOLEAN]
    /\ target \in [Goroutines -> Sessions \cup {Nil}]
    /\ refreshed \in [Goroutines -> Outcomes]
    /\ session \in [Goroutines -> Sessions \cup {Nil}]
    /\ toDelete \subseteq Addresses

Init ==
    /\ sessionManager = [a \in Addresses |-> Nil]
    /\ cookies = [o \in Sessions |-> "none"]
    /\ inactive = [o \in Sessions |-> FALSE]
    /\ refreshing = [o \in Sessions |-> FALSE]
    /\ slots = 0
    /\ currentMax = MinRefresh
    /\ pc = [g \in Goroutines |-> "arrive"]
    /\ ipv6 = [g \in Goroutines |-> Nil]
    /\ force = [g \in Goroutines |-> FALSE]
    /\ target = [g \in Goroutines |-> Nil]
    /\ refreshed = [g \in Goroutines |-> "not asked"]
    /\ session = [g \in Goroutines |-> Nil]
    /\ toDelete = {}

-----------------------------------------------------------------------------
Goto(g, from, to) == pc[g] = from /\ pc' = [pc EXCEPT ![g] = to]

\* An object nobody refers to any more is free to stand for a new one.
InUse(o) ==
    \/ \E a \in Addresses : sessionManager[a] = o
    \/ \E g \in Goroutines : target[g] = o \/ session[g] = o

New(o) == ~InUse(o) /\ \A p \in Sessions : p < o => InUse(p)

\* getOrCreateSession stores its new object whatever the map holds by now.
StoreSession(g, o) ==
    /\ New(o)
    /\ sessionManager' = [sessionManager EXCEPT ![ipv6[g]] = o]
    /\ cookies' = [cookies EXCEPT ![o] = "none"]
    /\ inactive' = [inactive EXCEPT ![o] = FALSE]
    /\ UNCHANGED refreshing

\* A request for kh.google.com refreshes the session first, others do not.
Arrive(g, a) ==
    /\ \/ Goto(g, "arrive", "lookup")
       \/ Goto(g, "arrive", "attach")
    /\ ipv6' = [ipv6 EXCEPT ![g] = a]
    /\ UNCHANGED <<sessionManager, objectVars, semVars, force, target,
                   refreshed, session, toDelete>>

-----------------------------------------------------------------------------
\* refreshSession: getOrCreateSession.
Lookup(g) ==
    /\ \/ Goto(g, "lookup", "clean") /\ sessionManager[ipv6[g]] # Nil
       \/ Goto(g, "lookup", "create") /\ sessionManager[ipv6[g]] = Nil
    /\ target' = [target EXCEPT ![g] = sessionManager[ipv6[g]]]
    /\ UNCHANGED <<sessionManager, objectVars, semVars, ipv6, force, refreshed,
                   session, toDelete>>

Create(g, o) ==
    /\ Goto(g, "create", "clean")
    /\ StoreSession(g, o)
    /\ target' = [target EXCEPT ![g] = o]
    /\ UNCHANGED <<semVars, ipv6, force, refreshed, session, toDelete>>

\* cleanExpiredCookies
Clean(g) ==
    /\ Goto(g, "clean", "check")
    /\ cookies' = [cookies EXCEPT ![target[g]] = IF @ = "expired" THEN "none" ELSE @]
    /\ UNCHANGED <<sessionManager, inactive, refreshing, semVars, localVars, toDelete>>

\* refreshSession returns: the handler goes on without new cookies if a first
\* refresh failed; it retries with the object it has after a forced one, and
\* gives up if that failed.  A panic takes the handler with it.
Return(g, from, err) ==
    /\ \/ ~force[g] /\ err # "panic" /\ Goto(g, from, "attach")
       \/ force[g] /\ err = "nil" /\ Goto(g, from, "send")
       \/ force[g] /\ err # "nil" /\ Goto(g, from, "giveUp")
       \/ err = "panic" /\ Goto(g, from, "giveUp")
    /\ refreshed' = [refreshed EXCEPT ![g] = err]

NeedsRefresh(g) == force[g] \/ cookies[target[g]] # "fresh"

StillFresh(g) ==
    /\ Return(g, "check", "nil")
    /\ ~NeedsRefresh(g)
    /\ UNCHANGED <<sessionManager, objectVars, semVars, ipv6, force, target,
                   session, toDelete>>

Stale(g) ==
    /\ Goto(g, "check", "cas")
    /\ NeedsRefresh(g)
    /\ UNCHANGED <<sessionManager, objectVars, semVars, localVars, toDelete>>

\* Mutation of Claim: the flag is stored without a look at it.
ClaimBlindly(g) ==
    /\ Goto(g, "cas", "slot")
    /\ refreshing' = [refreshing EXCEPT ![target[g]] = TRUE]
    /\ UNCHANGED <<sessionManager, cookies, inactive, semVars, localVars, toDelete>>

\* The CompareAndSwap that makes this goroutine the one that refreshes.
Claim(g) ==
    /\ Goto(g, "cas", "slot")
    /\ ~refreshing[target[g]]
    /\ refreshing' = [refreshing EXCEPT ![target[g]] = TRUE]
    /\ UNCHANGED <<sessionManager, cookies, inactive, semVars, localVars, toDelete>>

LoseClaim(g) ==
    /\ Goto(g, "cas", "wait")
    /\ refreshing[target[g]]
    /\ UNCHANGED <<sessionManager, objectVars, semVars, localVars, toDelete>>

\* The other refresh is over: nil, however it ended.
Waited(g) ==
    /\ Return(g, "wait", "nil")
    /\ ~refreshing[target[g]]
    /\ UNCHANGED <<sessionManager, objectVars, semVars, ipv6, force, target,
                   session, toDelete>>

\* The poll of the number of slots in use, and only then the semaphore.
PollSlots(g) ==
    /\ Goto(g, "slot", "push")
    /\ slots < currentMax
    /\ UNCHANGED <<sessionManager, objectVars, semVars, localVars, toDelete>>

Push(g) ==
    /\ Goto(g, "push", "fetch")
    /\ slots < MaxRefresh
    /\ slots' = slots + 1
    /\ UNCHANGED <<sessionManager, objectVars, currentMax, localVars, toDelete>>

\* The visit to earth.google.com brought cookies, or did not.
RefreshSucceeds(g, expiry) ==
    /\ Goto(g, "fetch", "pop")
    /\ cookies' = [cookies EXCEPT ![target[g]] = expiry]
    /\ refreshed' = [refreshed EXCEPT ![g] = "nil"]
    /\ UNCHANGED <<sessionManager, inactive, refreshing, semVars, ipv6, force,
                   target, session, toDelete>>

\* Mutation of RefreshFails: an early return that keeps the slot.
FailWithSlot(g) ==
    /\ Goto(g, "fetch", "unflag")
    /\ refreshed' = [refreshed EXCEPT ![g] = "error"]
    /\ UNCHANGED <<sessionManager, objectVars, semVars, ipv6, force, target,
                   session, toDelete>>

\* It failed, or did not begin: no profile or headers (rng).
RefreshFails(g) ==
    /\ Goto(g, "fetch", "pop")
    /\ \E err \in {"error", "panic"} : refreshed' = [refreshed EXCEPT ![g] = err]
    /\ UNCHANGED <<sessionManager, objectVars, semVars, ipv6, force, target,
                   session, toDelete>>

\* Mutation of Unflag: the flag is reset after a success only.
UnflagIfRefreshed(g) ==
    /\ Return(g, "unflag", refreshed[g])
    /\ refreshing' = [refreshing EXCEPT ![target[g]] = refreshed[g] # "nil"]
    /\ UNCHANGED <<sessionManager, cookies, inactive, semVars, ipv6, force,
                   target, session, toDelete>>

\* The deferred calls, on every way out: the slot first, the flag last.
Pop(g) ==
    /\ Goto(g, "pop", "unflag")
    /\ slots' = slots - 1
    /\ UNCHANGED <<sessionManager, objectVars, currentMax, localVars, toDelete>>

Unflag(g) ==
    /\ Return(g, "unflag", refreshed[g])
    /\ refreshing' = [refreshing EXCEPT ![target[g]] = FALSE]
    /\ UNCHANGED <<sessionManager, cookies, inactive, semVars, ipv6, force,
                   target, session, toDelete>>

-----------------------------------------------------------------------------
\* proxyHandler: getOrCreateSession again, for the cookies to send.
Attach(g) ==
    /\ \/ Goto(g, "attach", "touch") /\ sessionManager[ipv6[g]] # Nil
       \/ Goto(g, "attach", "attachNew") /\ sessionManager[ipv6[g]] = Nil
    /\ session' = [session EXCEPT ![g] = sessionManager[ipv6[g]]]
    /\ UNCHANGED <<sessionManager, objectVars, semVars, ipv6, force, target,
                   refreshed, toDelete>>

AttachNew(g, o) ==
    /\ Goto(g, "attachNew", "touch")
    /\ StoreSession(g, o)
    /\ session' = [session EXCEPT ![g] = o]
    /\ UNCHANGED <<semVars, ipv6, force, target, refreshed, toDelete>>

\* lastAccess is set, and the cookies to send are taken, under the object's mutex.
Touch(g) ==
    /\ Goto(g, "touch", "send")
    /\ inactive' = [inactive EXCEPT ![session[g]] = FALSE]
    /\ UNCHANGED <<sessionManager, cookies, refreshing, semVars, ipv6, force,
                   target, refreshed, session, toDelete>>

\* 403 on a request that needs a session: one forced refresh.
Forbidden(g) ==
    /\ refreshed[g] # "not asked"
    /\ ~force[g]
    /\ Goto(g, "send", "lookup")
    /\ force' = [force EXCEPT ![g] = TRUE]
    /\ UNCHANGED <<sessionManager, objectVars, semVars, ipv6, target, refreshed,
                   session, toDelete>>

\* The handler panics in rng, with the profile or the headers of a first try;
\* net/http recovers.  With those of another try it is past all steps here.
Panic(g) ==
    /\ Goto(g, "lookup", "giveUp") \/ Goto(g, "attach", "giveUp")
    /\ ~force[g]
    /\ UNCHANGED <<sessionManager, objectVars, semVars, localVars, toDelete>>

\* The request is answered, with what the upstream says or an error, or a panic
\* closed its connection.
Answer(g) ==
    /\ Goto(g, "send", "done") \/ Goto(g, "giveUp", "done")
    /\ target' = [target EXCEPT ![g] = Nil]
    /\ session' = [session EXCEPT ![g] = Nil]
    /\ UNCHANGED <<sessionManager, objectVars, semVars, ipv6, force, refreshed, toDelete>>

-----------------------------------------------------------------------------
\* cleanupExpiredResources: the addresses of idle sessions are collected first
\* and deleted one by one after, whatever became of them since.
Scan ==
    /\ toDelete = {}
    /\ toDelete' = {a \in Addresses :
                      sessionManager[a] # Nil /\ inactive[sessionManager[a]]}
    /\ UNCHANGED <<sessionManager, objectVars, semVars, pc, localVars>>

Delete(a) ==
    /\ a \in toDelete
    /\ toDelete' = toDelete \ {a}
    /\ sessionManager' = [sessionManager EXCEPT ![a] = Nil]
    /\ UNCHANGED <<objectVars, semVars, pc, localVars>>

\* calculateOptimalConcurrency
Clamp(n) ==
    LET raised == IF n < MinRefresh THEN MinRefresh ELSE n
    IN  IF raised > MaxRefresh THEN MaxRefresh ELSE raised

Optimal ==
    Clamp(Cardinality({a \in Addresses : sessionManager[a] # Nil}) \div SessionsPerSlot)

Adjust ==
    /\ currentMax' = Optimal
    /\ UNCHANGED <<sessionManager, objectVars, slots, pc, localVars, toDelete>>

\* Time passes.  A request takes far less than sessionInactiveTime, so an
\* object in the hands of one does not become idle.
GoIdle(o) ==
    /\ \E a \in Addresses : sessionManager[a] = o
    /\ \A g \in Goroutines : target[g] # o /\ session[g] # o
    /\ inactive' = [inactive EXCEPT ![o] = TRUE]
    /\ UNCHANGED <<sessionManager, cookies, refreshing, semVars, pc, localVars, toDelete>>

AgeCookies(o) ==
    /\ cookies[o] \in {"fresh", "due"}
    /\ InUse(o)
    /\ cookies' = [cookies EXCEPT ![o] = IF @ = "fresh" THEN "due" ELSE "expired"]
    /\ UNCHANGED <<sessionManager, inactive, refreshing, semVars, pc, localVars, toDelete>>

-----------------------------------------------------------------------------
Refresh(g) ==
    \/ Lookup(g) \/ (\E o \in Sessions : Create(g, o)) \/ Clean(g)
    \/ StillFresh(g) \/ Stale(g) \/ Claim(g) \/ LoseClaim(g) \/ Waited(g)
    \/ PollSlots(g) \/ Push(g) \/ (\E e \in {"fresh", "due"} : RefreshSucceeds(g, e))
    \/ RefreshFails(g) \/ Pop(g) \/ Unflag(g)

Handle(g) ==
    \/ Attach(g) \/ (\E o \in Sessions : AttachNew(g, o)) \/ Touch(g)
    \/ Forbidden(g) \/ Panic(g) \/ Answer(g)

Environment == \E o \in Sessions : GoIdle(o) \/ AgeCookies(o)

Next ==
    \/ \E g \in Goroutines : (\E a \in Addresses : Arrive(g, a)) \/ Refresh(g) \/ Handle(g)
    \/ Scan
    \/ \E a \in Addresses : Delete(a)
    \/ Adjust
    \/ Environment

\* The scheduler runs every goroutine, the visit and the request end (both have
\* timeouts), and Go serves the senders blocked on a channel in turn.
Fairness == \A g \in Goroutines : WF_vars(Refresh(g) \/ Handle(g))

Spec == Init /\ [][Next]_vars
FairSpec == Spec /\ Fairness

-----------------------------------------------------------------------------
\* The goroutines that won a CompareAndSwap and have not reset the flag yet.
Claimants(o) ==
    {g \in Goroutines :
       target[g] = o /\ pc[g] \in {"slot", "push", "fetch", "pop", "unflag"}}

\* A session object is refreshed by one goroutine at a time, and its flag is up
\* exactly as long: on no way out is it left up, which would hang every later
\* request from that address (main.go:918-931).
RefreshExclusive ==
    \A o \in Sessions :
        /\ refreshing[o] <=> Claimants(o) # {}
        /\ \A g, h \in Claimants(o) : g = h

\* The goroutines between the two operations on the semaphore.
Refreshers == {g \in Goroutines : pc[g] \in {"fetch", "pop"}}

\* No slot is lost or returned twice, on any way out of refreshSession
\* (main.go:946-947).
SlotsBalanced == slots = Cardinality(Refreshers)

\* The inductive invariant: a goroutine that has a request has its address, and
\* the flag it resets and the slot it returns are its own.
Addressed == \A g \in Goroutines : pc[g] # "arrive" => ipv6[g] \in Addresses

IInv == TypeOK /\ Addressed /\ RefreshExclusive /\ SlotsBalanced

\* A request that arrived ends, whether its session was refreshed by it,
\* by another, or failed to be; waits for a flag, a limit or a slot all end.
RequestsEnd == \A g \in Goroutines : pc[g] # "arrive" ~> pc[g] = "done"

\* What the code says of a session: one for each address (main.go:79), so that
\* the request goes out with the cookies that were just obtained for it
\* (main.go:1344).
SentWithRefreshedSession ==
    \A g \in Goroutines :
        pc[g] = "send" /\ refreshed[g] = "nil" => session[g] = target[g]
=============================================================================
