---------------------------- MODULE ProxyHandler ----------------------------
(***************************************************************************)
(* The request handler of the uTLS proxy and its shutdown                  *)
(* (utls-proxy/main.go: proxyHandler, main): how a request is counted,     *)
(* tried again and recorded, and what the main goroutine waits for after a *)
(* signal.                                                                 *)
(*                                                                         *)
(* A step is one access to the shutdown flag or to a counter, one try of   *)
(* the request, or the main goroutine's.  Which session and cookies a try  *)
(* uses is in ProxySession, what the breaker makes of a result in          *)
(* CircuitBreaker.  The counters for each kind of error are only displayed *)
(* and left out.                                                           *)
(***************************************************************************)
EXTENDS Integers, FiniteSets

CONSTANTS
    Goroutines,     (* handler goroutines: each serves one request           *)
    MaxRetries      (* config.maxRetries: tries after the first              *)

ASSUME HandlerAssumption ==
    /\ IsFiniteSet(Goroutines)
    /\ MaxRetries \in Nat

VARIABLES
    shutdownFlag,
    activeRequests,
    totalRequests, successRequests, failedRequests,     (* stats             *)
    pc,                 (* goroutine -> what it does next                    *)
    attempt,            (* goroutine -> the loop's counter, -1 before it     *)
    hasRefreshedCookie, (* goroutine -> it has answered a 403 with a refresh *)
    recorded,           (* goroutine -> results it told the breaker          *)
    answer,             (* goroutine -> the response it wrote                *)
    main                (* where the main goroutine is                       *)

stats == <<totalRequests, successRequests, failedRequests>>
loopVars == <<attempt, hasRefreshedCookie>>
vars == <<shutdownFlag, activeRequests, stats, pc, loopVars, recorded, answer, main>>

Locations == {"idle", "enter", "count", "validate", "try", "backoff", "refresh",
              "body", "countFailure", "recordFailure", "recordSuccess",
              "leave", "done"}

\* "panic": the connection is closed without a response.
Answers == {"none", "shutting down", "no url", "error", "ok", "panic"}

TypeOK ==
    /\ shutdownFlag \in BOOLEAN
    /\ activeRequests \in 0 .. Cardinality(Goroutines)
    /\ totalRequests \in Nat
    /\ successRequests \in Nat
    /\ failedRequests \in Nat
    /\ pc \in [Goroutines -> Locations]
    /\ attempt \in [Goroutines -> -1 .. MaxRetries]
    /\ hasRefreshedCookie \in [Goroutines -> BOOLEAN]
    /\ recorded \in [Goroutines -> Nat]
    /\ answer \in [Goroutines -> Answers]
    /\ main \in {"serving", "draining", "drained", "timed out", "exited"}

Init ==
    /\ shutdownFlag = FALSE
    /\ activeRequests = 0
    /\ totalRequests = 0
    /\ successRequests = 0
    /\ failedRequests = 0
    /\ pc = [g \in Goroutines |-> "idle"]
    /\ attempt = [g \in Goroutines |-> -1]
    /\ hasRefreshedCookie = [g \in Goroutines |-> FALSE]
    /\ recorded = [g \in Goroutines |-> 0]
    /\ answer = [g \in Goroutines |-> "none"]
    /\ main = "serving"

-----------------------------------------------------------------------------
\* Nothing runs any more when the main goroutine has returned.
Goto(g, from, to) ==
    /\ main # "exited"
    /\ pc[g] = from
    /\ pc' = [pc EXCEPT ![g] = to]

Write(g, response) == answer' = [answer EXCEPT ![g] = response]

\* The flag is tested first; a request that passes is counted after it.
CheckShutdown(g) ==
    /\ \/ /\ shutdownFlag
          /\ Goto(g, "idle", "done")
          /\ Write(g, "shutting down")
       \/ /\ ~shutdownFlag
          /\ Goto(g, "idle", "enter")
          /\ UNCHANGED answer
    /\ UNCHANGED <<shutdownFlag, activeRequests, stats, loopVars, recorded, main>>

Enter(g) ==
    /\ Goto(g, "enter", "count")
    /\ activeRequests' = activeRequests + 1
    /\ UNCHANGED <<shutdownFlag, stats, loopVars, recorded, answer, main>>

Count(g) ==
    /\ Goto(g, "count", "validate")
    /\ totalRequests' = totalRequests + 1
    /\ UNCHANGED <<shutdownFlag, activeRequests, successRequests, failedRequests,
                   loopVars, recorded, answer, main>>

\* Mutation of MissingURL: it returns before the deferred call is set up.
MissingURLUndeferred(g) ==
    /\ Goto(g, "validate", "done")
    /\ Write(g, "no url")
    /\ UNCHANGED <<shutdownFlag, activeRequests, stats, loopVars, recorded, main>>

\* A request without a URL is no failure.
MissingURL(g) ==
    /\ Goto(g, "validate", "leave")
    /\ Write(g, "no url")
    /\ UNCHANGED <<shutdownFlag, activeRequests, stats, loopVars, recorded, main>>

\* A URL or an address that is not allowed, an open breaker, no client.
Reject(g) ==
    /\ Goto(g, "validate", "countFailure")
    /\ Write(g, "error")
    /\ UNCHANGED <<shutdownFlag, activeRequests, stats, loopVars, recorded, main>>

Accept(g) ==
    /\ Goto(g, "validate", "try")
    /\ attempt' = [attempt EXCEPT ![g] = 0]
    /\ UNCHANGED <<shutdownFlag, activeRequests, stats, hasRefreshedCookie,
                   recorded, answer, main>>

-----------------------------------------------------------------------------
\* Mutation of TryAgain: one try too many.
TryOnceMore(g) ==
    /\ Goto(g, "try", "backoff")
    /\ attempt[g] <= MaxRetries
    /\ UNCHANGED <<shutdownFlag, activeRequests, stats, loopVars, recorded,
                   answer, main>>

\* A try ended in a network error, a timeout, 429, 503 or another 5xx.
TryAgain(g) ==
    /\ Goto(g, "try", "backoff")
    /\ attempt[g] < MaxRetries
    /\ UNCHANGED <<shutdownFlag, activeRequests, stats, loopVars, recorded,
                   answer, main>>

\* Mutation of GiveUp: the failure is counted, the breaker is not told.
GiveUpQuietly(g) ==
    /\ Goto(g, "try", "leave")
    /\ attempt[g] = MaxRetries
    /\ Write(g, "error")
    /\ failedRequests' = failedRequests + 1
    /\ UNCHANGED <<shutdownFlag, activeRequests, totalRequests, successRequests,
                   loopVars, recorded, main>>

GiveUp(g) ==
    /\ Goto(g, "try", "countFailure")
    /\ attempt[g] = MaxRetries
    /\ Write(g, "error")
    /\ UNCHANGED <<shutdownFlag, activeRequests, stats, loopVars, recorded, main>>

\* Mutation of NextAttempt: a try that ends the waiting is not counted.
SameAttempt(g) == UNCHANGED attempt

NextAttempt(g) == attempt' = [attempt EXCEPT ![g] = @ + 1]

\* The delay is over.
Retry(g) ==
    /\ Goto(g, "backoff", "try")
    /\ NextAttempt(g)
    /\ UNCHANGED <<shutdownFlag, activeRequests, stats, hasRefreshedCookie,
                   recorded, answer, main>>

\* 403 on a request that needs a session: one refresh, while tries are left.
Forbidden(g) ==
    /\ Goto(g, "try", "refresh")
    /\ ~hasRefreshedCookie[g]
    /\ attempt[g] < MaxRetries
    /\ UNCHANGED <<shutdownFlag, activeRequests, stats, loopVars, recorded,
                   answer, main>>

ForbiddenAgain(g) ==
    /\ Goto(g, "try", "countFailure")
    /\ hasRefreshedCookie[g] \/ attempt[g] = MaxRetries
    /\ Write(g, "error")
    /\ UNCHANGED <<shutdownFlag, activeRequests, stats, loopVars, recorded, main>>

Refreshed(g) ==
    /\ Goto(g, "refresh", "try")
    /\ hasRefreshedCookie' = [hasRefreshedCookie EXCEPT ![g] = TRUE]
    /\ NextAttempt(g)
    /\ UNCHANGED <<shutdownFlag, activeRequests, stats, recorded, answer, main>>

\* Mutation of NotRefreshed: the breaker is told, the failure is not counted.
NotRefreshedUncounted(g) ==
    /\ Goto(g, "refresh", "recordFailure")
    /\ Write(g, "error")
    /\ UNCHANGED <<shutdownFlag, activeRequests, stats, loopVars, recorded, main>>

NotRefreshed(g) ==
    /\ Goto(g, "refresh", "countFailure")
    /\ Write(g, "error")
    /\ UNCHANGED <<shutdownFlag, activeRequests, stats, loopVars, recorded, main>>

\* Any other status: the body is read, and unzipped, or cannot be.
Respond(g) ==
    /\ Goto(g, "try", "body")
    /\ UNCHANGED <<shutdownFlag, activeRequests, stats, loopVars, recorded,
                   answer, main>>

BodyFails(g) ==
    /\ Goto(g, "body", "countFailure")
    /\ Write(g, "error")
    /\ UNCHANGED <<shutdownFlag, activeRequests, stats, loopVars, recorded, main>>

\* rng is used by all goroutines without a lock and may panic where a profile
\* is chosen or headers are set: before the first try, after a delay and in or
\* after a refresh.  net/http recovers; of the handler only the deferred call
\* still runs.
Panic(g) ==
    /\ \E from \in {"validate", "backoff", "refresh"} : Goto(g, from, "leave")
    /\ Write(g, "panic")
    /\ UNCHANGED <<shutdownFlag, activeRequests, stats, loopVars, recorded, main>>

-----------------------------------------------------------------------------
\* failedRequests, and recordRequestResult if the request was tried.
CountFailure(g) ==
    /\ \/ attempt[g] = -1 /\ Goto(g, "countFailure", "leave")
       \/ attempt[g] # -1 /\ Goto(g, "countFailure", "recordFailure")
    /\ failedRequests' = failedRequests + 1
    /\ UNCHANGED <<shutdownFlag, activeRequests, totalRequests, successRequests,
                   loopVars, recorded, answer, main>>

RecordFailure(g) ==
    /\ Goto(g, "recordFailure", "leave")
    /\ recorded' = [recorded EXCEPT ![g] = @ + 1]
    /\ UNCHANGED <<shutdownFlag, activeRequests, stats, loopVars, answer, main>>

CountSuccess(g) ==
    /\ Goto(g, "body", "recordSuccess")
    /\ successRequests' = successRequests + 1
    /\ UNCHANGED <<shutdownFlag, activeRequests, totalRequests, failedRequests,
                   loopVars, recorded, answer, main>>

RecordSuccess(g) ==
    /\ Goto(g, "recordSuccess", "leave")
    /\ recorded' = [recorded EXCEPT ![g] = @ + 1]
    /\ Write(g, "ok")
    /\ UNCHANGED <<shutdownFlag, activeRequests, stats, loopVars, main>>

\* The deferred call, on every way out.
Leave(g) ==
    /\ Goto(g, "leave", "done")
    /\ activeRequests' = activeRequests - 1
    /\ UNCHANGED <<shutdownFlag, stats, loopVars, recorded, answer, main>>

-----------------------------------------------------------------------------
Signal ==
    /\ main = "serving"
    /\ main' = "draining"
    /\ shutdownFlag' = TRUE
    /\ UNCHANGED <<activeRequests, stats, pc, loopVars, recorded, answer>>

\* Mutation of Drained: it does not wait for the last request.
DrainedButOne ==
    /\ main = "draining"
    /\ activeRequests <= 1
    /\ main' = "drained"
    /\ UNCHANGED <<shutdownFlag, activeRequests, stats, pc, loopVars, recorded, answer>>

\* The main goroutine polls the count of active requests.
Drained ==
    /\ main = "draining"
    /\ activeRequests = 0
    /\ main' = "drained"
    /\ UNCHANGED <<shutdownFlag, activeRequests, stats, pc, loopVars, recorded, answer>>

\* 30 s are over.
DrainTimeout ==
    /\ main = "draining"
    /\ activeRequests > 0
    /\ main' = "timed out"
    /\ UNCHANGED <<shutdownFlag, activeRequests, stats, pc, loopVars, recorded, answer>>

\* server.Shutdown waits for the handlers, for 5 s at most; main returns.
Exit ==
    /\ main \in {"drained", "timed out"}
    /\ main' = "exited"
    /\ UNCHANGED <<shutdownFlag, activeRequests, stats, pc, loopVars, recorded, answer>>

Handle(g) ==
    \/ Enter(g) \/ Count(g) \/ MissingURL(g) \/ Reject(g) \/ Accept(g)
    \/ TryAgain(g) \/ GiveUp(g) \/ Retry(g)
    \/ Forbidden(g) \/ ForbiddenAgain(g) \/ Refreshed(g) \/ NotRefreshed(g)
    \/ Respond(g) \/ BodyFails(g) \/ Panic(g)
    \/ CountFailure(g) \/ RecordFailure(g) \/ CountSuccess(g) \/ RecordSuccess(g)
    \/ Leave(g)

Shutdown == Drained \/ DrainTimeout \/ Exit

Next ==
    \/ \E g \in Goroutines : CheckShutdown(g) \/ Handle(g)
    \/ Signal
    \/ Shutdown

\* Tries, delays and refreshes end; the main goroutine is not held up.
Fairness ==
    /\ \A g \in Goroutines : WF_vars(Handle(g))
    /\ WF_vars(Shutdown)

Spec == Init /\ [][Next]_vars
FairSpec == Spec /\ Fairness

-----------------------------------------------------------------------------
\* The requests between the two changes of the counter.
Active == {g \in Goroutines : pc[g] \notin {"idle", "enter", "done"}}

\* The counter that a shutdown waits for is exact, on every way out of the
\* handler (main.go:1150-1151).
ActiveIsExact == activeRequests = Cardinality(Active)

\* The requests that are in the total and in neither of its parts: under way,
\* without a URL, or ended by a panic, which no code counts.
Unsettled ==
    {g \in Goroutines :
       \/ pc[g] \in {"validate", "try", "backoff", "refresh", "body", "countFailure"}
       \/ answer[g] \in {"no url", "panic"}}

\* The statistics of /health add up: however often a request was tried, it ends
\* up once in the successes or once in the failures.  The two ways out that
\* stay in the total alone are a missing URL (main.go:1159) and a panic
\* (main.go:553, 1111), wherever in the handler it happens.
StatsAddUp ==
    totalRequests = successRequests + failedRequests + Cardinality(Unsettled)

\* The breaker hears once of each request that was tried, whatever the way out
\* and the number of tries, and never of one that was not.  Of a request that
\* panics between two tries it does not hear (main.go:1111), not even of the
\* tries that failed.
RecordedOnce ==
    \A g \in Goroutines :
        recorded[g] = IF /\ attempt[g] # -1
                         /\ pc[g] \in {"leave", "done"}
                         /\ answer[g] # "panic"
                      THEN 1 ELSE 0

\* When the main goroutine finds all requests done, none that was counted is
\* under way; what it may miss is a request between its test of the flag and
\* its count (main.go:1145-1150), which is cut off when main returns.
DrainMissesOnlyNewcomers ==
    [][main = "draining" /\ main' = "drained" =>
         \A g \in Goroutines : pc[g] \in {"idle", "enter", "done"}]_vars

\* A request that arrived is answered, or panics, after a bounded number of tries, or the
\* process has exited.
RequestsSettle ==
    \A g \in Goroutines : pc[g] # "idle" ~> pc[g] = "done" \/ main = "exited"

\* The inductive invariant.  A request has a number of tries from its first try
\* on, and one without a URL has none; what panicked is over.
LoopEntered ==
    \A g \in Goroutines :
        /\ pc[g] \in {"idle", "enter", "count", "validate"} => attempt[g] = -1
        /\ pc[g] \in {"try", "backoff", "refresh", "body", "recordFailure",
                      "recordSuccess"} => attempt[g] # -1
        /\ answer[g] = "no url" => pc[g] \in {"leave", "done"} /\ attempt[g] = -1
        /\ answer[g] = "panic" => pc[g] \in {"leave", "done"}
        /\ pc[g] \in {"backoff", "refresh"} => attempt[g] < MaxRetries

IInv == TypeOK /\ ActiveIsExact /\ StatsAddUp /\ RecordedOnce /\ LoopEntered
=============================================================================
